-------------------------- MODULE ServerDriverProofs --------------------------
(***************************************************************************)
(* Proofs about ServerDriver, for every finite set of streams and every    *)
(* number of frames in a read: a request is kept as long as it lives, no   *)
(* response is given to a stream that is gone, and the transport is closed *)
(* behind the last output.                                                 *)
(*                                                                         *)
(* What the loop keeps of a stream lags behind the Connection by the       *)
(* events not yet looked at.  The closure of a stream is among them,       *)
(* behind everything else of that stream, when the loop does not know.     *)
(***************************************************************************)
EXTENDS ServerDriver, FiniteSetTheorems, SequenceTheorems, TLAPS

RequestKinds == {"RequestReceived", "DataReceived", "TrailersReceived"}

Events == [kind : RequestKinds \cup {"StreamReset"}, stream : Streams, end : BOOLEAN]
          \cup [kind : {"StreamClosed"}, stream : Streams]
          \cup [kind : {"ConnectionClosed"}]

\* The i-th event of es is part of the request on s, begins it, ends it, or says
\* that the stream is gone.
Brings(es, s, i) == es[i].kind \in RequestKinds /\ es[i].stream = s
Begins(es, s, i) == es[i].kind = "RequestReceived" /\ es[i].stream = s
Ends(es, s, i) == Brings(es, s, i) /\ es[i].end
Goes(es, s, i) == es[i].kind \in {"StreamReset", "StreamClosed"} /\ es[i].stream = s

\* The parts of TypeOK.
Typed ==
    /\ pc \in {"send", "drain", "sent", "read", "received", "done"}
    /\ requests \subseteq Streams /\ ready \subseteq requests
    /\ finished \in BOOLEAN
    /\ state \in [Streams -> {"idle", "open", "closing", "closed"}]
    /\ ended \subseteq Streams /\ responses \subseteq Streams
    /\ goaway \in BOOLEAN /\ closed \in BOOLEAN /\ out \in BOOLEAN
    /\ term \in {"none", "queued", "sent"}
    /\ events \in Seq(Events)
    /\ batch \in Nat
    /\ method \in [Streams -> {"none", "GET", "HEAD", "CONNECT"}]

\* What the loop and the client know of a stream that was not opened, or ended.
KnownInv ==
    \A s \in Streams :
        /\ method[s] = "none" => state[s] = "idle"
        /\ state[s] = "idle" => /\ s \notin requests \cup ended \cup responses
                                /\ \A i \in 1 .. Len(events) : ~Brings(events, s, i)
        /\ s \in ended => s \in over
        /\ s \in ready => s \in ended
        /\ \A i \in 1 .. Len(events) :
              /\ Ends(events, s, i) => s \in ended
              /\ Brings(events, s, i) /\ ~Begins(events, s, i) => Ends(events, s, i)

\* A stream with a response was ready and has no more to say.
ResponseInv ==
    \A s \in responses :
        /\ Exists(s) /\ s \in ended /\ s \notin requests
        /\ \A i \in 1 .. Len(events) : ~Brings(events, s, i)

\* Where the closure of a stream is that the loop does not know.
ClosureInv ==
    \A s \in Streams :
        /\ \A i \in 1 .. Len(events) : Goes(events, s, i) => state[s] = "closed"
        /\ state[s] = "closed" =>
              /\ s \in requests => \E j \in 1 .. Len(events) : Goes(events, s, j)
              /\ \A i \in 1 .. Len(events) : Brings(events, s, i) =>
                    \E j \in i .. Len(events) : Goes(events, s, j)

\* Where the beginning and the end of a request are that the loop does not know.
RequestInv ==
    \A s \in Streams :
        /\ state[s] = "open" /\ s \notin ended =>
              s \in requests \/ \E i \in 1 .. Len(events) : Begins(events, s, i)
        /\ pc # "done" /\ s \in requests \cap ended =>
              s \in ready \/ \E i \in 1 .. Len(events) : Ends(events, s, i)
        /\ \A i \in 1 .. Len(events) : Begins(events, s, i) /\ s \in ended =>
              \E j \in i .. Len(events) : Ends(events, s, j)

\* The turns of the loop.
LoopInv ==
    /\ pc = "send" \/ (pc = "read" /\ batch = 0) => events = <<>>
    /\ pc \in {"send", "drain", "read"} => ready = {}
    /\ pc \notin {"read", "done"} => batch = 0
    /\ pc # "done" => outcome = "none"
    /\ outcome # "unavailable"
    /\ outcome = "closed" => closed

\* Nothing comes behind ConnectionClosed, and there is nothing left to write.
ClosedInv ==
    /\ \A i \in 1 .. Len(events) :
          events[i].kind = "ConnectionClosed" => closed /\ i = Len(events)
    /\ finished => closed /\ events = <<>> /\ pc \in {"sent", "received", "done"}
    /\ closed =>
        /\ pc \notin {"send", "read"}
        /\ ~WantWrite /\ (term = "none" => responses = {})
        /\ pc # "done" => finished \/ (events # <<>> /\ events[Len(events)].kind = "ConnectionClosed")

\* The inductive invariant.
IInv ==
    /\ Typed
    /\ KnownInv
    /\ ResponseInv
    /\ ClosureInv
    /\ RequestInv
    /\ LoopInv
    /\ ClosedInv

\* It says what the runs check.
LEMMA InvImplies == ASSUME IInv PROVE OrderlyEnd /\ RequestsLive
<1> USE DEF IInv
<1>1. OrderlyEnd
    BY DEF LoopInv, ClosedInv, OrderlyEnd
<1>2. RequestsLive
    <2> SUFFICES ASSUME pc \in {"send", "read"}, batch = 0, NEW s \in Streams
                 PROVE  /\ s \in requests => Exists(s) /\ s \notin ended
                        /\ state[s] = "open" /\ s \notin ended => s \in requests
        BY DEF RequestsLive
    <2>1. events = <<>> /\ Len(events) = 0 /\ ready = {} /\ pc # "done"
        BY EmptySeq DEF LoopInv
    <2>2. s \in requests => Exists(s)
        BY <2>1 DEF KnownInv, ClosureInv, Typed, Exists
    <2> QED BY <2>1, <2>2 DEF RequestInv
<1> QED BY <1>1, <1>2

\* It holds at the start.
LEMMA InitInv == Init => IInv
<1> SUFFICES ASSUME Init PROVE IInv
    OBVIOUS
<1>1. events = <<>> /\ Len(events) = 0 /\ events \in Seq(Events)
    BY EmptySeq DEF Init
<1>2. Typed
    BY <1>1 DEF Init, Typed
<1>3. KnownInv /\ ResponseInv
    BY <1>1 DEF Init, KnownInv, ResponseInv
<1>4. ClosureInv /\ RequestInv
    BY <1>1 DEF Init, ClosureInv, RequestInv
<1>5. LoopInv /\ ClosedInv
    BY <1>1 DEF Init, LoopInv, ClosedInv
<1> QED BY <1>2, <1>3, <1>4, <1>5 DEF IInv
-----------------------------------------------------------------------------
(* The list of events.                                                     *)

\* New events come behind the others.
LEMMA EventsGrow ==
    ASSUME NEW es \in Seq(Events), NEW new \in Seq(Events)
    PROVE  /\ es \o new \in Seq(Events)
           /\ Len(es \o new) = Len(es) + Len(new) /\ Len(es) \in Nat /\ Len(new) \in Nat
           /\ \A i \in 1 .. Len(es) : (es \o new)[i] = es[i]
           /\ \A i \in 1 .. Len(new) : (es \o new)[Len(es) + i] = new[i]
<1>1. es \o new \in Seq(Events) /\ Len(es) \in Nat /\ Len(new) \in Nat
    BY ConcatProperties, LenProperties
<1> QED BY <1>1, ConcatProperties

\* The closure of streams is told once for each.
LEMMA ClosuresTold ==
    ASSUME NEW S \in SUBSET Streams
    PROVE  /\ ClosedEvents(S) \in Seq(Events)
           /\ Len(ClosedEvents(S)) = Cardinality(S) /\ Cardinality(S) \in Nat
           /\ \A i \in 1 .. Len(ClosedEvents(S)) :
                 ClosedEvents(S)[i].kind = "StreamClosed" /\ ClosedEvents(S)[i].stream \in S
           /\ \A s \in S : \E i \in 1 .. Len(ClosedEvents(S)) : ClosedEvents(S)[i].stream = s
<1> DEFINE n == Cardinality(S)
           Order(f) == \A s \in S : \E i \in DOMAIN f : f[i] = s
           order == CHOOSE f \in [1 .. n -> S] : Order(f)
<1>1. IsFiniteSet(S) /\ n \in Nat
    BY ServerDriverAssumption, FS_Subset, FS_CardinalityType
<1>2. \E f \in [1 .. n -> S] : Order(f)
    <2>1. PICK f \in Bijection(1 .. n, S) : TRUE
        BY <1>1, FS_CardinalityType DEF ExistsBijection
    <2>2. f \in [1 .. n -> S] /\ \A s \in S : \E i \in 1 .. n : f[i] = s
        BY <2>1 DEF Bijection, Injection, Surjection
    <2> QED BY <2>2
<1>3. order \in [1 .. n -> S] /\ Order(order)
    BY <1>2
<1>4. ClosedEvents(S) = [i \in 1 .. n |-> [kind |-> "StreamClosed", stream |-> order[i]]]
    BY DEF ClosedEvents
<1> HIDE DEF order
<1>5. \A i \in 1 .. n : ClosedEvents(S)[i] \in Events
    BY <1>3, <1>4 DEF Events
<1>6. ClosedEvents(S) \in Seq(Events) /\ Len(ClosedEvents(S)) = n
    BY <1>1, <1>4, <1>5, IsASeq, LenProperties
<1>7. \A i \in 1 .. n : ClosedEvents(S)[i].kind = "StreamClosed" /\ ClosedEvents(S)[i].stream = order[i]
    BY <1>4
<1>8. /\ \A i \in 1 .. n : order[i] \in S
      /\ \A s \in S : \E i \in 1 .. n : order[i] = s
    BY <1>3
<1> QED BY <1>1, <1>6, <1>7, <1>8

\* The event that ends the connection.
End1 == [kind |-> "ConnectionClosed"]

\* The events are es, and ConnectionClosed behind them if the connection ends.
Published(es) ==
    /\ events' \in Seq(Events) /\ Len(es) \in Nat
    /\ \A i \in 1 .. Len(es) : events'[i] = es[i]
    /\ \/ Len(events') = Len(es) /\ closed' = closed
       \/ /\ Len(events') = Len(es) + 1 /\ events'[Len(es) + 1].kind = "ConnectionClosed"
          /\ closed' = TRUE /\ ~WantRead' /\ ~WantWrite'

\* What _update_terminal_state() publishes.
LEMMA TerminalState ==
    ASSUME events \in Seq(Events), NEW new \in Seq(Events), UpdateTerminalState(new)
    PROVE  Published(events \o new)
<1> DEFINE es == events \o new
<1>1. es \in Seq(Events) /\ Len(es) \in Nat
    BY EventsGrow, LenProperties
<1>2. End1 \in Events /\ <<End1>> \in Seq(Events) /\ Len(<<End1>>) = 1 /\ <<End1>>[1] = End1
    BY DEF Events, End1
<1>3. CASE goaway' /\ ~closed /\ ~WantRead' /\ ~WantWrite'
    <2>1. closed' = TRUE /\ events' = es \o <<End1>>
        BY <1>3 DEF UpdateTerminalState, End1
    <2>2. /\ events' \in Seq(Events) /\ Len(events') = Len(es) + 1
          /\ \A i \in 1 .. Len(es) : events'[i] = es[i]
          /\ events'[Len(es) + 1] = End1
        BY <1>1, <1>2, <2>1, EventsGrow
    <2>3. End1.kind = "ConnectionClosed"
        BY DEF End1
    <2> HIDE DEF es
    <2>4. Published(es)
        BY <1>1, <1>3, <2>1, <2>2, <2>3 DEF Published
    <2> QED BY <2>4 DEF es
<1>4. CASE ~(goaway' /\ ~closed /\ ~WantRead' /\ ~WantWrite')
    <2>1. closed' = closed /\ events' = es
        BY <1>4 DEF UpdateTerminalState
    <2> QED BY <1>1, <2>1 DEF Published
<1> QED BY <1>3, <1>4

\* An empty list is published as it is.
LEMMA NothingNew ==
    ASSUME events \in Seq(Events)
    PROVE  /\ events \o <<>> = events
           /\ <<>> \o events = events
           /\ <<>> \in Seq(Events) /\ Len(<<>>) = 0
BY ConcatEmptySeq, EmptySeq
-----------------------------------------------------------------------------
(* The loop.                                                               *)

\* data_to_send(): streams close whose request the loop may still keep.
LEMMA SendKeeps == ASSUME IInv, Send PROVE IInv'
<1> USE DEF IInv, Send, locals, client, lib, streamVars
<1>0. /\ events = <<>> /\ Len(events) = 0 /\ ~closed /\ pc = "send" /\ events \in Seq(Events)
      /\ pc' = "drain" /\ ready = {} /\ ~finished
    BY EmptySeq DEF LoopInv, ClosedInv, Typed
<1>1. CASE term = "none"
    <2>1. PICK S \in Sendable :
             LET gone == S \cup {s \in Streams : state[s] = "closing"}
             IN  /\ UNCHANGED <<ended, goaway, term>>
                 /\ CloseStreams(gone)
                 /\ UpdateTerminalState(ClosedEvents(gone))
        BY <1>1
    <2> DEFINE gone == S \cup {s \in Streams : state[s] = "closing"}
               es == ClosedEvents(gone)
    <2>2. gone \in SUBSET Streams /\ \A s \in gone : state[s] \in {"open", "closing"}
        BY <2>1 DEF Sendable, Typed
    <2>3. /\ state' = [s \in Streams |-> IF s \in gone THEN "closed" ELSE state[s]]
          /\ responses' = responses \ gone
        BY <2>1 DEF CloseStreams
    <2>4. Published(es)
        <3>1. es \in Seq(Events)
            BY <2>2, ClosuresTold
        <3>2. UpdateTerminalState(es)
            BY <2>1
        <3> HIDE DEF es
        <3>3. Published(events \o es)
            BY <1>0, <3>1, <3>2, TerminalState
        <3>4. events \o es = es
            BY <1>0, <3>1, ConcatEmptySeq
        <3> QED BY <3>3, <3>4
    <2>5. /\ \A i \in 1 .. Len(es) : es[i].kind = "StreamClosed" /\ es[i].stream \in gone
          /\ \A s \in gone : \E i \in 1 .. Len(es) : es[i].stream = s
        BY <2>2, ClosuresTold
    <2> HIDE DEF gone, es
    <2>6. /\ \A i \in 1 .. Len(events') :
                events'[i].kind = "ConnectionClosed"
                \/ (events'[i].kind = "StreamClosed" /\ events'[i].stream \in gone)
          /\ \A s \in gone : \E i \in 1 .. Len(events') : Goes(events', s, i)
          /\ Len(events') \in Nat
        BY <2>4, <2>5 DEF Published, Goes
    <2>7. Typed'
        BY <1>0, <1>1, <2>1, <2>2, <2>3, <2>4 DEF Typed, Published
    <2>8. KnownInv'
        BY <1>0, <2>1, <2>2, <2>3, <2>6 DEF KnownInv, Typed, Brings, Ends, RequestKinds
    <2>9. ResponseInv'
        BY <2>1, <2>3, <2>6 DEF ResponseInv, Typed, Exists, Brings, RequestKinds
    <2>10. ClosureInv'
        BY <1>0, <2>2, <2>3, <2>6 DEF ClosureInv, Typed, Brings, Goes, RequestKinds
    <2>11. RequestInv'
        BY <1>0, <2>1, <2>2, <2>3, <2>6 DEF RequestInv, Typed, Brings, Begins, RequestKinds
    <2>12. LoopInv'
        BY <1>0, <2>4 DEF LoopInv, Published
    <2>13. ClosedInv'
        <3>1. /\ \A i \in 1 .. Len(events') :
                    events'[i].kind = "ConnectionClosed" => closed' /\ i = Len(events')
              /\ closed' => /\ ~WantRead' /\ ~WantWrite' /\ events' # <<>>
                            /\ events'[Len(events')].kind = "ConnectionClosed"
            BY <1>0, <2>4, <2>5, EmptySeq DEF Published
        <3>2. closed' => responses' = {}
            BY <1>1, <2>1, <2>7, <2>9, <3>1 DEF WantRead, ResponseInv, Typed, Exists
        <3> QED BY <1>0, <3>1, <3>2 DEF ClosedInv
    <2> QED BY <2>7, <2>8, <2>9, <2>10, <2>11, <2>12, <2>13
<1>2. CASE term # "none"
    <2>1. /\ term' = "sent" /\ goaway' = TRUE /\ UNCHANGED <<state, ended, responses>>
          /\ Published(events)
        <3>1. UpdateTerminalState(<<>>)
            BY <1>2
        <3>2. Published(events \o <<>>)
            BY <1>0, <3>1, NothingNew, TerminalState
        <3> QED BY <1>0, <1>2, <3>2, NothingNew
    <2>2. /\ \A i \in 1 .. Len(events') : events'[i].kind = "ConnectionClosed" /\ i = Len(events')
          /\ Len(events') \in Nat /\ events' \in Seq(Events)
        <3>1. /\ events' \in Seq(Events) /\ Len(events') \in {0, 1}
              /\ Len(events') = 1 => events'[1].kind = "ConnectionClosed"
            BY ONLY <1>0, <2>1 DEF Published
        <3> QED BY ONLY <3>1
    <2>3. Typed'
        BY <1>0, <2>1, <2>2 DEF Typed, Published
    <2>4. KnownInv' /\ ResponseInv'
        BY <1>0, <2>1, <2>2 DEF KnownInv, ResponseInv, Exists, Brings, Ends, RequestKinds
    <2>5. ClosureInv' /\ RequestInv'
        BY <1>0, <2>1, <2>2 DEF ClosureInv, RequestInv, Brings, Begins, Ends, Goes, RequestKinds
    <2>6. LoopInv'
        BY <1>0 DEF LoopInv
    <2>7. ClosedInv'
        <3>1. closed' => /\ ~WantWrite' /\ events' # <<>>
                         /\ events'[Len(events')].kind = "ConnectionClosed"
            <4>1. closed' => ~WantWrite' /\ Len(events') = 1
                <5>1. closed' => ~WantWrite' /\ Len(events') = Len(events) + 1
                    BY <1>0, <2>1 DEF Published
                <5> QED BY <1>0, <5>1
            <4>2. Len(events') = 1 => events' # <<>>
                BY <2>2, EmptySeq
            <4> QED BY <2>2, <4>1, <4>2
        <3>2. \A i \in 1 .. Len(events') : closed'
            BY <1>0, <2>1 DEF Published
        <3> QED BY <1>0, <2>1, <2>2, <3>1, <3>2 DEF ClosedInv
    <2> QED BY <2>3, <2>4, <2>5, <2>6, <2>7
<1> QED BY <1>1, <1>2

\* receive_data() ends: the connection may.
LEMMA ReceivedKeeps == ASSUME IInv, Received PROVE IInv'
<1> USE DEF IInv, Received, locals, client, lib, streamVars
<1>0. pc = "read" /\ pc' = "received" /\ ~closed /\ ~finished /\ events \in Seq(Events)
    BY DEF ClosedInv, Typed
<1>1. Published(events)
    <2>1. Published(events \o <<>>)
        BY <1>0, NothingNew, TerminalState
    <2> QED BY <1>0, <2>1, NothingNew
<1>2. /\ Len(events') \in Nat /\ Len(events) \in Nat /\ Len(events) <= Len(events')
      /\ events' \in Seq(Events)
      /\ \A i \in 1 .. Len(events) : events'[i] = events[i]
      /\ \A i \in 1 .. Len(events') :
            i \in 1 .. Len(events) \/ events'[i].kind = "ConnectionClosed"
    BY <1>1 DEF Published
<1>3. Typed'
    BY <1>0, <1>1, <1>2 DEF Typed, Published
<1>4. KnownInv'
    BY <1>2 DEF KnownInv, Brings, Begins, Ends, RequestKinds
<1>5. ResponseInv'
    BY <1>2 DEF ResponseInv, Exists, Brings, RequestKinds
<1>6. ClosureInv'
    BY <1>2 DEF ClosureInv, Brings, Goes, RequestKinds
<1>7. RequestInv'
    <2>1. \A s \in Streams, i \in 1 .. Len(events) :
             /\ i \in 1 .. Len(events')
             /\ Begins(events', s, i) <=> Begins(events, s, i)
             /\ Ends(events', s, i) <=> Ends(events, s, i)
        BY <1>2 DEF Brings, Begins, Ends
    <2>2. \A s \in Streams, i \in 1 .. Len(events') :
             Begins(events', s, i) => i \in 1 .. Len(events)
        BY <1>2 DEF Begins
    <2>3. \A i \in 1 .. Len(events) : \A j \in i .. Len(events) :
             j \in 1 .. Len(events) /\ j \in i .. Len(events')
        BY <1>2
    <2> QED BY <1>0, <2>1, <2>2, <2>3 DEF RequestInv
<1>8. LoopInv'
    BY <1>0 DEF LoopInv
<1>9. ClosedInv'
    <2>1. \A i \in 1 .. Len(events) : events[i].kind # "ConnectionClosed"
        BY <1>0 DEF ClosedInv
    <2>2. closed' => /\ ~WantRead' /\ ~WantWrite' /\ Len(events') = Len(events) + 1
                     /\ events'[Len(events')].kind = "ConnectionClosed" /\ events' # <<>>
        <3>1. closed' => /\ ~WantRead' /\ ~WantWrite' /\ Len(events') = Len(events) + 1
                         /\ events'[Len(events) + 1].kind = "ConnectionClosed"
            BY <1>0, <1>1 DEF Published
        <3>2. Len(events') = Len(events) + 1 => events' # <<>>
            BY <1>2, EmptySeq
        <3> QED BY <3>1, <3>2
    <2>3. \A i \in 1 .. Len(events') :
             events'[i].kind = "ConnectionClosed" => closed' /\ i = Len(events')
        BY <1>1, <1>2, <2>1 DEF Published
    <2>4. closed' /\ term' = "none" => responses' = {}
        BY <1>3, <1>5, <2>2 DEF WantRead, ResponseInv, Typed, Exists
    <2> QED BY <1>0, <2>2, <2>3, <2>4 DEF ClosedInv
<1> QED BY <1>3, <1>4, <1>5, <1>6, <1>7, <1>8, <1>9

\* drain() returns or raises, and so does read().
LEMMA TransportKeeps == ASSUME IInv, Drained \/ ReadFails PROVE IInv'
<1> USE DEF IInv, Drained, ReadFails, End, locals, client, lib, streamVars
<1>1. /\ UNCHANGED <<requests, ready, finished, state, ended, responses, goaway, closed, out,
                     term, events, batch, method, over>>
      /\ pc \in {"drain", "read"} /\ pc' \in {"sent", "done"} /\ outcome' # "unavailable"
      /\ outcome' # "closed" /\ (pc' # "done" => pc = "drain" /\ outcome' = outcome)
    BY DEF LoopInv
<1>2. Typed' /\ KnownInv' /\ ResponseInv'
    BY <1>1 DEF Typed, KnownInv, ResponseInv, Exists, Brings, Begins, Ends
<1>3. ClosureInv' /\ RequestInv'
    BY <1>1 DEF ClosureInv, RequestInv, Brings, Begins, Ends, Goes
<1>4. LoopInv'
    BY <1>1 DEF LoopInv
<1>5. ClosedInv'
    BY <1>1 DEF ClosedInv, WantWrite
<1> QED BY <1>2, <1>3, <1>4, <1>5

\* process_request_events(): the loop learns of one event.
LEMMA ProcessEventKeeps == ASSUME IInv, ProcessEvent PROVE IInv'
<1> USE DEF IInv, ProcessEvent, streamVars, client
<1> DEFINE e == Head(events)
<1>0. /\ events \in Seq(Events) /\ events' \in Seq(Events) /\ Len(events) \in Nat \ {0}
      /\ Len(events') = Len(events) - 1 /\ e = events[1] /\ e \in Events
      /\ \A i \in 1 .. Len(events') : events'[i] = events[i + 1]
    BY HeadTailProperties, EmptySeq DEF Typed
<1>1. /\ UNCHANGED <<pc, outcome, state, ended, responses, goaway, term, closed, out, batch,
                     method, over>>
      /\ pc \in {"sent", "received"} /\ finished' = (e.kind = "ConnectionClosed")
      /\ finished' \in BOOLEAN /\ (finished' <=> e.kind = "ConnectionClosed")
    OBVIOUS
<1>2. \/ /\ e.kind = "RequestReceived" /\ requests' = requests \cup {e.stream}
         /\ ready' = IF e.end THEN ready \cup {e.stream} ELSE ready
      \/ /\ EndsBody(e) /\ e.kind # "RequestReceived"
         /\ ready' = ready \cup ({e.stream} \cap requests) /\ requests' = requests
      \/ /\ e.kind \in {"StreamReset", "StreamClosed"}
         /\ requests' = requests \ {e.stream} /\ ready' = ready \ {e.stream}
      \/ /\ e.kind \notin {"RequestReceived", "TrailersReceived", "StreamReset", "StreamClosed"}
         /\ ~EndsBody(e) /\ requests' = requests /\ ready' = ready
    BY DEF EndsBody, Forget
<1> HIDE DEF e
<1>3. \A s \in Streams, i \in 1 .. Len(events') :
         /\ i + 1 \in 1 .. Len(events)
         /\ Brings(events', s, i) <=> Brings(events, s, i + 1)
         /\ Begins(events', s, i) <=> Begins(events, s, i + 1)
         /\ Ends(events', s, i) <=> Ends(events, s, i + 1)
         /\ Goes(events', s, i) <=> Goes(events, s, i + 1)
    BY <1>0 DEF Brings, Begins, Ends, Goes
<1>4. /\ e.kind \in RequestKinds \cup {"StreamReset", "StreamClosed"} => e.stream \in Streams
      /\ e.kind \in RequestKinds \cup {"StreamReset"} => e.end \in BOOLEAN
    BY <1>0 DEF Events, RequestKinds
<1>5. \A s \in Streams :
         /\ Brings(events, s, 1) <=> e.kind \in RequestKinds /\ e.stream = s
         /\ Begins(events, s, 1) <=> e.kind = "RequestReceived" /\ e.stream = s
         /\ Ends(events, s, 1) <=> e.kind \in RequestKinds /\ e.stream = s /\ e.end
         /\ Goes(events, s, 1) <=> e.kind \in {"StreamReset", "StreamClosed"} /\ e.stream = s
    BY <1>0 DEF Brings, Begins, Ends, Goes
<1>6. Typed'
    <2>1. requests' \subseteq Streams
        BY <1>2, <1>4 DEF Typed, RequestKinds
    <2>2. ready' \subseteq requests'
        BY <1>2 DEF Typed
    <2> QED BY <1>0, <1>1, <2>1, <2>2 DEF Typed
<1>7. KnownInv'
    <2> SUFFICES ASSUME NEW s \in Streams
                 PROVE  /\ s \in requests' => state[s] # "idle"
                        /\ s \in ready' => s \in ended
        BY <1>0, <1>1, <1>3 DEF KnownInv
    <2>1. s \in requests' => state[s] # "idle"
        BY <1>0, <1>2, <1>5 DEF KnownInv, RequestKinds
    <2>2. s \in ready' => s \in ready \/ Ends(events, s, 1)
        <3>1. EndsBody(e) /\ s = e.stream => \/ Brings(events, s, 1) /\ ~Begins(events, s, 1)
                                             \/ e.kind = "RequestReceived"
            BY <1>5 DEF EndsBody, RequestKinds
        <3>2. Brings(events, s, 1) /\ ~Begins(events, s, 1) => Ends(events, s, 1)
            BY <1>0 DEF KnownInv
        <3> QED BY <1>2, <1>5, <3>1, <3>2 DEF RequestKinds
    <2> QED BY <1>0, <2>1, <2>2 DEF KnownInv
<1>8. ResponseInv'
    <2> SUFFICES ASSUME NEW s \in responses PROVE s \notin requests'
        BY <1>0, <1>1, <1>3 DEF ResponseInv, Exists, Typed
    <2> QED BY <1>0, <1>2, <1>5 DEF ResponseInv, Typed, RequestKinds
<1>9. ClosureInv'
    <2> SUFFICES ASSUME NEW s \in Streams
                 PROVE  /\ \A i \in 1 .. Len(events') : Goes(events', s, i) => state[s] = "closed"
                        /\ state[s] = "closed" =>
                              /\ s \in requests' => \E j \in 1 .. Len(events') : Goes(events', s, j)
                              /\ \A i \in 1 .. Len(events') : Brings(events', s, i) =>
                                    \E j \in i .. Len(events') : Goes(events', s, j)
        BY <1>1 DEF ClosureInv
    <2>1. \A i \in 1 .. Len(events') : Goes(events', s, i) => state[s] = "closed"
        BY <1>3 DEF ClosureInv
    <2>2. ASSUME state[s] = "closed", s \in requests'
          PROVE  \E j \in 1 .. Len(events') : Goes(events', s, j)
        <3>1. PICK j \in 1 .. Len(events) : Goes(events, s, j)
            BY <1>0, <1>2, <1>5, <2>2 DEF ClosureInv, RequestKinds
        <3>2. ~Goes(events, s, 1)
            BY <1>2, <1>5, <2>2 DEF EndsBody
        <3>3. j - 1 \in 1 .. Len(events') /\ (j - 1) + 1 = j
            BY <1>0, <3>1, <3>2
        <3> QED BY <1>3, <3>1, <3>3
    <2>3. ASSUME state[s] = "closed", NEW i \in 1 .. Len(events'), Brings(events', s, i)
          PROVE  \E j \in i .. Len(events') : Goes(events', s, j)
        <3>1. PICK j \in i + 1 .. Len(events) : Goes(events, s, j)
            BY <1>3, <2>3 DEF ClosureInv
        <3>2. j - 1 \in i .. Len(events') /\ j - 1 \in 1 .. Len(events') /\ (j - 1) + 1 = j
            BY <1>0, <3>1
        <3> QED BY <1>3, <3>1, <3>2
    <2> QED BY <2>1, <2>2, <2>3
<1>10. RequestInv'
    <2> SUFFICES ASSUME NEW s \in Streams
                 PROVE  /\ state[s] = "open" /\ s \notin ended =>
                              s \in requests' \/ \E i \in 1 .. Len(events') : Begins(events', s, i)
                        /\ s \in requests' \cap ended =>
                              s \in ready' \/ \E i \in 1 .. Len(events') : Ends(events', s, i)
                        /\ \A i \in 1 .. Len(events') : Begins(events', s, i) /\ s \in ended =>
                              \E j \in i .. Len(events') : Ends(events', s, j)
        BY <1>1 DEF RequestInv
    <2>1. ASSUME state[s] = "open", s \notin ended, s \notin requests'
          PROVE  \E i \in 1 .. Len(events') : Begins(events', s, i)
        <3>1. s \notin requests
            BY <1>0, <1>2, <1>5, <2>1 DEF ClosureInv
        <3>2. PICK i \in 1 .. Len(events) : Begins(events, s, i)
            BY <2>1, <3>1 DEF RequestInv
        <3>3. ~Begins(events, s, 1)
            BY <1>2, <1>5, <2>1 DEF EndsBody
        <3>4. i - 1 \in 1 .. Len(events') /\ (i - 1) + 1 = i
            BY <1>0, <3>2, <3>3
        <3> QED BY <1>3, <3>2, <3>4
    <2>2. ASSUME s \in requests', s \in ended, s \notin ready'
          PROVE  \E i \in 1 .. Len(events') : Ends(events', s, i)
        <3>1. ~Ends(events, s, 1)
            BY <1>2, <1>5, <2>2 DEF EndsBody, RequestKinds
        <3>2. s \notin ready
            BY <1>2, <2>2
        <3>3. s \in requests \/ Begins(events, s, 1)
            BY <1>2, <1>5, <2>2
        <3>4. PICK i \in 1 .. Len(events) : Ends(events, s, i)
            BY <1>0, <1>1, <2>2, <3>2, <3>3 DEF RequestInv
        <3>5. i - 1 \in 1 .. Len(events') /\ (i - 1) + 1 = i
            BY <1>0, <3>1, <3>4
        <3> QED BY <1>3, <3>4, <3>5
    <2>3. ASSUME NEW i \in 1 .. Len(events'), Begins(events', s, i), s \in ended
          PROVE  \E j \in i .. Len(events') : Ends(events', s, j)
        <3>1. PICK j \in i + 1 .. Len(events) : Ends(events, s, j)
            BY <1>3, <2>3 DEF RequestInv
        <3>2. j - 1 \in i .. Len(events') /\ j - 1 \in 1 .. Len(events') /\ (j - 1) + 1 = j
            BY <1>0, <3>1
        <3> QED BY <1>3, <3>1, <3>2
    <2> QED BY <2>1, <2>2, <2>3
<1>11. LoopInv'
    BY <1>0, <1>1 DEF LoopInv
<1>12. ClosedInv'
    <2>1. \A i \in 1 .. Len(events') :
             events'[i].kind = "ConnectionClosed" => closed' /\ i = Len(events')
        BY <1>0, <1>1 DEF ClosedInv
    <2>2. finished' => closed' /\ events' = <<>>
        <3>1. finished' => closed' /\ Len(events') = 0
            BY <1>0, <1>1 DEF ClosedInv
        <3> QED BY <1>0, <3>1, EmptySeq
    <2>3. closed' => finished' \/ (events' # <<>> /\ events'[Len(events')].kind = "ConnectionClosed")
        <3>1. closed => events[Len(events)].kind = "ConnectionClosed"
            BY <1>0, <1>1, EmptySeq DEF ClosedInv
        <3>2. CASE Len(events') = 0
            BY <1>0, <1>1, <3>1, <3>2
        <3>3. CASE Len(events') # 0
            <4>1. Len(events') \in 1 .. Len(events') /\ Len(events') + 1 = Len(events) /\ events' # <<>>
                <5>1. Len(events') \in 1 .. Len(events') /\ Len(events') + 1 = Len(events)
                    BY <1>0, <3>3
                <5>2. events' # <<>>
                    BY <3>3, EmptySeq
                <5> QED BY <5>1, <5>2
            <4>2. events'[Len(events')] = events[Len(events)]
                BY <1>0, <4>1
            <4> QED BY <1>1, <3>1, <4>1, <4>2
        <3> QED BY <3>2, <3>3
    <2> QED BY <1>1, <2>1, <2>2, <2>3 DEF ClosedInv, WantWrite
<1> QED BY <1>6, <1>7, <1>8, <1>9, <1>10, <1>11, <1>12

\* A ready request is answered: its stream is there.
LEMMA SendResponseKeeps ==
    ASSUME IInv, NEW s \in Streams, SendResponse(s) PROVE IInv'
<1> USE DEF IInv, SendResponse, client
<1>0. /\ events = <<>> /\ Len(events) = 0 /\ ~closed /\ pc \in {"sent", "received"}
      /\ s \in requests /\ s \in ended
    BY EmptySeq DEF ClosedInv, Typed, KnownInv
<1>1. Exists(s) /\ s \notin responses
    BY <1>0 DEF KnownInv, ClosureInv, ResponseInv, Typed, Exists
<1>2. /\ requests' = requests \ {s} /\ ready' = ready \ {s}
      /\ responses' \in {responses, responses \cup {s}}
      /\ UNCHANGED <<finished, state, ended, goaway, term, closed, out, events, batch, method,
                     over>>
      /\ pc' \in {pc, "done"} /\ (pc' # "done" => outcome' = outcome)
      /\ outcome' = outcome \/ outcome' \notin {"unavailable", "closed"}
    BY <1>0, <1>1 DEF Refusal, End
<1> HIDE DEF SendResponse
<1>3. Typed'
    BY <1>0, <1>2 DEF Typed
<1>4. \A i \in 1 .. Len(events') : FALSE
    BY <1>0, <1>2
<1>5. KnownInv'
    BY <1>0, <1>1, <1>2, <1>4 DEF KnownInv, Exists
<1>6. ResponseInv'
    BY <1>0, <1>1, <1>2, <1>4 DEF ResponseInv, Exists
<1>7. ClosureInv'
    BY <1>0, <1>2, <1>4 DEF ClosureInv
<1>8. RequestInv'
    BY <1>0, <1>2, <1>4 DEF RequestInv
<1>9. LoopInv'
    BY <1>0, <1>2 DEF LoopInv
<1>10. ClosedInv'
    BY <1>0, <1>2, <1>4 DEF ClosedInv
<1> QED BY <1>3, <1>5, <1>6, <1>7, <1>8, <1>9, <1>10

\* process_request_events() returns.
LEMMA ProcessedEventsKeeps == ASSUME IInv, ProcessedEvents PROVE IInv'
<1> USE DEF IInv, ProcessedEvents, End, lib, client, streamVars
<1>0. events = <<>> /\ Len(events) = 0 /\ pc \in {"sent", "received"}
    BY EmptySeq
<1>1. /\ UNCHANGED <<requests, finished, state, ended, responses, goaway, closed, out,
                     term, events, batch, method, over>>
      /\ ready' = {} /\ (pc' # "done" => ready = {} /\ ~closed)
      /\ pc' \in {"read", "send", "done"} /\ outcome' \in {outcome, "closed"}
      /\ outcome' = "closed" => closed
      /\ pc' # "done" => outcome' = outcome
    BY <1>0 DEF LoopInv, ClosedInv
<1>2. Typed' /\ KnownInv' /\ ResponseInv'
    BY <1>0, <1>1 DEF Typed, KnownInv, ResponseInv, Exists
<1>3. ClosureInv' /\ RequestInv'
    BY <1>0, <1>1 DEF ClosureInv, RequestInv
<1>4. LoopInv'
    BY <1>0, <1>1 DEF LoopInv
<1>5. ClosedInv'
    BY <1>0, <1>1 DEF ClosedInv, WantWrite
<1> QED BY <1>2, <1>3, <1>4, <1>5
-----------------------------------------------------------------------------
(* The client's frames.                                                     *)

\* A frame comes while the server reads and has nothing left to do.
LEMMA AtFrame ==
    ASSUME IInv, Frame
    PROVE  /\ pc = "read" /\ ready = {} /\ ~closed /\ ~finished /\ batch' \in Nat \ {0}
           /\ events \in Seq(Events) /\ Len(events) \in Nat
           /\ UNCHANGED <<pc, outcome, requests, ready, finished, closed>>
BY LenProperties DEF IInv, Typed, LoopInv, ClosedInv, Frame, locals

\* The parts of the invariant about the loop and ConnectionClosed.
LEMMA FrameKeepsLoop ==
    ASSUME IInv, Frame, events' \in Seq(Events),
           \A i \in 1 .. Len(events') : events'[i].kind = "ConnectionClosed" => i \in 1 .. Len(events)
                                                                /\ events'[i] = events[i]
    PROVE  LoopInv' /\ ClosedInv'
<1>1. /\ pc = "read" /\ ready = {} /\ ~closed /\ ~finished /\ batch' \in Nat \ {0}
      /\ UNCHANGED <<pc, outcome, requests, ready, finished, closed>>
    BY AtFrame
<1>2. LoopInv'
    BY <1>1 DEF IInv, LoopInv
<1>3. \A i \in 1 .. Len(events') : events'[i].kind # "ConnectionClosed"
    BY <1>1 DEF IInv, ClosedInv
<1>4. ClosedInv'
    BY <1>1, <1>3 DEF ClosedInv
<1> QED BY <1>2, <1>4

\* A frame of a request, or one that is ignored.
LEMMA RequestFrameKeeps ==
    ASSUME IInv, NEW s \in Streams, NEW kind \in RequestKinds, NEW end \in BOOLEAN,
           RequestFrame(s, kind, end), s \notin ended,
           kind # "RequestReceived" => end /\ method' = method,
           kind = "RequestReceived" =>
              /\ state[s] = "idle"
              /\ \E m \in {"GET", "HEAD", "CONNECT"} : method' = [method EXCEPT ![s] = m]
    PROVE  IInv'
<1> USE DEF IInv
<1> DEFINE e == [kind |-> kind, stream |-> s, end |-> end]
           n == Len(events)
<1>1. /\ pc = "read" /\ ready = {} /\ ~closed /\ ~finished /\ batch' \in Nat \ {0}
      /\ events \in Seq(Events) /\ n \in Nat
      /\ UNCHANGED <<pc, outcome, requests, ready, finished, closed>>
    BY AtFrame DEF RequestFrame
<1>2. /\ UNCHANGED <<responses, goaway, term, out>>
      /\ over' = IF end THEN over \cup {s} ELSE over
    BY DEF RequestFrame
<1>3. /\ method' \in [Streams -> {"none", "GET", "HEAD", "CONNECT"}]
      /\ \A t \in Streams : method'[t] = "none" => method[t] = "none" /\ (t = s => kind # "RequestReceived")
    BY DEF Typed
<1>4. CASE term = "none" /\ (kind = "RequestReceived" \/ state[s] = "open")
    <2>1. /\ state' = [state EXCEPT ![s] = "open"]
          /\ ended' = IF end THEN ended \cup {s} ELSE ended
          /\ events' = events \o <<e>>
        BY <1>4 DEF RequestFrame, Event
    <2>2. e \in Events /\ <<e>> \in Seq(Events) /\ Len(<<e>>) = 1 /\ <<e>>[1] = e
        BY DEF Events, RequestKinds
    <2>3. e.kind = kind /\ e.stream = s /\ e.end = end
        OBVIOUS
    <2> HIDE DEF e
    <2>4. /\ events' \in Seq(Events) /\ Len(events') = n + 1
          /\ \A i \in 1 .. n : events'[i] = events[i]
          /\ events'[n + 1] = e
        BY <1>1, <2>1, <2>2, EventsGrow
    <2> HIDE DEF n
    <2>5. \A t \in Streams, i \in 1 .. n :
             /\ i \in 1 .. Len(events')
             /\ Brings(events', t, i) <=> Brings(events, t, i)
             /\ Begins(events', t, i) <=> Begins(events, t, i)
             /\ Ends(events', t, i) <=> Ends(events, t, i)
             /\ Goes(events', t, i) <=> Goes(events, t, i)
        BY <1>1, <2>4 DEF Brings, Begins, Ends, Goes
    <2>6. \A t \in Streams :
             /\ Brings(events', t, n + 1) <=> t = s
             /\ Begins(events', t, n + 1) <=> t = s /\ kind = "RequestReceived"
             /\ Ends(events', t, n + 1) <=> t = s /\ end
             /\ ~Goes(events', t, n + 1)
        BY <2>3, <2>4 DEF Brings, Begins, Ends, Goes, RequestKinds
    <2>7. /\ \A i \in 1 .. Len(events') : i \in 1 .. n \/ i = n + 1
          /\ \A i \in 1 .. n : \A j \in i .. n : j \in i .. Len(events')
          /\ \A i \in 1 .. Len(events') : n + 1 \in i .. Len(events')
        BY <1>1, <2>4
    <2>8. /\ s \notin responses /\ s \notin ended /\ s \in Streams
          /\ state' \in [Streams -> {"idle", "open", "closing", "closed"}]
          /\ \A t \in Streams : state'[t] = IF t = s THEN "open" ELSE state[t]
        BY <1>4, <2>1 DEF Typed, KnownInv, ResponseInv
    <2>9. Typed'
        BY <1>1, <1>2, <1>3, <2>1, <2>4, <2>8 DEF Typed
    <2>10. KnownInv'
        <3> SUFFICES ASSUME NEW t \in Streams
                     PROVE  /\ method'[t] = "none" => state'[t] = "idle"
                            /\ state'[t] = "idle" =>
                                  /\ t \notin requests \cup ended' \cup responses
                                  /\ \A i \in 1 .. Len(events') : ~Brings(events', t, i)
                            /\ t \in ended' => t \in over'
                            /\ \A i \in 1 .. Len(events') :
                                  /\ Ends(events', t, i) => t \in ended'
                                  /\ Brings(events', t, i) /\ ~Begins(events', t, i) =>
                                        Ends(events', t, i)
            BY <1>1, <1>2 DEF KnownInv
        <3>1. method'[t] = "none" => state'[t] = "idle"
            BY <1>3, <1>4, <2>8 DEF KnownInv
        <3>2. state'[t] = "idle" => /\ t \notin requests \cup ended' \cup responses
                                    /\ \A i \in 1 .. Len(events') : ~Brings(events', t, i)
            BY <2>1, <2>5, <2>6, <2>7, <2>8 DEF KnownInv, n
        <3>3. t \in ended' => t \in over'
            BY <1>2, <2>1 DEF KnownInv
        <3>4. \A i \in 1 .. Len(events') :
                 /\ Ends(events', t, i) => t \in ended'
                 /\ Brings(events', t, i) /\ ~Begins(events', t, i) => Ends(events', t, i)
            BY <2>1, <2>5, <2>6, <2>7 DEF KnownInv, n
        <3> QED BY <3>1, <3>2, <3>3, <3>4
    <2>11. ResponseInv'
        <3> SUFFICES ASSUME NEW t \in responses
                     PROVE  /\ Exists(t)' /\ t \in ended' /\ t \notin requests
                            /\ \A i \in 1 .. Len(events') : ~Brings(events', t, i)
            BY <1>1, <1>2 DEF ResponseInv
        <3>1. t # s /\ t \in Streams
            BY <2>8 DEF Typed
        <3> QED BY <2>1, <2>5, <2>6, <2>7, <2>8, <3>1 DEF ResponseInv, Exists, n
    <2>12. ClosureInv'
        <3> SUFFICES ASSUME NEW t \in Streams
                     PROVE  /\ \A i \in 1 .. Len(events') :
                                   Goes(events', t, i) => state'[t] = "closed"
                            /\ state'[t] = "closed" =>
                                  /\ t \in requests => \E j \in 1 .. Len(events') : Goes(events', t, j)
                                  /\ \A i \in 1 .. Len(events') : Brings(events', t, i) =>
                                        \E j \in i .. Len(events') : Goes(events', t, j)
            BY <1>1 DEF ClosureInv
        <3>1. \A i \in 1 .. Len(events') : Goes(events', t, i) => state'[t] = "closed"
            BY <1>4, <2>5, <2>6, <2>7, <2>8 DEF ClosureInv, KnownInv, n
        <3>2. CASE t = s
            BY <2>8, <3>1, <3>2
        <3>3. CASE t # s
            BY <1>1, <2>5, <2>6, <2>7, <2>8, <3>1, <3>3 DEF ClosureInv, n
        <3> QED BY <3>2, <3>3
    <2>13. RequestInv'
        <3> SUFFICES ASSUME NEW t \in Streams
                     PROVE  /\ state'[t] = "open" /\ t \notin ended' =>
                                  t \in requests \/ \E i \in 1 .. Len(events') : Begins(events', t, i)
                            /\ t \in requests \cap ended' =>
                                  \E i \in 1 .. Len(events') : Ends(events', t, i)
                            /\ \A i \in 1 .. Len(events') : Begins(events', t, i) /\ t \in ended' =>
                                  \E j \in i .. Len(events') : Ends(events', t, j)
            BY <1>1 DEF RequestInv
        <3>1. CASE t = s /\ end
            BY <1>1, <2>1, <2>4, <2>6, <2>7, <3>1
        <3>2. CASE t = s /\ ~end
            BY <1>1, <2>1, <2>4, <2>6, <2>7, <2>8, <3>2
        <3>3. CASE t # s
            BY <1>1, <2>1, <2>5, <2>6, <2>7, <2>8, <3>3 DEF RequestInv, n
        <3> QED BY <3>1, <3>2, <3>3
    <2>14. LoopInv' /\ ClosedInv'
        BY <2>3, <2>4, <2>7, FrameKeepsLoop DEF RequestFrame, RequestKinds, n
    <2> QED BY <2>9, <2>10, <2>11, <2>12, <2>13, <2>14
<1>5. CASE ~(term = "none" /\ (kind = "RequestReceived" \/ state[s] = "open"))
    <2>1. UNCHANGED <<state, ended, events>>
        BY <1>5 DEF RequestFrame
    <2>2. Typed'
        BY <1>1, <1>2, <1>3, <2>1 DEF Typed
    <2>3. KnownInv'
        BY <1>1, <1>2, <1>3, <2>1 DEF KnownInv, Brings, Begins, Ends
    <2>4. ResponseInv' /\ ClosureInv' /\ RequestInv'
        BY <1>1, <1>2, <2>1 DEF ResponseInv, ClosureInv, RequestInv, Exists, Brings, Begins, Ends, Goes
    <2>5. LoopInv' /\ ClosedInv'
        BY <1>1, <2>1, FrameKeepsLoop DEF RequestFrame
    <2> QED BY <2>2, <2>3, <2>4, <2>5
<1> QED BY <1>4, <1>5

\* A stream is reset: it goes at once, or is about to.
LEMMA PeerCutKeeps ==
    ASSUME IInv, NEW s \in Streams, NEW kind \in {"RST_STREAM", "malformed"}, PeerCut(s, kind)
    PROVE  IInv'
<1> USE DEF IInv
<1> DEFINE n == Len(events)
<1>1. /\ pc = "read" /\ ready = {} /\ ~closed /\ ~finished /\ batch' \in Nat \ {0}
      /\ events \in Seq(Events) /\ n \in Nat
      /\ UNCHANGED <<pc, outcome, requests, ready, finished, closed>>
    BY AtFrame DEF PeerCut
<1>2. /\ UNCHANGED <<ended, goaway, term, out, method>> /\ over' = over \cup {s} /\ method[s] # "none"
      /\ \/ UNCHANGED <<state, responses, events>>
         \/ /\ state[s] = "open" /\ state' = [state EXCEPT ![s] = "closing"]
            /\ UNCHANGED <<responses, events>>
         \/ /\ state[s] = "open" /\ CloseStreams({s})
            /\ events' = events \o Event("StreamReset", s, TRUE) \o ClosedEvents({s})
    BY DEF PeerCut
<1>3. CASE UNCHANGED <<state, responses, events>>
    <2>1. Typed' /\ KnownInv'
        BY <1>1, <1>2, <1>3 DEF Typed, KnownInv, Brings, Begins, Ends
    <2>2. ResponseInv' /\ ClosureInv' /\ RequestInv'
        BY <1>1, <1>2, <1>3 DEF ResponseInv, ClosureInv, RequestInv, Exists, Brings, Begins, Ends, Goes
    <2>3. LoopInv' /\ ClosedInv'
        BY <1>1, <1>3, FrameKeepsLoop DEF PeerCut
    <2> QED BY <2>1, <2>2, <2>3
<1>4. CASE /\ state[s] = "open" /\ state' = [state EXCEPT ![s] = "closing"]
           /\ UNCHANGED <<responses, events>>
    <2>1. /\ state' \in [Streams -> {"idle", "open", "closing", "closed"}]
          /\ \A t \in Streams : state'[t] = IF t = s THEN "closing" ELSE state[t]
        BY <1>4 DEF Typed
    <2>2. Typed'
        BY <1>1, <1>2, <1>4, <2>1 DEF Typed
    <2>3. KnownInv'
        BY <1>1, <1>2, <1>4, <2>1 DEF KnownInv, Brings, Begins, Ends
    <2>4. ResponseInv'
        BY <1>1, <1>2, <1>4, <2>1 DEF ResponseInv, Typed, Exists, Brings
    <2>5. ClosureInv'
        BY <1>1, <1>4, <2>1 DEF ClosureInv, Brings, Goes
    <2>6. RequestInv'
        BY <1>1, <1>2, <1>4, <2>1 DEF RequestInv, Brings, Begins, Ends
    <2>7. LoopInv' /\ ClosedInv'
        BY <1>1, <1>4, FrameKeepsLoop DEF PeerCut
    <2> QED BY <2>2, <2>3, <2>4, <2>5, <2>6, <2>7
<1>5. CASE /\ state[s] = "open" /\ CloseStreams({s})
           /\ events' = events \o Event("StreamReset", s, TRUE) \o ClosedEvents({s})
    <2> DEFINE e == [kind |-> "StreamReset", stream |-> s, end |-> TRUE]
               es == ClosedEvents({s})
               mid == events \o <<e>>
    <2>1. /\ es \in Seq(Events) /\ Len(es) \in Nat
          /\ \A i \in 1 .. Len(es) : es[i].kind = "StreamClosed" /\ es[i].stream = s
        BY ClosuresTold
    <2>2. /\ e \in Events /\ <<e>> \in Seq(Events) /\ Len(<<e>>) = 1 /\ <<e>>[1] = e
          /\ e.kind = "StreamReset" /\ e.stream = s
        BY DEF Events
    <2>3. events' = mid \o es
        BY <1>5 DEF Event
    <2> HIDE DEF e, es
    <2>4. /\ mid \in Seq(Events) /\ Len(mid) = n + 1
          /\ \A i \in 1 .. n : mid[i] = events[i]
          /\ mid[n + 1] = e
        BY <1>1, <2>2, EventsGrow
    <2> HIDE DEF mid, n
    <2>5. /\ events' \in Seq(Events) /\ Len(events') = n + 1 + Len(es)
          /\ \A i \in 1 .. n + 1 : events'[i] = mid[i]
          /\ \A i \in 1 .. Len(es) : events'[n + 1 + i] = es[i]
        BY <2>1, <2>3, <2>4, EventsGrow
    <2>6. /\ \A i \in 1 .. n : i \in 1 .. Len(events') /\ events'[i] = events[i]
          /\ n + 1 \in 1 .. Len(events') /\ events'[n + 1].kind = "StreamReset"
          /\ events'[n + 1].stream = s
          /\ \A i \in 1 .. Len(events') : i \in 1 .. n \/
                /\ events'[i].kind \in {"StreamReset", "StreamClosed"} /\ events'[i].stream = s
        <3>1. /\ \A i \in 1 .. n : i \in 1 .. n + 1 /\ i \in 1 .. Len(events')
              /\ n + 1 \in 1 .. n + 1 /\ n + 1 \in 1 .. Len(events')
            BY <1>1, <2>1, <2>5
        <3>2. ASSUME NEW i \in 1 .. Len(events'), i \notin 1 .. n, i # n + 1
              PROVE  i - (n + 1) \in 1 .. Len(es) /\ n + 1 + (i - (n + 1)) = i
            BY <1>1, <2>1, <2>5, <3>2
        <3>3. ASSUME NEW i \in 1 .. Len(events'), i \notin 1 .. n, i # n + 1
              PROVE  events'[i].kind = "StreamClosed" /\ events'[i].stream = s
            BY <2>1, <2>5, <3>2, <3>3
        <3> QED BY <2>2, <2>4, <2>5, <3>1, <3>3
    <2>7. \A t \in Streams, i \in 1 .. n :
             /\ i \in 1 .. Len(events')
             /\ Brings(events', t, i) <=> Brings(events, t, i)
             /\ Begins(events', t, i) <=> Begins(events, t, i)
             /\ Ends(events', t, i) <=> Ends(events, t, i)
             /\ Goes(events', t, i) <=> Goes(events, t, i)
        BY <2>6 DEF Brings, Begins, Ends, Goes
    <2>8. \A t \in Streams, i \in 1 .. Len(events') :
             i \in 1 .. n \/ (~Brings(events', t, i) /\ ~Begins(events', t, i)
                              /\ ~Ends(events', t, i) /\ (Goes(events', t, i) => t = s))
        BY <2>6 DEF Brings, Begins, Ends, Goes, RequestKinds
    <2>9. /\ Goes(events', s, n + 1) /\ n + 1 \in 1 .. Len(events')
          /\ \A i \in 1 .. n : /\ n + 1 \in i .. Len(events')
                               /\ \A j \in i .. n : j \in 1 .. n /\ j \in i .. Len(events')
        BY <1>1, <2>1, <2>5, <2>6 DEF Goes
    <2>10. /\ state' \in [Streams -> {"idle", "open", "closing", "closed"}]
           /\ \A t \in Streams : state'[t] = IF t = s THEN "closed" ELSE state[t]
           /\ responses' = responses \ {s}
        BY <1>5 DEF Typed, CloseStreams
    <2>11. Typed'
        BY <1>1, <1>2, <2>5, <2>10 DEF Typed
    <2>12. KnownInv'
        BY <1>1, <1>2, <1>5, <2>7, <2>8, <2>10 DEF KnownInv, n
    <2>13. ResponseInv'
        <3> SUFFICES ASSUME NEW t \in responses, t # s
                     PROVE  /\ Exists(t)' /\ t \in ended /\ t \notin requests
                            /\ \A i \in 1 .. Len(events') : ~Brings(events', t, i)
            BY <1>1, <1>2, <2>10 DEF ResponseInv
        <3>1. t \in Streams
            BY DEF Typed
        <3> QED BY <2>7, <2>8, <2>10, <3>1 DEF ResponseInv, Exists, n
    <2>14. ClosureInv'
        <3> SUFFICES ASSUME NEW t \in Streams
                     PROVE  /\ \A i \in 1 .. Len(events') :
                                   Goes(events', t, i) => state'[t] = "closed"
                            /\ state'[t] = "closed" =>
                                  /\ t \in requests => \E j \in 1 .. Len(events') : Goes(events', t, j)
                                  /\ \A i \in 1 .. Len(events') : Brings(events', t, i) =>
                                        \E j \in i .. Len(events') : Goes(events', t, j)
            BY <1>1 DEF ClosureInv
        <3>1. \A i \in 1 .. Len(events') : Goes(events', t, i) => state'[t] = "closed"
            BY <2>7, <2>8, <2>10 DEF ClosureInv, n
        <3>2. CASE t = s
            BY <2>8, <2>9, <3>1, <3>2
        <3>3. CASE t # s
            BY <2>7, <2>8, <2>9, <2>10, <3>1, <3>3 DEF ClosureInv, n
        <3> QED BY <3>2, <3>3
    <2>15. RequestInv'
        <3> SUFFICES ASSUME NEW t \in Streams
                     PROVE  /\ state'[t] = "open" /\ t \notin ended =>
                                  t \in requests \/ \E i \in 1 .. Len(events') : Begins(events', t, i)
                            /\ t \in requests \cap ended =>
                                  \E i \in 1 .. Len(events') : Ends(events', t, i)
                            /\ \A i \in 1 .. Len(events') : Begins(events', t, i) /\ t \in ended =>
                                  \E j \in i .. Len(events') : Ends(events', t, j)
            BY <1>1, <1>2 DEF RequestInv
        <3>1. state'[t] = "open" /\ t \notin ended =>
                 t \in requests \/ \E i \in 1 .. Len(events') : Begins(events', t, i)
            BY <2>7, <2>10 DEF RequestInv, n
        <3>2. t \in requests \cap ended => \E i \in 1 .. Len(events') : Ends(events', t, i)
            BY <1>1, <2>7 DEF RequestInv, n
        <3>3. \A i \in 1 .. Len(events') : Begins(events', t, i) /\ t \in ended =>
                 \E j \in i .. Len(events') : Ends(events', t, j)
            BY <2>7, <2>8, <2>9 DEF RequestInv, n
        <3> QED BY <3>1, <3>2, <3>3
    <2>16. LoopInv' /\ ClosedInv'
        BY <2>5, <2>6, FrameKeepsLoop DEF PeerCut, n
    <2> QED BY <2>11, <2>12, <2>13, <2>14, <2>15, <2>16
<1> QED BY <1>2, <1>3, <1>4, <1>5

\* Frames that are of no stream.
LEMMA PeerOtherKeeps ==
    ASSUME IInv, PeerGrant \/ \E kind \in {"PING", "GOAWAY", "violation"} : PeerExtra(kind)
    PROVE  IInv'
<1> USE DEF IInv
<1>1. Frame /\ UNCHANGED <<state, ended, responses, events, method, over>>
    BY DEF PeerGrant, PeerExtra, streamVars
<1>2. goaway' \in BOOLEAN /\ out' \in BOOLEAN /\ term' \in {"none", "queued", "sent"}
    BY DEF PeerGrant, PeerExtra, Typed
<1>3. /\ pc = "read" /\ ready = {} /\ ~closed /\ ~finished /\ batch' \in Nat \ {0}
      /\ events \in Seq(Events)
      /\ UNCHANGED <<pc, outcome, requests, ready, finished, closed>>
    BY <1>1, AtFrame
<1>4. Typed' /\ KnownInv'
    BY <1>1, <1>2, <1>3 DEF Typed, KnownInv, Brings, Begins, Ends
<1>5. ResponseInv' /\ ClosureInv' /\ RequestInv'
    BY <1>1, <1>3 DEF ResponseInv, ClosureInv, RequestInv, Exists, Brings, Begins, Ends, Goes
<1>6. LoopInv' /\ ClosedInv'
    BY <1>1, <1>3, FrameKeepsLoop
<1> QED BY <1>4, <1>5, <1>6
-----------------------------------------------------------------------------
(* The theorems.                                                           *)

\* Every step of the server and of the client preserves the invariant.
THEOREM NextPreservesInv == IInv /\ [Next]_vars => IInv'
<1> SUFFICES ASSUME IInv, [Next]_vars PROVE IInv'
    OBVIOUS
<1>1. ASSUME NEW s \in Streams, NEW m \in {"GET", "HEAD", "CONNECT"}, NEW end \in BOOLEAN,
             PeerRequest(s, m, end)
      PROVE  IInv'
    <2>1. state[s] = "idle" /\ s \notin ended
        BY <1>1 DEF PeerRequest, IInv, KnownInv
    <2> QED BY <1>1, <2>1, RequestFrameKeeps DEF PeerRequest, RequestKinds
<1>2. ASSUME NEW s \in Streams, NEW kind \in {"DataReceived", "TrailersReceived"}, PeerEnd(s, kind)
      PROVE  IInv'
    <2>1. s \notin ended
        BY <1>2 DEF PeerEnd, IInv, KnownInv
    <2> QED BY <1>2, <2>1, RequestFrameKeeps DEF PeerEnd, RequestKinds
<1>3. CASE Serve
    BY <1>3, SendKeeps, TransportKeeps, ReceivedKeeps, ProcessEventKeeps, SendResponseKeeps,
       ProcessedEventsKeeps DEF Serve
<1>4. CASE ReadFails
    BY <1>4, TransportKeeps
<1>5. CASE Peer
    BY <1>1, <1>2, <1>5, PeerCutKeeps, PeerOtherKeeps, ServerDriverAssumption DEF Peer
<1>6. CASE UNCHANGED vars
    <2> USE <1>6 DEF vars, locals, streamVars, lib, client, IInv
    <2>1. Typed' /\ KnownInv' /\ ResponseInv'
        BY DEF Typed, KnownInv, ResponseInv, Exists, Brings, Begins, Ends
    <2>2. ClosureInv' /\ RequestInv'
        BY DEF ClosureInv, RequestInv, Brings, Begins, Ends, Goes
    <2>3. LoopInv' /\ ClosedInv'
        BY DEF LoopInv, ClosedInv, WantWrite, Exists
    <2> QED BY <2>1, <2>2, <2>3
<1> QED BY <1>3, <1>4, <1>5, <1>6 DEF Next

\* OrderlyEnd, for any streams and any batching of frames.
THEOREM Orderly == Spec => []OrderlyEnd
<1>1. Spec => []IInv
    BY InitInv, NextPreservesInv, PTL DEF Spec
<1>2. IInv => OrderlyEnd
    BY InvImplies
<1> QED BY <1>1, <1>2, PTL

\* RequestsLive, for any streams and any batching of frames.
THEOREM Live == Spec => []RequestsLive
<1>1. Spec => []IInv
    BY InitInv, NextPreservesInv, PTL DEF Spec
<1>2. IInv => RequestsLive
    BY InvImplies
<1> QED BY <1>1, <1>2, PTL
=============================================================================
