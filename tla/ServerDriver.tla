----------------------------- MODULE ServerDriver -----------------------------
(***************************************************************************)
(* The asyncio server of the examples: handle_connection() writes, looks   *)
(* at events, reads and looks at events again, and answers each request    *)
(* when it is complete.  The module composes that loop with a Connection   *)
(* and with a client at the other end of the transport.                    *)
(*                                                                         *)
(* The client is any: it sends its requests in pieces, resets or breaks    *)
(* them, sends GOAWAY, breaks the protocol, closes the transport, and      *)
(* grants the bodies of responses their credit late.  As in ClientDriver   *)
(* it acts while the server waits in read(), and one read returns any      *)
(* number of frames, also such as crossed the server's output on the way.  *)
(***************************************************************************)
EXTENDS Integers, Sequences, FiniteSets

CONSTANTS
    Streams,  \* the streams the client opens
    Methods,  \* the methods of its requests; GET stands for all not named
    MaxBatch  \* bound: frames returned by one read

ASSUME ServerDriverAssumption ==
    /\ IsFiniteSet(Streams)
    /\ Methods \subseteq {"GET", "HEAD", "CONNECT"}
    /\ MaxBatch \in Nat \ {0}

VARIABLES
    \* handle_connection() and process_request_events().
    pc,         \* "send", "drain", "sent", "read", "received" or "done"
    outcome,    \* how it ended: "none" yet, "closed", "eof", or what was raised
    requests,   \* keys of requests
    ready,      \* ready
    finished,   \* closed in process_request_events()
    \* The Connection.
    state,      \* state of each stream
    ended,      \* requests received to their end
    responses,  \* responses queued, and
    bodies,     \* those of them with a body
    goaway,     \* _closing: a GOAWAY was sent or received
    term,       \* the final GOAWAY: "none", "queued" or "sent"
    closed,     \* ConnectionClosed was published
    out,        \* other output is queued
    credit,     \* response bodies the client has room for
    events,     \* the list events() returns
    \* The client.
    batch,      \* frames the read returns
    method,     \* the method of each request sent, or "none"
    over,       \* streams whose request was ended, reset or broken
    cut,        \* those that were reset or broken
    granted,    \* credit granted
    extras      \* frames it sent that are of no stream

locals == <<requests, ready, finished>>
streamVars == <<state, ended, responses, bodies>>
lib == <<streamVars, goaway, term, closed, out, credit, events>>
client == <<batch, method, over, cut, granted, extras>>
vars == <<pc, outcome, locals, lib, client>>

Init ==
    /\ pc = "send" /\ outcome = "none"
    /\ requests = {} /\ ready = {} /\ finished = FALSE
    /\ state = [s \in Streams |-> "idle"]
    /\ ended = {} /\ responses = {} /\ bodies = {}
    /\ goaway = FALSE /\ term = "none" /\ closed = FALSE
    /\ out = TRUE /\ credit = 0 /\ events = <<>>
    /\ batch = 0 /\ method = [s \in Streams |-> "none"]
    /\ over = {} /\ cut = {} /\ granted = 0 /\ extras = {}
-----------------------------------------------------------------------------
(* The Connection.                                                         *)

Event(kind, s, end) == <<[kind |-> kind, stream |-> s, end |-> end]>>

\* The streams of S close; the order of their events does not matter.
ClosedEvents(S) ==
    LET order == CHOOSE f \in [1 .. Cardinality(S) -> S] : \A s \in S : \E i \in DOMAIN f : f[i] = s
    IN  [i \in 1 .. Cardinality(S) |-> [kind |-> "StreamClosed", stream |-> order[i]]]

CloseStreams(S) ==
    /\ state' = [s \in Streams |-> IF s \in S THEN "closed" ELSE state[s]]
    /\ responses' = responses \ S
    /\ bodies' = bodies \ S

Exists(s) == state[s] \in {"open", "closing"}

\* nghttp2_session_want_read and nghttp2_session_want_write, the latter as far
\* as frames of open streams do not matter.
WantRead == term # "sent" /\ ((\E s \in Streams : Exists(s)) \/ ~goaway)
WantWrite == term = "queued" \/ (term = "none" /\ out)

\* _update_terminal_state, behind the events that new holds.
UpdateTerminalState(new) ==
    IF goaway' /\ ~closed /\ ~WantRead' /\ ~WantWrite'
    THEN closed' = TRUE /\ events' = events \o new \o <<[kind |-> "ConnectionClosed"]>>
    ELSE events' = events \o new /\ UNCHANGED closed

\* The responses a call sends to their end: those without a body, and bodies as
\* far as the client has room.
Sendable ==
    LET open == {s \in responses : state[s] = "open"}
    IN  {S \in SUBSET open :
            /\ open \ bodies \subseteq S
            /\ \/ Cardinality(S \cap bodies) = credit
               \/ Cardinality(S \cap bodies) < credit /\ S = open}
-----------------------------------------------------------------------------
(* handle_connection().                                                    *)

End(how) == pc' = "done" /\ outcome' = how

\* data_to_send() and write(): queued resets and responses, which close their
\* streams, or the final GOAWAY in their place.
Send ==
    /\ pc = "send"
    /\ pc' = "drain"
    /\ out' = FALSE
    /\ IF term = "none"
       THEN \E S \in Sendable :
              LET gone == S \cup {s \in Streams : state[s] = "closing"}
              IN  /\ credit' = credit - Cardinality(S \cap bodies)
                  /\ UNCHANGED <<ended, goaway, term>>
                  /\ CloseStreams(gone)
                  /\ UpdateTerminalState(ClosedEvents(gone))
       ELSE /\ term' = "sent" /\ goaway' = TRUE
            /\ UNCHANGED <<streamVars, credit>>
            /\ UpdateTerminalState(<<>>)
    /\ UNCHANGED <<outcome, locals, client>>

\* drain() returns, or raises on a transport that was lost.
Drained ==
    /\ pc = "drain"
    /\ (pc' = "sent" /\ UNCHANGED outcome) \/ End("lost")
    /\ UNCHANGED <<locals, lib, client>>

\* read() returns frames and receive_data() ends.
Received ==
    /\ pc = "read" /\ batch > 0
    /\ pc' = "received"
    /\ batch' = 0
    /\ UNCHANGED <<streamVars, goaway, term, out, credit>>
    /\ UpdateTerminalState(<<>>)
    /\ UNCHANGED <<outcome, locals, method, over, cut, granted, extras>>

\* receive_data() raises, on input that cannot be handled at all; or the client
\* closed the transport and read() returns b"".
ReadFails ==
    /\ pc = "read"
    /\ End(IF batch > 0 THEN "fatal" ELSE "eof")
    /\ UNCHANGED <<locals, lib, client>>
-----------------------------------------------------------------------------
(* process_request_events().                                               *)

\* Mutant: trailers do not end a request.
DataEnds(e) == e.kind = "DataReceived" /\ e.end

\* The event ends the body of a request.
EndsBody(e) == e.kind = "TrailersReceived" \/ (e.kind = "DataReceived" /\ e.end)

\* Mutant: resets and closures are only logged.
ForgetNothing(s) == UNCHANGED <<requests, ready>>

\* Mutant: the request of a stream that is gone is kept.
ForgetReady(s) == ready' = ready \ {s} /\ UNCHANGED requests

\* requests.pop(), ready.discard().
Forget(s) == requests' = requests \ {s} /\ ready' = ready \ {s}

\* One event.
ProcessEvent ==
    /\ pc \in {"sent", "received"} /\ events # <<>>
    /\ events' = Tail(events)
    /\ LET e == Head(events)
       IN  /\ finished' = (e.kind = "ConnectionClosed")
           /\ CASE e.kind = "RequestReceived" ->
                    /\ requests' = requests \cup {e.stream}
                    /\ ready' = IF e.end THEN ready \cup {e.stream} ELSE ready
                [] EndsBody(e) ->
                    /\ ready' = ready \cup ({e.stream} \cap requests)
                    /\ UNCHANGED requests
                [] e.kind \in {"StreamReset", "StreamClosed"} -> Forget(e.stream)
                [] OTHER -> UNCHANGED <<requests, ready>>
    /\ UNCHANGED <<pc, outcome, streamVars, goaway, term, closed, out, credit, client>>

\* send_response() looks up the path, which a CONNECT request has not; and the
\* Connection refuses a stream that is gone or has its response.
Refusal(s) ==
    CASE method[s] = "CONNECT" -> "no path"
      [] method[s] # "CONNECT" /\ (~Exists(s) \/ s \in responses) -> "unavailable"
      [] OTHER -> "none"

\* One ready request: send_response(), with the whole body unless for HEAD.  A
\* request that was forgotten is skipped.
SendResponse(s) ==
    /\ pc \in {"sent", "received"} /\ events = <<>> /\ ~finished
    /\ s \in ready
    /\ ready' = ready \ {s}
    /\ requests' = requests \ {s}
    /\ IF s \in requests /\ Refusal(s) = "none"
       THEN /\ responses' = responses \cup {s}
            /\ bodies' = IF method[s] = "HEAD" THEN bodies ELSE bodies \cup {s}
       ELSE UNCHANGED <<responses, bodies>>
    /\ IF s \in requests /\ Refusal(s) # "none"
       THEN End(Refusal(s))
       ELSE UNCHANGED <<pc, outcome>>
    /\ UNCHANGED <<finished, state, ended, goaway, term, closed, out, credit, events, client>>

\* process_request_events() returns.
ProcessedEvents ==
    /\ pc \in {"sent", "received"} /\ events = <<>>
    /\ finished \/ ready = {}
    /\ IF finished
       THEN End("closed")
       ELSE pc' = (IF pc = "sent" THEN "read" ELSE "send") /\ UNCHANGED outcome
    /\ ready' = {}
    /\ UNCHANGED <<requests, finished, lib, client>>

Serve ==
    \/ Send
    \/ Drained
    \/ Received
    \/ ProcessEvent
    \/ \E s \in Streams : SendResponse(s)
    \/ ProcessedEvents
-----------------------------------------------------------------------------
(* The client, and what receive_data() makes of its frames.  Nothing is     *)
(* processed behind a violation of the protocol, nor for a stream that is   *)
(* closing or closed.                                                       *)

\* A frame is sent and received.
Frame ==
    /\ pc = "read" /\ batch < MaxBatch
    /\ batch' = batch + 1
    /\ UNCHANGED <<pc, outcome, locals, closed>>

\* A frame that belongs to the request on s: its event, and its end.
RequestFrame(s, kind, end) ==
    /\ Frame
    /\ over' = IF end THEN over \cup {s} ELSE over
    /\ IF term = "none" /\ (kind = "RequestReceived" \/ state[s] = "open")
       THEN /\ state' = [state EXCEPT ![s] = "open"]
            /\ ended' = IF end THEN ended \cup {s} ELSE ended
            /\ events' = events \o Event(kind, s, end)
       ELSE UNCHANGED <<state, ended, events>>
    /\ UNCHANGED <<responses, bodies, goaway, term, out, credit, cut, granted, extras>>

PeerRequest(s, m, end) ==
    /\ method[s] = "none"
    /\ method' = [method EXCEPT ![s] = m]
    /\ RequestFrame(s, "RequestReceived", end)

\* The end of a request: DATA with END_STREAM, or trailers.
PeerEnd(s, kind) ==
    /\ method[s] # "none" /\ s \notin over
    /\ RequestFrame(s, kind, TRUE)
    /\ UNCHANGED method

\* RST_STREAM, or what makes libnghttp2 reset the stream, at any time.
PeerCut(s, kind) ==
    /\ method[s] # "none" /\ s \notin cut
    /\ over' = over \cup {s} /\ cut' = cut \cup {s}
    /\ Frame
    /\ CASE term # "none" \/ state[s] # "open" -> UNCHANGED <<state, responses, bodies, events>>
         [] term = "none" /\ state[s] = "open" /\ kind = "malformed" ->
                /\ state' = [state EXCEPT ![s] = "closing"]
                /\ UNCHANGED <<responses, bodies, events>>
         [] term = "none" /\ state[s] = "open" /\ kind = "RST_STREAM" ->
                /\ CloseStreams({s})
                /\ events' = events \o Event("StreamReset", s, TRUE) \o ClosedEvents({s})
    /\ UNCHANGED <<ended, goaway, term, out, credit, method, granted, extras>>

\* WINDOW_UPDATE: room for the body of another response.
PeerGrant ==
    /\ Frame
    /\ granted < Cardinality(Streams)
    /\ granted' = granted + 1
    /\ credit' = IF term = "none" THEN credit + 1 ELSE credit
    /\ UNCHANGED <<streamVars, goaway, term, out, events, method, over, cut, extras>>

\* PING, which is acknowledged; GOAWAY; or a violation of the protocol.
PeerExtra(kind) ==
    /\ Frame
    /\ kind \notin extras
    /\ extras' = extras \cup {kind}
    /\ IF term = "none"
       THEN /\ out' = (out \/ kind = "PING")
            /\ goaway' = (goaway \/ kind = "GOAWAY")
            /\ term' = IF kind = "violation" THEN "queued" ELSE term
       ELSE UNCHANGED <<out, goaway, term>>
    /\ UNCHANGED <<streamVars, credit, events, method, over, cut, granted>>

Peer ==
    \/ \E s \in Streams :
        \/ \E m \in Methods, end \in BOOLEAN : PeerRequest(s, m, end)
        \/ \E kind \in {"DataReceived", "TrailersReceived"} : PeerEnd(s, kind)
        \/ \E kind \in {"RST_STREAM", "malformed"} : PeerCut(s, kind)
    \/ PeerGrant
    \/ \E kind \in {"PING", "GOAWAY", "violation"} : PeerExtra(kind)

Next == Serve \/ ReadFails \/ Peer

Spec == Init /\ [][Next]_vars

\* The coroutine is scheduled, and the client grants its responses credit, which
\* arrives only while the server reads.
FairSpec == Spec /\ WF_vars(Serve) /\ SF_vars(PeerGrant)
-----------------------------------------------------------------------------
(* Properties.                                                             *)

\* However the frames of streams are batched, no response is given to a stream
\* that was reset, closed or answered (such a response would raise and end all
\* streams of the connection).  And the transport is closed on ConnectionClosed
\* only behind the last output.
OrderlyEnd ==
    /\ outcome # "unavailable"
    /\ outcome = "closed" => ~WantWrite /\ (term = "none" => responses = {})

\* A request is kept exactly while its stream is there and the request is not
\* complete: none stays behind a closure, none is lost.
RequestsLive ==
    pc \in {"send", "read"} /\ batch = 0 =>
        \A s \in Streams :
            /\ s \in requests => Exists(s) /\ s \notin ended
            /\ state[s] = "open" /\ s \notin ended => s \in requests

\* The response to a request is sent to its end, or the stream was reset, or the
\* client or the transport ended the connection first.
Answered(s) == state[s] = "closed" \/ term = "sent" \/ outcome \in {"eof", "lost", "fatal"}

\* A request that was received to its end is answered to its end, whatever its
\* method (docs/site/guides/server.md: "returns `405` for unsupported methods").
\* send_response() breaks it for CONNECT.
RequestAnswered == \A s \in Streams : s \in ended ~> Answered(s)

\* As long as no request of the connection has the method CONNECT, none of those
\* received to their end is left without its answer, whatever ended them and in
\* whatever batch (process_request_events).
SupportedAnswered ==
    \A s \in Streams : s \in ended ~> Answered(s) \/ \E t \in Streams : method[t] = "CONNECT"
=============================================================================
