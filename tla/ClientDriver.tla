----------------------------- MODULE ClientDriver -----------------------------
(***************************************************************************)
(* The asyncio client of the examples: get() sends one request and then    *)
(* reads, receives, looks at events, writes and looks at events again,     *)
(* until the response is complete.  The module composes that loop with a   *)
(* Connection and with a server at the other end of the transport.         *)
(*                                                                         *)
(* The Connection is what Lifecycle and StreamLifecycle describe, seen     *)
(* from its events.  The server is any: it ends its response or resets it, *)
(* sends GOAWAY, breaks the protocol or closes the transport, and is held  *)
(* up by flow control.  Its frames matter when they are read: it acts      *)
(* while get() waits in read(), and one read returns any number of frames. *)
(***************************************************************************)
EXTENDS Integers, Sequences

CONSTANTS
    Window,   \* receive window: bytes the server may send without credit
    MaxBody,  \* bound: bytes of the response body
    MaxBatch  \* bound: frames returned by one read

ASSUME ClientDriverAssumption ==
    Window \in Nat \ {0} /\ MaxBody \in Nat /\ MaxBatch \in Nat \ {0}

VARIABLES
    \* get() and process_response_events().
    pc,        \* "start", "read", "received", "send", "drain", "sent" or "done"
    outcome,   \* how get() ended: "none" yet, "returned", or what was raised
    status,    \* status is not None
    body,      \* length of body
    complete,  \* complete in get()
    found,     \* complete in process_response_events()
    \* The Connection.
    stream,    \* "open"; "closing", with RST_STREAM queued; "closed"
    goaway,    \* _closing: a GOAWAY was sent or received
    term,      \* the final GOAWAY: "none", "queued" or "sent"
    closed,    \* ConnectionClosed was published
    out,       \* queued output
    used,      \* bytes received for which no credit was returned
    events,    \* the list events() returns
    \* The server.
    batch,     \* frames the read returns
    response,  \* its response: "none", "open", "ended" or "cut"
    sent,      \* bytes of the body
    credit,    \* bytes it may still send
    extras     \* frames it sent that are not of the response

locals == <<status, body, complete, found>>
lib == <<stream, goaway, term, closed, out, used, events>>
server == <<batch, response, sent, credit, extras>>
vars == <<pc, outcome, locals, lib, server>>

Init ==
    /\ pc = "start" /\ outcome = "none"
    /\ status = FALSE /\ body = 0 /\ complete = FALSE /\ found = FALSE
    /\ stream = "open" /\ goaway = FALSE /\ term = "none" /\ closed = FALSE
    /\ out = {"request"} /\ used = 0 /\ events = <<>>
    /\ batch = 0 /\ response = "none" /\ sent = 0 /\ credit = Window /\ extras = {}
-----------------------------------------------------------------------------
(* The Connection.                                                         *)

Event(kind, error) == <<[kind |-> kind, error |-> error]>>
Closed(error) == Event("StreamClosed", error)

\* nghttp2_session_want_read and nghttp2_session_want_write.
WantRead == term # "sent" /\ (stream # "closed" \/ ~goaway)
WantWrite == term = "queued" \/ (term = "none" /\ out # {})

\* _update_terminal_state, behind the events that new holds.
UpdateTerminalState(new) ==
    IF goaway' /\ ~closed /\ ~WantRead' /\ ~WantWrite'
    THEN closed' = TRUE /\ events' = events \o new \o Event("ConnectionClosed", FALSE)
    ELSE events' = events \o new /\ UNCHANGED closed
-----------------------------------------------------------------------------
(* get().                                                                  *)

End(how) == pc' = "done" /\ outcome' = how

\* The preface, SETTINGS and the request leave; there are no events yet.
Start ==
    /\ pc = "start"
    /\ pc' = "read"
    /\ out' = {}
    /\ UNCHANGED <<outcome, locals, stream, goaway, term, closed, used, events, server>>

\* read() returns frames and receive_data() ends.
Received ==
    /\ pc = "read" /\ batch > 0
    /\ pc' = "received"
    /\ batch' = 0 /\ found' = FALSE
    /\ UNCHANGED <<stream, goaway, term, out, used>>
    /\ UpdateTerminalState(<<>>)
    /\ UNCHANGED <<outcome, status, body, complete, response, sent, credit, extras>>

\* receive_data() raises, on input that cannot be handled at all; or the server
\* closed the transport and read() returns b"".
ReadFails ==
    /\ pc = "read"
    /\ End(IF batch > 0 THEN "fatal" ELSE "eof")
    /\ UNCHANGED <<locals, lib, server>>

\* Mutant: only the last output is written.
WritesLast == term # "none"

\* What data_to_send() returned is written, if it returned anything.
Writes == WantWrite

\* data_to_send() and write(): all that is queued, or the final GOAWAY in its
\* place.  Written credit reaches the server.
Send ==
    /\ pc = "send"
    /\ pc' = "drain"
    /\ out' = {}
    /\ term' = IF term = "queued" THEN "sent" ELSE term
    /\ goaway' = (goaway \/ term = "queued")
    /\ used' = IF "credit" \in out THEN 0 ELSE used
    /\ credit' = IF Writes /\ term = "none" /\ "credit" \in out THEN credit + used ELSE credit
    /\ LET reset == term = "none" /\ stream = "closing"
       IN  /\ stream' = IF reset THEN "closed" ELSE stream
           /\ UpdateTerminalState(IF reset THEN Closed(TRUE) ELSE <<>>)
    /\ UNCHANGED <<outcome, locals, batch, response, sent, extras>>

\* drain() returns, or raises on a transport that was lost.
Drained ==
    /\ pc = "drain"
    /\ \/ pc' = "sent" /\ found' = FALSE /\ UNCHANGED outcome
       \/ End("lost") /\ UNCHANGED found
    /\ UNCHANGED <<status, body, complete, lib, server>>

\* Mutant: the error of StreamClosed is not looked at.
ClosedAnyway(e) == FALSE

\* StreamClosed carries a local error or an error code.
ClosedFails(e) == e.error

\* What process_response_events() raises for event e.
Raised(e) ==
    CASE e.kind \in {"StreamReset", "refusal"} -> e.kind
      [] e.kind = "StreamClosed" /\ ClosedFails(e) -> "failed"
      [] e.kind = "ConnectionClosed" /\ ~found -> "closed"
      [] OTHER -> "none"

\* process_response_events(): one event.
ProcessEvent ==
    /\ pc \in {"received", "sent"} /\ events # <<>>
    /\ events' = Tail(events)
    /\ LET e == Head(events)
       IN  IF Raised(e) # "none"
           THEN End(Raised(e)) /\ UNCHANGED locals
           ELSE /\ status' = (status \/ e.kind = "ResponseReceived")
                /\ body' = IF e.kind = "DataReceived" THEN body + 1 ELSE body
                /\ found' = (found \/ e.kind = "StreamClosed")
                /\ UNCHANGED <<pc, outcome, complete>>
    /\ UNCHANGED <<stream, goaway, term, closed, out, used, server>>

\* process_response_events() returns; behind the second call the loop ends or
\* goes on.
ProcessedEvents ==
    /\ pc \in {"received", "sent"} /\ events = <<>>
    /\ complete' = IF pc = "received" THEN found ELSE complete \/ found
    /\ CASE pc = "received" -> pc' = "send" /\ UNCHANGED outcome
         [] pc = "sent" /\ ~complete' -> pc' = "read" /\ UNCHANGED outcome
         [] pc = "sent" /\ complete' -> End(IF status THEN "returned" ELSE "no headers")
    /\ UNCHANGED <<status, body, found, lib, server>>

Get == Start \/ Received \/ ReadFails \/ Send \/ Drained \/ ProcessEvent \/ ProcessedEvents
-----------------------------------------------------------------------------
(* The server, and what receive_data() makes of its frames.  The request    *)
(* has been sent to its end, so the end of the response closes the stream.  *)

\* A frame is sent and received.
Frame ==
    /\ pc = "read" /\ batch < MaxBatch
    /\ batch' = batch + 1
    /\ UNCHANGED <<pc, outcome, locals, closed>>

\* A frame of the response; nothing is processed behind a violation of the
\* protocol.  An end closes the stream.
ResponseFrame(new, end) ==
    /\ Frame
    /\ response' = IF end THEN "ended" ELSE "open"
    /\ IF term = "none"
       THEN /\ events' = events \o new \o (IF end THEN Closed(FALSE) ELSE <<>>)
            /\ stream' = IF end THEN "closed" ELSE stream
       ELSE UNCHANGED <<events, stream>>
    /\ UNCHANGED <<goaway, term, extras>>

PeerHeaders(end) ==
    /\ response = "none"
    /\ ResponseFrame(Event("ResponseReceived", FALSE), end)
    /\ UNCHANGED <<out, used, sent, credit>>

\* A byte of the body, which needs credit.  Half a window of bytes queues a
\* WINDOW_UPDATE.
PeerData(end) ==
    /\ response = "open"
    /\ sent < MaxBody /\ credit > 0
    /\ sent' = sent + 1 /\ credit' = credit - 1
    /\ ResponseFrame(Event("DataReceived", FALSE), end)
    /\ used' = used + 1
    /\ out' = IF term = "none" /\ used' >= Window \div 2 THEN out \cup {"credit"} ELSE out

\* Trailers or an empty DATA frame.
PeerEnd ==
    /\ response = "open"
    /\ ResponseFrame(<<>>, TRUE)
    /\ UNCHANGED <<out, used, sent, credit>>

\* RST_STREAM, or a message that is malformed and makes libnghttp2 reset the
\* stream; before the response also a GOAWAY that leaves the request out.
PeerCut(kind) ==
    /\ Frame
    /\ response \in (IF kind = "refusal" THEN {"none"} ELSE {"none", "open"})
    /\ response' = "cut"
    /\ IF term # "none"
       THEN UNCHANGED <<stream, goaway, out, events>>
       ELSE /\ goaway' = (goaway \/ kind = "refusal")
            /\ IF kind = "malformed"
               THEN stream' = "closing" /\ out' = out \cup {"reset"} /\ UNCHANGED events
               ELSE /\ stream' = "closed"
                    /\ events' = events \o Event(kind, TRUE) \o Closed(TRUE)
                    /\ UNCHANGED out
    /\ UNCHANGED <<term, used, sent, credit, extras>>

\* SETTINGS, which is acknowledged; GOAWAY; or a violation of the protocol.
PeerExtra(kind) ==
    /\ Frame
    /\ kind \notin extras
    /\ extras' = extras \cup {kind}
    /\ IF term # "none"
       THEN UNCHANGED <<goaway, term, out>>
       ELSE /\ out' = IF kind = "SETTINGS" THEN out \cup {"ack"} ELSE out
            /\ goaway' = (goaway \/ kind = "GOAWAY")
            /\ term' = IF kind = "violation" THEN "queued" ELSE term
    /\ UNCHANGED <<stream, used, events, response, sent, credit>>

Peer ==
    \/ \E end \in BOOLEAN : PeerHeaders(end) \/ PeerData(end)
    \/ PeerEnd
    \/ \E kind \in {"StreamReset", "malformed", "refusal"} : PeerCut(kind)
    \/ \E kind \in {"SETTINGS", "GOAWAY", "violation"} : PeerExtra(kind)

Next == Get \/ Peer

Spec == Init /\ [][Next]_vars

\* The coroutine is scheduled; the server goes on with its response as far as
\* credit lets it, to the last byte.  A server that waits may lose patience:
\* closing the transport (ReadFails) is no part of the fairness.
Fairness ==
    /\ WF_vars(Start \/ Received \/ Send \/ Drained \/ ProcessEvent \/ ProcessedEvents)
    /\ SF_vars(\E end \in BOOLEAN : PeerHeaders(end) \/ PeerData(end))
    /\ SF_vars(sent = MaxBody /\ PeerEnd)

FairSpec == Spec /\ Fairness
-----------------------------------------------------------------------------
(* Properties.                                                             *)

\* A response that is returned is the server's, whole: no reset, no closure of
\* stream, connection or transport passes for the end of the body.
ResponseIntact ==
    outcome = "returned" => response = "ended" /\ body = sent

\* get() always ends: it never waits for a server that waits for its credit,
\* and no closure leaves it reading for ever.
GetEnds == <>(pc = "done")

\* "The completed response above is still valid": once the stream was closed
\* without an error, the end of a connection whose server broke no rule does not
\* make get() raise.
CompletionKept == complete /\ "violation" \notin extras => outcome # "closed"
=============================================================================
