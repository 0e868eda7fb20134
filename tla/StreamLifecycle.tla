---------------------------- MODULE StreamLifecycle ----------------------------
(***************************************************************************)
(* The life of streams, from the call that queues their first frame to     *)
(* StreamClosed, when frames that a call accepted turn out later, in       *)
(* data_to_send(), not to be sendable.                                     *)
(*                                                                         *)
(* libnghttp2 is external: its queue of frames and the queue of requests   *)
(* that wait to be opened, the states of the streams, and its rules on     *)
(* what can be sent when a frame is prepared.  A frame that cannot is      *)
(* reported to _frame_not_sent; libnghttp2 then closes the stream a        *)
(* request or a promise was to open.                                       *)
(***************************************************************************)
EXTENDS Integers, Sequences, FiniteSets, SequencesExt

CONSTANTS
    Requests, \* request streams, opened by the client
    Pushes,   \* streams a server promises
    None,     \* no error, no parent
    MaxConcurrent \* the peer's limit on streams that are open at a time

Streams == Requests \cup Pushes

ASSUME StreamLifecycleAssumption ==
    /\ Requests \cap Pushes = {}
    /\ None \notin Streams
    /\ MaxConcurrent \in Nat \ {0}

VARIABLES
    \* The Connection object.
    server,    \* _server
    conn,      \* "active", "terminating" or "failed"
    errors,    \* _local_stream_errors: the frame that failed; None if absent
    responses, \* _responses
    \* The libnghttp2 session.
    state,     \* see States
    parent,    \* the request a push was promised on
    queue,     \* frames to be prepared, in order
    waiting,   \* requests to be opened, in order
    canceled,  \* those of them that were reset
    goaway,    \* the peer sent GOAWAY
    pushOff,   \* the peer disabled push
    \* History.
    sent,      \* the header frames of each stream that were sent
    failed,    \* the first frame of each stream that failed
    reported   \* local errors of the StreamClosed events of each stream

binding == <<server, conn, errors, responses>>
native == <<state, parent, queue, waiting, canceled, goaway, pushOff>>
history == <<sent, failed, reported>>
vars == <<binding, native, history>>

States == {"none", "waiting", "reserved", "open", "closing", "closed"}

\* nghttp2_session_find_stream finds a stream.
Live(s) == state[s] \in {"reserved", "open", "closing"}

Kinds == {"request", "interim", "response", "trailers", "promise", "reset"}

Frame(kind, s) == [kind |-> kind, stream |-> s]

\* A frame of this kind was submitted for s.
Submitted(kind, s) == kind \in sent[s] \/ Contains(queue, Frame(kind, s))

Init ==
    /\ server \in BOOLEAN
    /\ conn = "active"
    /\ errors = [s \in Streams |-> None]
    /\ responses = {}
    /\ state = [s \in Streams |-> "none"]
    /\ parent = [s \in Streams |-> None]
    /\ queue = <<>> /\ waiting = <<>> /\ canceled = {}
    /\ goaway = FALSE /\ pushOff = FALSE
    /\ sent = [s \in Streams |-> {}]
    /\ failed = [s \in Streams |-> None]
    /\ reported = [s \in Streams |-> <<>>]
-----------------------------------------------------------------------------
(* Application calls.                                                      *)

\* send_request(): no stream exists before its HEADERS are prepared.
SendRequest(s) ==
    /\ conn = "active" /\ ~server /\ ~goaway
    /\ state[s] = "none"
    /\ state' = [state EXCEPT ![s] = "waiting"]
    /\ waiting' = Append(waiting, s)
    /\ UNCHANGED <<binding, parent, queue, canceled, goaway, pushOff, history>>

\* Informational responses precede the final response.
MayInform(s) == Live(s) /\ s \notin responses

\* send_informational_response(), once for each stream here.
SendInformationalResponse(s) ==
    /\ conn = "active" /\ server
    /\ MayInform(s)
    /\ ~Submitted("interim", s)
    /\ queue' = Append(queue, Frame("interim", s))
    /\ UNCHANGED <<binding, state, parent, waiting, canceled, goaway, pushOff, history>>

\* send_response().
SendResponse(s) ==
    /\ conn = "active" /\ server
    /\ Live(s) /\ s \notin responses
    /\ queue' = Append(queue, Frame("response", s))
    /\ responses' = responses \cup {s}
    /\ UNCHANGED <<server, conn, errors, state, parent, waiting, canceled, goaway, pushOff,
                   history>>

\* Trailers, submitted by _read_body behind the body of a message whose headers
\* were sent.
SubmitTrailers(s) ==
    /\ conn = "active"
    /\ state[s] = "open"
    /\ IF server THEN "response" \in sent[s] ELSE "request" \in sent[s]
    /\ ~Submitted("trailers", s)
    /\ queue' = Append(queue, Frame("trailers", s))
    /\ UNCHANGED <<binding, state, parent, waiting, canceled, goaway, pushOff, history>>

\* send_push_promise(): the promised stream p is reserved at once.
SendPushPromise(s, p) ==
    /\ conn = "active" /\ server
    /\ Live(s) /\ state[p] = "none"
    /\ state' = [state EXCEPT ![p] = "reserved"]
    /\ parent' = [parent EXCEPT ![p] = s]
    /\ queue' = Append(queue, Frame("promise", p))
    /\ UNCHANGED <<binding, waiting, canceled, goaway, pushOff, history>>

\* nghttp2_submit_rst_stream, in terms of the states and the queue: a stream
\* that is closing is left alone.
SubmitReset(s) ==
    IF state[s] \in {"reserved", "open"}
    THEN /\ state' = [state EXCEPT ![s] = "closing"]
         /\ queue' = Append(queue, Frame("reset", s))
    ELSE UNCHANGED <<state, queue>>

\* reset_stream(): a request that waits is only marked.
ResetStream(s) ==
    /\ conn = "active"
    /\ IF state[s] = "waiting"
       THEN canceled' = canceled \cup {s} /\ UNCHANGED <<state, queue>>
       ELSE SubmitReset(s) /\ UNCHANGED canceled
    /\ UNCHANGED <<binding, parent, waiting, goaway, pushOff, history>>

\* _discard_pending_state.
DiscardPendingState ==
    /\ errors' = [s \in Streams |-> None]
    /\ responses' = {}

\* terminate_connection().
Terminate ==
    /\ conn = "active"
    /\ conn' = "terminating"
    /\ DiscardPendingState
    /\ UNCHANGED <<server, native, history>>

\* A call fails the connection.
Fail ==
    /\ conn # "failed"
    /\ conn' = "failed"
    /\ DiscardPendingState
    /\ UNCHANGED <<server, native, history>>
-----------------------------------------------------------------------------
(* Closing a stream.                                                       *)

\* _stream_closed, with errs in _local_stream_errors: it publishes the error.
StreamClosed(s, errs) ==
    /\ reported' = [reported EXCEPT ![s] = Append(@, errs[s])]
    /\ errors' = [errs EXCEPT ![s] = None]
    /\ responses' = responses \ {s}

\* libnghttp2 closes a stream: by RST_STREAM of the peer or END_STREAM of both
\* sides, behind which no frame of it is queued, or by GOAWAY.
PeerCloses(s) ==
    /\ conn = "active" /\ Live(s)
    /\ s \in Pushes => "promise" \in sent[s]
    /\ state' = [state EXCEPT ![s] = "closed"]
    /\ StreamClosed(s, errors)
    /\ UNCHANGED <<server, conn, parent, queue, waiting, canceled, goaway, pushOff, sent,
                   failed>>

PeerRequest(s) ==
    /\ conn = "active" /\ server
    /\ state[s] = "none"
    /\ state' = [state EXCEPT ![s] = "open"]
    /\ UNCHANGED <<binding, parent, queue, waiting, canceled, goaway, pushOff, history>>

\* GOAWAY of a server, SETTINGS of a client.
PeerForbids ==
    /\ conn = "active"
    /\ IF server THEN pushOff' = TRUE /\ UNCHANGED goaway
       ELSE goaway' = TRUE /\ UNCHANGED pushOff
    /\ UNCHANGED <<binding, state, parent, queue, waiting, canceled, history>>
-----------------------------------------------------------------------------
(* Preparing frames, in data_to_send().                                    *)

\* What becomes of frame f when it is prepared: "sent"; "dropped" with one of
\* the results STREAM_CLOSED, STREAM_CLOSING and SESSION_CLOSING; or "error"
\* with another.  Any header block may be too large.
Outcomes(f) ==
    LET target == IF f.kind = "promise" THEN parent[f.stream] ELSE f.stream
    IN  CASE f.kind = "request" ->
                IF f.stream \in canceled THEN {"dropped"}
                ELSE IF goaway \/ conn = "terminating" THEN {"error"}
                ELSE {"sent", "error"}
          [] f.kind # "request" /\ conn = "terminating" -> {"dropped"}
          [] f.kind = "reset" /\ conn = "active" -> {"sent"}
          [] OTHER ->
                IF state[target] \notin {"reserved", "open"} THEN {"dropped"}
                ELSE IF f.kind = "promise" /\ pushOff THEN {"error"}
                ELSE {"sent", "error"}

\* A frame that opens a stream: libnghttp2 closes the stream when it fails.
Opens(f) == f.kind \in {"request", "promise"}

\* Mutant: a failed promise is an error of the stream it was promised on.
ErrorStreamOfFrame(f) == IF f.kind = "promise" THEN parent[f.stream] ELSE f.stream

\* The stream that gets the error of f.
ErrorStream(f) == f.stream

\* _frame_not_sent records an error.
IsError(f, outcome) == outcome = "error" /\ f.kind # "reset"

\* Mutant: no stream is reset.
NeedsNoReset(f) == FALSE

\* Its stream has to be reset, since libnghttp2 leaves it as it is.
NeedsReset(f) == ~Opens(f)

\* _frame_not_sent, and what libnghttp2 does behind it.
NotSent(f, outcome) ==
    LET errs == IF IsError(f, outcome)
                THEN [errors EXCEPT ![ErrorStream(f)] = f.kind] ELSE errors
    IN  /\ failed' = IF outcome = "error" /\ failed[f.stream] = None
                     THEN [failed EXCEPT ![f.stream] = f.kind] ELSE failed
        /\ UNCHANGED sent
        /\ IF Opens(f)
           THEN /\ state' = [state EXCEPT ![f.stream] = "closed"]
                /\ StreamClosed(f.stream, errs)
                /\ queue' = IF f.kind = "promise" THEN Tail(queue) ELSE queue
           ELSE /\ errors' = errs
                /\ IF IsError(f, outcome) /\ NeedsReset(f) /\ state[f.stream] # "closing"
                   THEN /\ state' = [state EXCEPT ![f.stream] = "closing"]
                        /\ queue' = Append(Tail(queue), Frame("reset", f.stream))
                   ELSE queue' = Tail(queue) /\ UNCHANGED state
                /\ UNCHANGED <<responses, reported>>

\* The frame is sent; a reset closes its stream.
IsSent(f) ==
    /\ queue' = IF f.kind = "request" THEN queue ELSE Tail(queue)
    /\ UNCHANGED failed
    /\ IF f.kind = "reset"
       THEN /\ UNCHANGED sent
            /\ IF Live(f.stream)
               THEN /\ state' = [state EXCEPT ![f.stream] = "closed"]
                    /\ StreamClosed(f.stream, errors)
               ELSE UNCHANGED <<state, errors, responses, reported>>
       ELSE /\ sent' = [sent EXCEPT ![f.stream] = @ \cup {f.kind}]
            /\ state' = IF f.kind = "promise" THEN state
                        ELSE [state EXCEPT ![f.stream] = "open"]
            /\ UNCHANGED <<errors, responses, reported>>

Prepare(f) ==
    /\ conn # "failed"
    /\ \E outcome \in Outcomes(f) :
        IF outcome = "sent" THEN IsSent(f) ELSE NotSent(f, outcome)
    /\ UNCHANGED <<server, conn, parent, canceled, goaway, pushOff>>

PrepareFrame ==
    /\ queue # <<>>
    /\ Prepare(Head(queue))
    /\ UNCHANGED waiting

\* Requests are opened when nothing else is queued and the peer's limit allows.
PrepareRequest ==
    /\ queue = <<>> /\ waiting # <<>>
    /\ Cardinality({s \in Requests : Live(s)}) < MaxConcurrent
    /\ Prepare(Frame("request", Head(waiting)))
    /\ waiting' = Tail(waiting)

Next ==
    \/ \E s \in Requests : SendRequest(s) \/ PeerRequest(s)
    \/ \E s \in Requests, p \in Pushes : SendPushPromise(s, p)
    \/ \E s \in Streams :
        \/ SendInformationalResponse(s)
        \/ SendResponse(s)
        \/ SubmitTrailers(s)
        \/ ResetStream(s)
        \/ PeerCloses(s)
    \/ Terminate
    \/ Fail
    \/ PeerForbids
    \/ PrepareFrame
    \/ PrepareRequest

Spec == Init /\ [][Next]_vars

\* The caller drives output.
Fairness == WF_vars(PrepareFrame)

FairSpec == Spec /\ Fairness
-----------------------------------------------------------------------------
(* Properties.                                                             *)

\* Every variable stays within its type; a response is remembered only for a
\* stream that exists.
TypeOK ==
    /\ {server, goaway, pushOff} \subseteq BOOLEAN
    /\ conn \in {"active", "terminating", "failed"}
    /\ errors \in [Streams -> Kinds \cup {None}]
    /\ \A s \in responses : Live(s)
    /\ state \in [Streams -> States]
    /\ parent \in [Streams -> Requests \cup {None}]
    /\ queue \in Seq([kind : Kinds, stream : Streams])
    /\ waiting \in Seq(Requests) /\ canceled \subseteq Requests
    /\ sent \in [Streams -> SUBSET Kinds]
    /\ failed \in [Streams -> Kinds \cup {None}]
    /\ reported \in [Streams -> Seq(Kinds \cup {None})]

\* A stream is closed by one StreamClosed, whose local error is the first
\* failure of a frame of that stream, and of no other stream.  Until then the
\* error waits for a closure that is under way: the map holds nothing that is
\* never taken out, also after a termination.
FailureReported ==
    /\ TypeOK
    /\ \A s \in Streams :
        /\ conn = "active" =>
              reported[s] = IF state[s] = "closed" THEN <<failed[s]>> ELSE <<>>
        /\ errors[s] # None => conn = "active" /\ state[s] = "closing"

\* When a frame of a stream has failed no later one is sent: the peer never
\* sees a final response whose interim response was lost, trailers without a
\* response, or a push response without a promise.
NothingAfterFailure ==
    [][\A s \in Streams : failed[s] # None => sent'[s] = sent[s]]_vars

\* A failure ends its stream: the event that reports it comes if only output is
\* driven, whether or not the peer ever does anything.
FailureEnds ==
    \A s \in Streams : failed[s] # None ~> reported[s] # <<>> \/ conn # "active"
=============================================================================
