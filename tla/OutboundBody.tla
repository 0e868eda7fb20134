----------------------------- MODULE OutboundBody -----------------------------
(***************************************************************************)
(* The sending side of a Connection: message bodies on their way from      *)
(* send_data() through data_to_send() to the peer.                         *)
(*                                                                         *)
(* An application call is one step.  A data_to_send() call is a series of  *)
(* steps, one per turn of libnghttp2's send loop, between BeginDrive and   *)
(* EndDrive; application calls and peer input happen only between drives,  *)
(* because a connection is driven from one thread.  What a drive with an   *)
(* output limit leaves half written is finished by a later one.            *)
(*                                                                         *)
(* A body queue is two counters here, the bytes accepted and the bytes     *)
(* taken; BodyQueue shows that the chunk lists behave like them.  What     *)
(* libnghttp2 does (stream states, frame order, windows) is external and   *)
(* modelled from the calls, callbacks and comments of _core.pyx.           *)
(***************************************************************************)
EXTENDS Integers, FiniteSets

CONSTANTS
    Streams,      \* locally initiated (client) or peer initiated (server) streams
    Server,       \* the role: TRUE for a server
    NoFrame,      \* no frame is being written
    Limits,       \* amounts given to data_to_send(); Unlimited for None
    FrameHeader,  \* octets of a frame header (9 on the wire)
    ControlSize,  \* octets of a frame other than DATA
    MaxFrame,     \* largest DATA payload
    WindowSize,   \* bound: largest flow-control window the peer advertises
    MaxBytes      \* bound: bytes the application offers to one stream

Unlimited == -1

ASSUME OutboundBodyAssumption ==
    /\ Server \in BOOLEAN
    /\ Limits \subseteq {Unlimited} \cup (Nat \ {0})
    /\ {FrameHeader, ControlSize, MaxFrame, WindowSize} \subseteq Nat \ {0}
    /\ MaxBytes \in Nat

VARIABLES
    \* The Connection object.
    conn,           \* "active", "terminating" or "failed"
    bodies,         \* keys of _bodies
    ended,          \* body.ended
    deferred,       \* body.deferred
    trailers,       \* body.trailers is not None
    responses,      \* _responses
    deferredResets, \* keys of _deferred_resets
    driving,        \* a data_to_send() call is running
    limit,          \* its limit
    room,           \* _output_remaining
    outSize,        \* _output_size
    \* The libnghttp2 session.
    state,          \* state of each stream
    item,           \* the DATA item of each stream
    control,        \* queued frames other than DATA
    shutRd, shutWr, \* streams with the remote, the local direction closed
    window,         \* remote window of each stream
    connWindow,     \* remote window of the connection
    aob,            \* the frame being written
    \* History.
    accepted,       \* body bytes send_data() accepted
    taken,          \* body bytes handed to DATA frames
    eof,            \* streams whose last DATA frame was produced
    opened          \* streams that were given a body

bodyVars == <<bodies, ended, deferred, trailers, responses, deferredResets>>
outputVars == <<driving, limit, room, outSize>>
nativeVars == <<state, item, control, shutRd, shutWr, window, connWindow, aob>>
history == <<accepted, taken, eof, opened>>
vars == <<conn, bodyVars, outputVars, nativeVars, history>>

Control == [kind : {"HEADERS", "TRAILERS", "RST"}, stream : Streams, end : BOOLEAN]
Frame == [kind : {"HEADERS", "TRAILERS", "RST", "DATA"}, stream : Streams,
          end : BOOLEAN, length : Nat, left : Nat]

ASSUME NoFrameAssumption == NoFrame \notin Frame

Least(a, b) == IF a <= b THEN a ELSE b
Queued(s) == accepted[s] - taken[s]
Exists(s) == state[s] \in {"open", "closing"}
Headers(s, end) == [kind |-> "HEADERS", stream |-> s, end |-> end]
Trailers(s) == [kind |-> "TRAILERS", stream |-> s, end |-> TRUE]
Rst(s) == [kind |-> "RST", stream |-> s, end |-> FALSE]

Init ==
    /\ conn = "active"
    /\ bodies = {} /\ responses = {} /\ deferredResets = {}
    /\ ended = [s \in Streams |-> FALSE]
    /\ deferred = [s \in Streams |-> FALSE]
    /\ trailers = [s \in Streams |-> FALSE]
    /\ driving = FALSE
    /\ limit = 0 /\ room = 0 /\ outSize = 0
    /\ state = [s \in Streams |-> "idle"]
    /\ item = [s \in Streams |-> "none"]
    /\ control = {} /\ shutRd = {} /\ shutWr = {}
    /\ window = [s \in Streams |-> WindowSize]
    /\ connWindow = WindowSize
    /\ aob = NoFrame
    /\ accepted = [s \in Streams |-> 0]
    /\ taken = [s \in Streams |-> 0]
    /\ eof = {} /\ opened = {}
-----------------------------------------------------------------------------
(* Effects shared by several operations.                                   *)

\* Mutant: the waiting reset of a closed stream is not popped.
CloseKeepsReset(S) ==
    /\ state' = [s \in Streams |-> IF s \in S THEN "closed" ELSE state[s]]
    /\ item' = [s \in Streams |-> IF s \in S THEN "none" ELSE item[s]]
    /\ bodies' = bodies \ S
    /\ responses' = responses \ S
    /\ UNCHANGED deferredResets

\* _stream_closed for the streams of S: nothing is kept for a closed stream.
Close(S) ==
    /\ state' = [s \in Streams |-> IF s \in S THEN "closed" ELSE state[s]]
    /\ item' = [s \in Streams |-> IF s \in S THEN "none" ELSE item[s]]
    /\ bodies' = bodies \ S
    /\ responses' = responses \ S
    /\ deferredResets' = deferredResets \ S

\* nghttp2_submit_rst_stream: an open stream stops sending at once, a request
\* still in the queue is cancelled, a stream already being reset stays so.
SubmitRst(s) ==
    /\ state' = [state EXCEPT ![s] = CASE @ = "open" -> "closing"
                                       [] @ = "opening" -> "cancelled"
                                       [] OTHER -> @]
    /\ control' = IF state[s] \in {"open", "closed"} THEN control \cup {Rst(s)} ELSE control

\* Mutant: the stream is woken and its flag stays set.
ResumeKeepsFlag(s, wake) ==
    /\ item' = IF deferred[s] /\ wake /\ item[s] = "deferred"
               THEN [item EXCEPT ![s] = "ready"] ELSE item
    /\ UNCHANGED deferred

\* Wake a deferred stream (nghttp2_session_resume_data).  The call fails when
\* the engine has no deferred item; the flag is then left set.
Resume(s, wake) ==
    IF deferred[s] /\ wake /\ item[s] = "deferred"
    THEN /\ item' = [item EXCEPT ![s] = "ready"]
         /\ deferred' = [deferred EXCEPT ![s] = FALSE]
    ELSE UNCHANGED <<item, deferred>>

\* _discard_pending_state.
DiscardPendingState ==
    /\ bodies' = {}
    /\ responses' = {}
    /\ deferredResets' = {}
-----------------------------------------------------------------------------
(* Application calls.                                                      *)

\* _require_active, between drives.
Active == conn = "active" /\ ~driving

NewBody(s) ==
    /\ bodies' = bodies \cup {s}
    /\ ended' = [ended EXCEPT ![s] = FALSE]
    /\ deferred' = [deferred EXCEPT ![s] = FALSE]
    /\ trailers' = [trailers EXCEPT ![s] = FALSE]
    /\ opened' = opened \cup {s}

NoBody == UNCHANGED <<bodies, ended, deferred, trailers, opened>>

\* send_request(end_stream=end): the stream opens when its HEADERS are sent.
SendRequest(s, end) ==
    /\ Active /\ ~Server
    /\ state[s] = "idle"
    /\ state' = [state EXCEPT ![s] = "opening"]
    /\ control' = control \cup {Headers(s, end)}
    /\ IF end THEN NoBody ELSE NewBody(s)
    /\ UNCHANGED <<conn, responses, deferredResets, outputVars, item, shutRd, shutWr,
                   window, connWindow, aob, accepted, taken, eof>>

\* send_response(end_stream=end), once per stream.
SendResponse(s, end) ==
    /\ Active /\ Server
    /\ Exists(s)
    /\ s \notin responses
    /\ responses' = responses \cup {s}
    /\ control' = control \cup {Headers(s, end)}
    /\ IF end THEN NoBody ELSE NewBody(s)
    /\ UNCHANGED <<conn, deferredResets, outputVars, state, item, shutRd, shutWr,
                   window, connWindow, aob, accepted, taken, eof>>

\* Mutant: only bytes wake a deferred stream.
WakesForBytes(n, last) == n > 0

\* An empty call changes nothing the engine waits for.
Wakes(n, last) == n > 0 \/ last

\* send_data(n bytes, end_stream=last); end_stream() is SendData(s, 0, TRUE).
SendData(s, n, last) ==
    /\ Active
    /\ s \in bodies /\ ~ended[s]
    /\ accepted' = [accepted EXCEPT ![s] = @ + n]
    /\ ended' = [ended EXCEPT ![s] = last]
    /\ Resume(s, Wakes(n, last))
    /\ UNCHANGED <<conn, bodies, trailers, responses, deferredResets, outputVars, state,
                   control, shutRd, shutWr, window, connWindow, aob, taken, eof, opened>>

SendTrailers(s) ==
    /\ Active
    /\ s \in bodies /\ ~ended[s]
    /\ trailers' = [trailers EXCEPT ![s] = TRUE]
    /\ ended' = [ended EXCEPT ![s] = TRUE]
    /\ Resume(s, TRUE)
    /\ UNCHANGED <<conn, bodies, responses, deferredResets, outputVars, state, control,
                   shutRd, shutWr, window, connWindow, aob, history>>

\* reset_stream() without after_end_stream.
ResetStream(s) ==
    /\ Active
    /\ state[s] # "idle"
    /\ SubmitRst(s)
    /\ UNCHANGED <<conn, bodyVars, outputVars, item, shutRd, shutWr, window, connWindow,
                   aob, history>>

\* Mutant: a server stream without a body counts as ended.
EndedWithoutBody(s) == s \in bodies => ended[s]

\* The local direction of s is ended, though its end may still be queued.
LocallyEnded(s) ==
    IF s \in bodies THEN ended[s] ELSE ~Server \/ s \in responses

\* reset_stream(after_end_stream=True): at once when END_STREAM was sent, else
\* remembered for _frame_sent.
ResetAfterEnd(s) ==
    /\ Active
    /\ Exists(s)
    /\ IF s \in shutWr
       THEN SubmitRst(s) /\ UNCHANGED deferredResets
       ELSE /\ LocallyEnded(s)
            /\ deferredResets' = deferredResets \cup {s}
            /\ UNCHANGED <<state, control>>
    /\ UNCHANGED <<conn, bodies, ended, deferred, trailers, responses, outputVars, item,
                   shutRd, shutWr, window, connWindow, aob, history>>

\* terminate_connection(): queued frames are discarded.
Terminate ==
    /\ Active
    /\ conn' = "terminating"
    /\ DiscardPendingState
    /\ UNCHANGED <<ended, deferred, trailers, outputVars, nativeVars, history>>
-----------------------------------------------------------------------------
(* Peer input, processed by receive_data().                                *)

\* The peer knows the stream: a client's request HEADERS have left.
Known(s) ==
    /\ Exists(s)
    /\ aob # NoFrame => ~(~Server /\ aob.kind = "HEADERS" /\ aob.stream = s)

\* A request opens a stream of a server, perhaps without a body.
PeerRequest(s, end) ==
    /\ Active /\ Server
    /\ state[s] = "idle"
    /\ state' = [state EXCEPT ![s] = "open"]
    /\ shutRd' = IF end THEN shutRd \cup {s} ELSE shutRd
    /\ UNCHANGED <<conn, bodyVars, outputVars, item, control, shutWr, window, connWindow,
                   aob, history>>

\* END_STREAM from the peer closes a stream whose local direction is closed.
PeerEnd(s) ==
    /\ Active
    /\ state[s] = "open" /\ Known(s)
    /\ s \notin shutRd
    /\ shutRd' = shutRd \cup {s}
    /\ Close(IF s \in shutWr THEN {s} ELSE {})
    /\ UNCHANGED <<conn, ended, deferred, trailers, outputVars, control, shutWr, window,
                   connWindow, aob, history>>

PeerReset(s) ==
    /\ Active
    /\ Known(s)
    /\ Close({s})
    /\ UNCHANGED <<conn, ended, deferred, trailers, outputVars, control, shutRd, shutWr,
                   window, connWindow, aob, history>>

\* WINDOW_UPDATE for a stream or for the connection.
PeerGrant(s) ==
    /\ Active
    /\ Known(s)
    /\ \E size \in window[s] + 1 .. WindowSize : window' = [window EXCEPT ![s] = size]
    /\ UNCHANGED <<conn, bodyVars, outputVars, state, item, control, shutRd, shutWr,
                   connWindow, aob, history>>

PeerGrantConnection ==
    /\ Active
    /\ connWindow' \in connWindow + 1 .. WindowSize
    /\ UNCHANGED <<conn, bodyVars, outputVars, state, item, control, shutRd, shutWr,
                   window, aob, history>>
-----------------------------------------------------------------------------
(* One data_to_send() call.                                                *)

BeginDrive(amount) ==
    /\ conn # "failed" /\ ~driving
    /\ driving' = TRUE
    /\ limit' = amount
    /\ room' = amount
    /\ outSize' = 0
    /\ UNCHANGED <<conn, bodyVars, nativeVars, history>>

\* Output accepted by _collect_output or _send_body.
Emit(n) ==
    /\ outSize' = outSize + n
    /\ room' = IF room = Unlimited THEN room ELSE room - n

\* libnghttp2 does not send a frame whose stream is gone, going or cancelled.
Sendable(f) ==
    /\ conn = "active"
    /\ f.kind = "HEADERS" => state[f.stream] \in {"opening", "open"}
    /\ f.kind = "TRAILERS" => state[f.stream] = "open"

\* A queued control frame is taken.  A request opens its stream now; one that
\* was cancelled or overtaken by termination closes it instead.  _frame_not_sent
\* ignores these cases: the stream's own closure reports them.
PopControl(f) ==
    /\ driving /\ aob = NoFrame
    /\ f \in control
    /\ control' = control \ {f}
    /\ IF Sendable(f)
       THEN /\ aob' = [kind |-> f.kind, stream |-> f.stream, end |-> f.end,
                       length |-> 0, left |-> ControlSize]
            /\ state' = [state EXCEPT ![f.stream] = IF @ = "opening" THEN "open" ELSE @]
            /\ UNCHANGED <<item, bodies, responses, deferredResets>>
       ELSE /\ aob' = NoFrame
            /\ Close(IF state[f.stream] \in {"opening", "cancelled"} THEN {f.stream} ELSE {})
    /\ UNCHANGED <<conn, ended, deferred, trailers, outputVars, shutRd, shutWr, window,
                   connWindow, history>>

\* DATA is taken only behind every control frame, within both windows.
Schedulable(s) ==
    /\ conn = "active"
    /\ item[s] = "ready" /\ state[s] = "open"
    /\ window[s] > 0 /\ connWindow > 0

\* _data_frame_length, then the windows.
FrameLength(s) ==
    LET length == IF Queued(s) = 0 THEN 1 ELSE Least(MaxFrame, Queued(s))
    IN  Least(length, Least(window[s], connWindow))

\* Mutant: the frame header is not counted.
WholeBody(n) == room = Unlimited \/ n <= room

\* The frame fits the output limit, so it is collected whole by _send_body.
Whole(n) == room = Unlimited \/ n + FrameHeader <= room

\* Mutant: an ended body is complete before its last bytes.
CompleteWhenEnded(s, n) == ended[s]

\* A frame of n bytes is the last of its body.
Complete(s, n) == ended[s] /\ n = Queued(s)

\* _read_body, with the _send_body call that follows a NO_COPY frame.  Without
\* room it pauses the drive instead (EndDrive).  An empty, unfinished queue
\* defers the stream until send_data() or send_trailers().  Trailers behind an
\* empty queue need no DATA frame: libnghttp2 drops the item without one.
ReadBody(s) ==
    /\ driving /\ aob = NoFrame /\ control = {}
    /\ Schedulable(s)
    /\ room # 0
    /\ s \in bodies
    /\ LET n == Least(FrameLength(s), Queued(s))
           complete == Complete(s, n)
       IN  IF n > 0 \/ complete
           THEN /\ taken' = [taken EXCEPT ![s] = @ + n]
                /\ eof' = IF complete THEN eof \cup {s} ELSE eof
                /\ trailers' = [trailers EXCEPT ![s] = @ /\ ~complete]
                /\ control' = IF complete /\ trailers[s] THEN {Trailers(s)} ELSE {}
                /\ IF n = 0 /\ trailers[s]
                   THEN /\ item' = [item EXCEPT ![s] = "none"]
                        /\ UNCHANGED <<aob, room, outSize>>
                   ELSE /\ aob' = [kind |-> "DATA", stream |-> s,
                                   end |-> complete /\ ~trailers[s], length |-> n,
                                   left |-> IF Whole(n) THEN 0 ELSE n + FrameHeader]
                        /\ Emit(IF Whole(n) THEN n + FrameHeader ELSE 0)
                        /\ UNCHANGED item
                /\ UNCHANGED deferred
           ELSE /\ deferred' = [deferred EXCEPT ![s] = TRUE]
                /\ item' = [item EXCEPT ![s] = "deferred"]
                /\ UNCHANGED <<taken, eof, trailers, control, aob, room, outSize>>
    /\ UNCHANGED <<conn, bodies, ended, responses, deferredResets, driving, limit, state,
                   shutRd, shutWr, window, connWindow, accepted, opened>>

\* _collect_output: as much of the frame as the limit allows.
CollectOutput ==
    /\ driving /\ aob # NoFrame /\ aob.left > 0
    /\ room # 0
    /\ LET n == IF room = Unlimited THEN aob.left ELSE Least(aob.left, room)
       IN  /\ aob' = [aob EXCEPT !.left = @ - n]
           /\ Emit(n)
    /\ UNCHANGED <<conn, bodyVars, driving, limit, state, item, control, shutRd, shutWr,
                   window, connWindow, history>>

\* Mutant: the reset does not wait for END_STREAM.
ResetDueAtOnce(s) == s \in deferredResets /\ s \notin shutRd

\* The frame in aob lets go a reset that waited for END_STREAM, which is not
\* needed when the peer has ended its direction too.
ResetDue(s) == aob.end /\ s \in deferredResets /\ s \notin shutRd

\* What _frame_sent and libnghttp2 make of the stream of a frame that is out:
\* the reset that is due is submitted, then HEADERS set the state anew, also of a
\* stream whose reset is queued.
Resets(s) ==
    IF aob.kind = "HEADERS" /\ Exists(s)
    THEN /\ state' = [state EXCEPT ![s] = "open"]
         /\ control' = IF ResetDue(s) /\ state[s] = "open" THEN control \cup {Rst(s)} ELSE control
    ELSE IF ResetDue(s) THEN SubmitRst(s) ELSE UNCHANGED <<state, control>>

\* The frame is out.  libnghttp2 updates windows and stream state around
\* _frame_sent.
FrameSent ==
    /\ driving /\ aob # NoFrame /\ aob.left = 0
    /\ aob' = NoFrame
    /\ LET s == aob.stream
           live == Exists(s)
           closes == live /\ (aob.kind = "RST" \/ (aob.end /\ s \in shutRd))
           starts == live /\ aob.kind = "HEADERS" /\ ~aob.end
           finishes == aob.kind = "DATA" /\ s \in eof
       IN  /\ shutWr' = IF live /\ aob.end THEN shutWr \cup {s} ELSE shutWr
           /\ connWindow' = connWindow - aob.length
           /\ window' = [window EXCEPT ![s] = @ - aob.length]
           /\ IF closes
              THEN Close({s}) /\ UNCHANGED control
              ELSE /\ Resets(s)
                   /\ deferredResets' = IF aob.end THEN deferredResets \ {s} ELSE deferredResets
                   /\ item' = [item EXCEPT ![s] = CASE starts -> "ready"
                                                    [] finishes -> "none"
                                                    [] OTHER -> @]
                   /\ UNCHANGED <<bodies, responses>>
    /\ UNCHANGED <<conn, ended, deferred, trailers, outputVars, shutRd, history>>

\* The send loop stops at the limit, or with nothing more to send.
EndDrive ==
    /\ driving
    /\ IF aob = NoFrame
       THEN /\ control = {}
            /\ room # 0 => \A s \in Streams : ~Schedulable(s)
       ELSE aob.left > 0 /\ room = 0
    /\ driving' = FALSE
    /\ room' = 0
    /\ UNCHANGED <<conn, bodyVars, limit, outSize, nativeVars, history>>

\* An exception in a callback (memory, for one): output has advanced and cannot
\* be produced again, so the connection fails for good.
Fail ==
    /\ driving
    /\ conn' = "failed"
    /\ driving' = FALSE
    /\ room' = 0
    /\ DiscardPendingState
    /\ UNCHANGED <<ended, deferred, trailers, limit, outSize, nativeVars, history>>
-----------------------------------------------------------------------------
Application ==
    \/ \E s \in Streams :
        \/ \E end \in BOOLEAN : SendRequest(s, end) \/ SendResponse(s, end)
        \/ \E n \in 0 .. MaxBytes - accepted[s], last \in BOOLEAN : SendData(s, n, last)
        \/ SendTrailers(s)
        \/ ResetStream(s)
        \/ ResetAfterEnd(s)
    \/ Terminate

Peer ==
    \/ \E s \in Streams :
        \/ \E end \in BOOLEAN : PeerRequest(s, end)
        \/ PeerEnd(s)
        \/ PeerReset(s)
        \/ PeerGrant(s)
    \/ PeerGrantConnection

\* The turns of the send loop.
Drive ==
    \/ \E f \in control : PopControl(f)
    \/ \E s \in Streams : ReadBody(s)
    \/ CollectOutput
    \/ FrameSent
    \/ EndDrive

Next ==
    \/ Application
    \/ Peer
    \/ \E amount \in Limits : BeginDrive(amount)
    \/ Drive
    \/ Fail

Spec == Init /\ [][Next]_vars

\* The caller keeps calling data_to_send(), as the transport guide asks, and
\* each call returns; the peer keeps granting credit and reads everything.
\* Credit is granted between drives only, hence strong fairness for it.
Fairness ==
    /\ WF_vars(\E amount \in Limits : BeginDrive(amount))
    /\ WF_vars(Drive)
    /\ \A s \in Streams : SF_vars(PeerGrant(s))
    /\ SF_vars(PeerGrantConnection)

FairSpec == Spec /\ Fairness
-----------------------------------------------------------------------------
(* Properties.                                                             *)

\* Every variable stays within its type.
TypeOK ==
    /\ conn \in {"active", "terminating", "failed"}
    /\ bodies \subseteq Streams /\ responses \subseteq Streams
    /\ deferredResets \subseteq Streams
    /\ ended \in [Streams -> BOOLEAN]
    /\ deferred \in [Streams -> BOOLEAN]
    /\ trailers \in [Streams -> BOOLEAN]
    /\ driving \in BOOLEAN
    /\ limit \in Nat \cup {Unlimited} /\ room \in Nat \cup {Unlimited} /\ outSize \in Nat
    /\ state \in [Streams -> {"idle", "opening", "cancelled", "open", "closing", "closed"}]
    /\ item \in [Streams -> {"none", "ready", "deferred"}]
    /\ control \subseteq Control
    /\ shutRd \subseteq Streams /\ shutWr \subseteq Streams
    /\ window \in [Streams -> Int] /\ connWindow \in Int
    /\ aob \in Frame \cup {NoFrame}
    /\ accepted \in [Streams -> Nat]
    /\ taken \in [Streams -> Nat]
    /\ eof \subseteq Streams

\* A deferred stream and its flag agree, and it has nothing to send: whatever
\* the order of calls, resets and drives, queued bytes or an end are never left
\* behind a sleeping stream, and waking one (resume_data) never fails.
NoLostWakeup ==
    /\ TypeOK
    /\ conn = "active" =>
        /\ \A s \in bodies :
            deferred[s] => item[s] = "deferred" /\ Queued(s) = 0 /\ ~ended[s]
        /\ \A s \in Streams : item[s] = "deferred" => s \in bodies /\ deferred[s]

\* The frames that end the local direction of s: sent, being sent, queued.
EndFrames(s) ==
    {f \in control \cup ({aob} \ {NoFrame}) : f.stream = s /\ f.end}

\* A stream ends once, and behind everything: one frame carries END_STREAM (a
\* DATA frame or trailers), none follows a sent one, and with a body it exists
\* only after every accepted byte was taken.
EndsOnceAfterBody ==
    \A s \in Streams :
        /\ Cardinality(EndFrames(s)) + (IF s \in shutWr THEN 1 ELSE 0) <= 1
        /\ s \in eof => Queued(s) = 0
        /\ s \in bodies /\ (EndFrames(s) # {} \/ s \in shutWr) => s \in eof

\* One call returns no more bytes than asked for, and _output_remaining is
\* always what is left of them, whichever callback wrote the output.
LimitRespected ==
    limit # Unlimited =>
        /\ outSize <= limit
        /\ driving => room = limit - outSize

\* What the binding keeps for a stream lives exactly as long as libnghttp2 uses
\* it: whenever DATA may be asked for, _read_body, _send_body and
\* _data_frame_length find the body ("_read_body reports any other gap"), and
\* nothing stays for a stream that closed, by the peer or by either reset, nor
\* for any stream of a connection that terminated or failed.
StateFollowsStream ==
    /\ \A s \in Streams : Schedulable(s) => s \in bodies
    /\ \A s \in bodies \cup responses \cup deferredResets :
        conn = "active" /\ state[s] \notin {"idle", "closed"}

\* A reset accepted with after_end_stream is never stranded: its stream still
\* has END_STREAM ahead of it, in a frame or as the end of its body, or is
\* already being reset.
DeferredResetComes ==
    \A s \in deferredResets :
        /\ Exists(s)
        /\ s \notin shutWr
        /\ \/ state[s] = "closing"
           \/ EndFrames(s) # {}
           \/ s \in bodies /\ ended[s] /\ s \notin eof

\* A reset that waited is queued behind END_STREAM: it discards no byte, no
\* trailers and no frame of the stream, and is not sent when the peer has ended
\* as well.
DeferredResetLosesNothing ==
    [][\A s \in Streams :
        driving /\ Rst(s) \in control' \ control =>
            /\ s \in shutWr' /\ s \notin shutRd
            /\ Queued(s) = 0 /\ EndFrames(s)' = {}]_vars

\* With credit and calls to data_to_send(), an ended body is sent to its end,
\* unless its stream or connection is closed first.
EndedBodyIsSent ==
    \A s \in Streams : s \in bodies /\ ended[s] ~> s \in eof \/ s \notin bodies

\* The connection implements the promise of BodyDelivery: an end is never seen
\* by the peer before the last byte, whatever else happens to the stream.
Delivery == INSTANCE BodyDelivery WITH
    sent <- taken,
    phase <- [s \in Streams |->
        CASE s \in eof -> "finished"
          [] s \notin eof /\ s \in bodies -> IF ended[s] THEN "ended" ELSE "open"
          [] s \notin eof \cup bodies ->
                IF s \in opened THEN "cut" ELSE "none"]

ImplementsDelivery == Delivery!Spec
=============================================================================
