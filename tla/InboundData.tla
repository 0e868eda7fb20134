----------------------------- MODULE InboundData -----------------------------
(***************************************************************************)
(* The receiving side of a Connection: DATA frames on their way from       *)
(* receive_data() to DataReceived events, and the flow-control credit they *)
(* hold until the application consumes their bytes.                        *)
(*                                                                         *)
(* Input may be cut anywhere, so a frame arrives as a header, then         *)
(* fragments, and application calls fall between any two of them; its last *)
(* fragment and its end are one call.  Bytes are counted, not kept.        *)
(*                                                                         *)
(* libnghttp2 is external.  It charges the whole payload of a frame to     *)
(* both windows at the header, consumes padding and ignored payload itself *)
(* and leaves the rest to consume_received_data().  It keeps one total for *)
(* the connection window; "credit" splits that total by the stream whose   *)
(* DATA uses it.                                                           *)
(***************************************************************************)
EXTENDS Integers, Functions

CONSTANTS
    Streams,     \* streams the peer sends DATA on
    NoFrame,     \* no DATA frame is being received; no payload is held
    WindowSize,  \* receive window of the connection and of each stream
    MaxFrames    \* bound: DATA frames of the peer

ASSUME InboundDataAssumption ==
    /\ NoFrame \notin Streams
    /\ WindowSize \in Nat
    /\ MaxFrames \in Nat

VARIABLES
    \* The Connection object.
    auto,         \* _auto_window_update
    conn,         \* "active", "terminating" or "failed"
    payload,      \* stream of _data_payload, or NoFrame for None
    payloadSize,  \* its size
    dataStream,   \* _data_stream_id
    dataSize,     \* _data_size
    unconsumed,   \* _unconsumed; 0 for an absent key
    \* The libnghttp2 session.
    state,        \* "open", "closing" (a reset is queued) or "closed"
    frame,        \* the stream of the frame being received, or NoFrame
    ignored,      \* its payload is skipped
    left,         \* its data bytes still to come
    padding,      \* its padding still to come
    credit,       \* connection window used by the DATA of each stream
    streamCredit, \* window of each stream in use
    \* History.
    size,         \* data bytes of the frame
    received,     \* bytes of each stream given to _data_chunk
    published,    \* bytes of each stream published in DataReceived events
    frames        \* frames received so far

payloadVars == <<payload, payloadSize, dataStream, dataSize>>
frameVars == <<frame, ignored, left, padding, size>>
creditVars == <<credit, streamCredit>>
history == <<received, published, frames>>
vars == <<auto, conn, payloadVars, unconsumed, state, frameVars, creditVars, history>>

Zero == [s \in Streams |-> 0]

Init ==
    /\ auto \in BOOLEAN
    /\ conn = "active"
    /\ payload = NoFrame /\ dataStream = NoFrame
    /\ payloadSize = 0 /\ dataSize = 0
    /\ unconsumed = Zero
    /\ state = [s \in Streams |-> "open"]
    /\ frame = NoFrame
    /\ ignored = FALSE
    /\ left = 0 /\ padding = 0 /\ size = 0
    /\ credit = Zero /\ streamCredit = Zero
    /\ received = Zero /\ published = Zero
    /\ frames = 0

InUse == SumFunctionOnSet(credit, Streams)

\* No receive_data() call is between the last fragment of a frame and its end.
Waiting == conn = "active" /\ (frame # NoFrame => left + padding > 0)
-----------------------------------------------------------------------------
(* Effects shared by several callbacks.                                    *)

\* _data_payload and its size, p = NoFrame for None.
\* Mutant: the bytes written so far stay counted.
SetPayloadKeepsSize(p, length) ==
    /\ payload' = p
    /\ payloadSize' = length
    /\ UNCHANGED dataSize

SetPayload(p, length) ==
    /\ payload' = p
    /\ payloadSize' = length
    /\ dataSize' = 0

\* Mutants: a dropped payload returns no credit; it does so in automatic mode.
ReturnedNothing == credit
ReturnedAlways ==
    IF dataSize > 0 THEN [credit EXCEPT ![dataStream] = @ - dataSize] ELSE credit

\* _discard_data_payload: the connection credit after the bytes handed over but
\* never published are consumed for the application, which cannot do it.
Returned ==
    IF dataSize > 0 /\ ~auto
    THEN [credit EXCEPT ![dataStream] = @ - dataSize] ELSE credit

\* nghttp2_session_consume: of a closed stream only the connection is left.
Consume(s, n) ==
    /\ credit' = [credit EXCEPT ![s] = @ - n]
    /\ streamCredit' = IF state[s] = "closed" THEN streamCredit
                       ELSE [streamCredit EXCEPT ![s] = @ - n]

\* _discard_pending_state.
DiscardPendingState == SetPayload(NoFrame, 0) /\ unconsumed' = Zero
-----------------------------------------------------------------------------
(* Peer input.                                                             *)

\* With automatic updates libnghttp2 returns the credit itself.
Charge(c, s, n) == IF auto THEN c ELSE [c EXCEPT ![s] = @ + n]

\* The header of a DATA frame that fits the windows; one that does not ends the
\* connection.  For a stream that is closing or gone libnghttp2 skips the
\* payload without a callback.  Otherwise _begin_frame drops what an unfinished
\* frame left behind and allocates the payload.
BeginFrame(s, data, pad) ==
    /\ Waiting /\ frame = NoFrame
    /\ frames < MaxFrames
    /\ InUse + data + pad <= WindowSize
    /\ state[s] = "open" => streamCredit[s] + data + pad <= WindowSize
    /\ frames' = frames + 1
    /\ frame' = s
    /\ left' = data /\ padding' = pad /\ size' = data
    /\ ignored' = (state[s] # "open")
    /\ IF state[s] = "open"
       THEN /\ SetPayload(s, data + pad)
            /\ dataStream' = s
            /\ credit' = Charge(Returned, s, data + pad)
            /\ streamCredit' = Charge(streamCredit, s, data + pad)
       ELSE /\ credit' = Charge(credit, s, data + pad)
            /\ UNCHANGED <<payloadVars, streamCredit>>
    /\ UNCHANGED <<auto, conn, unconsumed, state, received, published>>

\* libnghttp2 hands the rest of the frame to nobody: it was to be ignored, or
\* its stream has closed meanwhile.
Skipping == ignored \/ state[frame] = "closed"

\* A connection that fails keeps nothing; libnghttp2's session is freed.
Fail ==
    /\ conn = "active"
    /\ conn' = "failed"
    /\ DiscardPendingState
    /\ UNCHANGED <<auto, dataStream, state, frameVars, creditVars, history>>

\* _data_chunk: n bytes are copied behind those of earlier fragments.  A
\* fragment without its payload is an InternalError.
DataChunk(n) ==
    /\ conn = "active" /\ frame # NoFrame /\ ~Skipping
    /\ n <= left
    /\ IF payload # NoFrame /\ dataStream = frame /\ dataSize + n <= payloadSize
       THEN /\ dataSize' = dataSize + n
            /\ received' = [received EXCEPT ![frame] = @ + n]
            /\ left' = left - n
            /\ UNCHANGED <<auto, conn, payload, payloadSize, dataStream, unconsumed, state,
                           frame, ignored, padding, size, creditVars, published, frames>>
       ELSE Fail

\* Padding is consumed by libnghttp2 in either mode.
SkipPadding ==
    /\ conn = "active" /\ frame # NoFrame /\ ~Skipping
    /\ left = 0 /\ padding > 0
    /\ padding' = 0
    /\ IF auto THEN UNCHANGED creditVars ELSE Consume(frame, padding)
    /\ UNCHANGED <<auto, conn, payloadVars, unconsumed, state, frame, ignored, left, size,
                   history>>

\* Ignored payload is consumed at the connection.
SkipRest ==
    /\ conn = "active" /\ frame # NoFrame /\ Skipping
    /\ left + padding > 0
    /\ left' = 0 /\ padding' = 0
    /\ credit' = Charge(credit, frame, -(left + padding))
    /\ UNCHANGED <<auto, conn, payloadVars, unconsumed, state, frame, ignored, size,
                   streamCredit, history>>

\* The content of the message breaks HTTP rules in the middle of a frame: the
\* stream is reset and the rest of the frame ignored.
RejectFragment ==
    /\ conn = "active" /\ frame # NoFrame /\ ~Skipping
    /\ left > 0 /\ state[frame] = "open"
    /\ state' = [state EXCEPT ![frame] = "closing"]
    /\ ignored' = TRUE
    /\ UNCHANGED <<auto, conn, payloadVars, unconsumed, frame, left, padding, size,
                   creditVars, history>>

\* Mutant: the whole length of the frame is owed, its padding included.
RecordLength == IF auto THEN unconsumed ELSE [unconsumed EXCEPT ![frame] = @ + payloadSize]

\* What the application owes once the frame's payload is published.
Recorded == IF auto THEN unconsumed ELSE [unconsumed EXCEPT ![frame] = @ + dataSize]

\* The end of the frame.  _data_frame_received publishes its payload, except
\* for a stream that is closing: libnghttp2 then reports no frame and the
\* payload stays behind.
EndFrame ==
    /\ conn = "active" /\ frame # NoFrame
    /\ left = 0 /\ padding = 0
    /\ frame' = NoFrame
    /\ IF ~ignored /\ state[frame] = "open"
       THEN /\ SetPayload(NoFrame, 0)
            /\ unconsumed' = Recorded
            /\ published' = [published EXCEPT ![frame] = @ + dataSize]
       ELSE UNCHANGED <<payload, payloadSize, dataSize, unconsumed, published>>
    /\ UNCHANGED <<auto, conn, dataStream, state, ignored, left, padding, size, creditVars,
                   received, frames>>
-----------------------------------------------------------------------------
(* Application calls and stream closure.                                   *)

\* consume_received_data(s, n); also for a stream that has closed.
ConsumeReceivedData(s, n) ==
    /\ Waiting /\ ~auto
    /\ n <= unconsumed[s]
    /\ Consume(s, n)
    /\ unconsumed' = [unconsumed EXCEPT ![s] = @ - n]
    /\ UNCHANGED <<auto, conn, payloadVars, state, frameVars, history>>

\* reset_stream(), or a stream error of the peer between two frames.
ResetStream(s) ==
    /\ Waiting
    /\ state[s] = "open"
    /\ state' = [state EXCEPT ![s] = "closing"]
    /\ UNCHANGED <<auto, conn, payloadVars, unconsumed, frameVars, creditVars, history>>

\* Mutant: any payload is dropped when a stream closes.
HoldsAnyPayload(s) == TRUE

\* The payload, if there is one, is of stream s.
HoldsPayload(s) == dataStream = s

\* _stream_closed: a queued reset was sent, perhaps in the middle of a frame, or
\* the stream was reset or completed by the peer.
StreamClosed(s) ==
    /\ Waiting
    /\ state[s] = "closing" \/ (state[s] = "open" /\ frame # s)
    /\ state' = [state EXCEPT ![s] = "closed"]
    /\ IF HoldsPayload(s)
       THEN SetPayload(NoFrame, 0) /\ credit' = Returned
       ELSE UNCHANGED <<payload, payloadSize, dataSize, credit>>
    /\ UNCHANGED <<auto, conn, dataStream, unconsumed, frameVars, streamCredit, history>>

\* terminate_connection(), or the terminal state of a connection shut down.
Terminate ==
    /\ Waiting
    /\ conn' = "terminating"
    /\ DiscardPendingState
    /\ UNCHANGED <<auto, dataStream, state, frameVars, creditVars, history>>

\* A frame is carried on to its end.
Receive ==
    \/ \E n \in 1 .. left : DataChunk(n)
    \/ SkipPadding
    \/ SkipRest
    \/ EndFrame

Next ==
    \/ Receive
    \/ \E s \in Streams :
        \/ \E data \in 0 .. WindowSize, pad \in 0 .. 1 : BeginFrame(s, data, pad)
        \/ \E n \in 1 .. unconsumed[s] : ConsumeReceivedData(s, n)
        \/ ResetStream(s)
        \/ StreamClosed(s)
    \/ RejectFragment
    \/ Terminate
    \/ Fail

Spec == Init /\ [][Next]_vars

\* The peer completes its frames, the application consumes what it was given,
\* and queued resets are sent by data_to_send().
Fairness ==
    /\ WF_vars(Receive)
    /\ \A s \in Streams :
        /\ WF_vars(ConsumeReceivedData(s, unconsumed[s]) /\ unconsumed[s] > 0)
        /\ WF_vars(state[s] = "closing" /\ StreamClosed(s))

FairSpec == Spec /\ Fairness
-----------------------------------------------------------------------------
(* Properties.                                                             *)

\* Every variable stays within its type; no credit is returned twice.
TypeOK ==
    /\ auto \in BOOLEAN
    /\ conn \in {"active", "terminating", "failed"}
    /\ payload \in Streams \cup {NoFrame} /\ dataStream \in Streams \cup {NoFrame}
    /\ payloadSize \in Nat /\ dataSize \in Nat
    /\ unconsumed \in [Streams -> Nat]
    /\ state \in [Streams -> {"open", "closing", "closed"}]
    /\ frame \in Streams \cup {NoFrame}
    /\ ignored \in BOOLEAN
    /\ left \in Nat /\ padding \in Nat /\ size \in Nat
    /\ credit \in [Streams -> Nat] /\ streamCredit \in [Streams -> Nat]
    /\ received \in [Streams -> Nat] /\ published \in [Streams -> Nat]
    /\ frames \in Nat

\* The bytes of stream s that hold credit: published and not consumed, handed
\* over and not published, still to come.
Holding(s) ==
    unconsumed[s] + (IF dataStream = s THEN dataSize ELSE 0)
                  + (IF frame = s THEN left + padding ELSE 0)

\* With manual updates both windows are charged exactly for the bytes that can
\* still be consumed, by the application, the binding or libnghttp2: resets and
\* closures in the middle of a frame leak no credit of the window all streams
\* share, and consume_received_data() can return none twice.
CreditConserved ==
    conn = "active" /\ ~auto =>
        \A s \in Streams :
            /\ credit[s] = Holding(s)
            /\ state[s] = "open" => streamCredit[s] = Holding(s)

\* Whenever libnghttp2 may hand over a fragment, the payload of its frame is
\* there with room for all that is to come (the InternalError of _data_chunk
\* cannot be raised), also when an earlier frame was cut off.
ChunkFits ==
    conn = "active" /\ frame # NoFrame /\ left > 0 /\ ~Skipping =>
        /\ payload = frame /\ dataStream = frame
        /\ dataSize + left <= payloadSize

\* Nothing handed over for an open stream is dropped or counted for another:
\* it is published, or is the beginning of the frame being received.
NothingLost ==
    conn = "active" =>
        \A s \in Streams : state[s] = "open" =>
            received[s] = published[s] + (IF dataStream = s THEN dataSize ELSE 0)

\* Used connection window is always returned in the end, whatever was reset.
CreditReturns == InUse > 0 ~> InUse = 0 \/ conn # "active"
=============================================================================
