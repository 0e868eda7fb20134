----------------------------- MODULE HeaderBlocks -----------------------------
(***************************************************************************)
(* Received header blocks: the fields of one HEADERS or PUSH_PROMISE frame *)
(* and its CONTINUATIONs, collected one callback at a time and published   *)
(* as one event.                                                           *)
(*                                                                         *)
(* A block may be spread over receive_data() calls; blocks are never       *)
(* interleaved, but a block may be left unfinished by an error in it, and  *)
(* its stream may be reset before its last field.                          *)
(*                                                                         *)
(* libnghttp2 is external: it decodes the fields, tells which blocks a     *)
(* stream may receive, and reports no frame for a stream that is closing   *)
(* or closed.  A field is its kind and its size; "interim" and "final"     *)
(* are the two kinds of a :status field.                                   *)
(***************************************************************************)
EXTENDS Integers, Sequences, SequencesExt

CONSTANTS
    Streams,    \* streams the peer sends header blocks on
    NoBlock,    \* no header block is being received
    Sizes,      \* sizes of the fields, name and value together
    Overhead,   \* what each field counts besides; 32 in the code
    MaxSize,    \* max_inbound_header_list_size
    MaxCount,   \* max_inbound_header_count
    MaxBlocks   \* bound: blocks received

ASSUME HeaderBlocksAssumption ==
    /\ NoBlock \notin Streams
    /\ Sizes \subseteq Nat
    /\ {Overhead, MaxSize, MaxCount, MaxBlocks} \subseteq Nat

VARIABLES
    \* The Connection object.
    server,  \* _server
    conn,    \* "active", "terminating" or "failed"
    current, \* _current_headers
    size,    \* _current_header_size
    events,  \* header events published
    \* The libnghttp2 session.
    state,   \* "open", "closing" (a reset is queued) or "closed"
    headed,  \* streams whose request or final response was received
    ended,   \* streams whose trailers were received
    block,   \* the stream of the block being received, or NoBlock
    push,    \* it is a promised request
    ignored, \* the rest of it is decoded, but not delivered
    fields,  \* history: its fields, also those not delivered
    blocks   \* blocks begun so far

binding == <<server, conn, current, size, events>>
native == <<state, headed, ended, block, push, ignored, fields, blocks>>
vars == <<binding, native>>

Fields == [kind : {"interim", "final", "field"}, size : Sizes]

Event(kind, s, headers) == [kind |-> kind, stream |-> s, headers |-> headers]

Init ==
    /\ server \in BOOLEAN
    /\ conn = "active"
    /\ current = <<>> /\ size = 0
    /\ events = <<>>
    /\ state = [s \in Streams |-> "open"]
    /\ headed = {} /\ ended = {}
    /\ block = NoBlock /\ push = FALSE /\ ignored = FALSE
    /\ fields = <<>>
    /\ blocks = 0

\* _discard_pending_state.
DiscardPendingState == current' = <<>> /\ size' = 0
-----------------------------------------------------------------------------
\* Mutant: the fields of a block left unfinished stay.
BeginKeepsFields == size' = 0 /\ UNCHANGED current

\* Mutant: the size of the block before stays.
BeginKeepsSize == current' = <<>> /\ UNCHANGED size

\* _begin_headers.
BeginHeaders == current' = <<>> /\ size' = 0

\* A block begins.  For a stream that is closing or closed libnghttp2 decodes
\* it without a callback.
BeginBlock(s, promise) ==
    /\ conn = "active" /\ block = NoBlock
    /\ blocks < MaxBlocks
    /\ s \notin ended
    /\ promise => ~server
    /\ block' = s /\ push' = promise
    /\ ignored' = (state[s] # "open")
    /\ fields' = <<>>
    /\ blocks' = blocks + 1
    /\ IF state[s] = "open" THEN BeginHeaders ELSE UNCHANGED <<current, size>>
    /\ UNCHANGED <<server, conn, events, state, headed, ended>>

\* The fields libnghttp2 lets pass at this point: a response begins with its
\* status, and no other block holds one.
Valid(f) ==
    IF ~server /\ ~push /\ block \notin headed /\ fields = <<>>
    THEN f.kind # "field" ELSE f.kind = "field"

\* _header: the list is full.
CountExceeded == Len(current) >= MaxCount

\* _header: the block is larger than allowed.
SizeExceeded(f) == size + f.size + Overhead > MaxSize

\* DenialOfServiceError, or another exception of a call.
Fail ==
    /\ conn # "failed"
    /\ conn' = "failed"
    /\ DiscardPendingState
    /\ UNCHANGED <<server, events, state, headed, ended, block, push, ignored, blocks>>

\* libnghttp2 calls _header for the fields of the block.  It looks at the stream
\* the block is for, which in a promise is the promised one: a field of a stream
\* that was closed since the block began is only decoded.
Delivered == ~ignored /\ (push \/ state[block] # "closed")

\* A field of the block: _header keeps it, or fails the connection.  The bound on
\* fields lets a block exceed the limit by one.
Header(f) ==
    /\ conn = "active" /\ block # NoBlock
    /\ Len(fields) <= MaxCount
    /\ Valid(f)
    /\ fields' = Append(fields, f)
    /\ IF ~Delivered
       THEN UNCHANGED <<binding, state, headed, ended, block, push, ignored, blocks>>
       ELSE IF SizeExceeded(f) \/ CountExceeded
       THEN Fail
       ELSE /\ current' = Append(current, f)
            /\ size' = size + f.size + Overhead
            /\ UNCHANGED <<server, conn, events, state, headed, ended, block, push, ignored,
                           blocks>>

\* A field that breaks HTTP rules, one that _invalid_header rejects, or a block
\* that lacks a field: the stream is reset and the rest of the block not
\* delivered.  In a promise that is the promised stream, not the one it came on.
RejectHeader ==
    /\ conn = "active" /\ block # NoBlock /\ ~ignored
    /\ ignored' = TRUE
    /\ state' = IF ~push /\ state[block] = "open"
                THEN [state EXCEPT ![block] = "closing"] ELSE state
    /\ UNCHANGED <<binding, headed, ended, block, push, fields, blocks>>

\* Mutant: every response is final.
AnyResponse(headers) ==
    IF \E i \in DOMAIN headers : headers[i].kind # "field" THEN "response" ELSE "trailers"

\* _headers_received: a block that is no request is told by its status.
ResponseKind(headers) ==
    IF \E i \in DOMAIN headers : headers[i].kind = "interim" THEN "interim"
    ELSE IF \E i \in DOMAIN headers : headers[i].kind = "final" THEN "response"
    ELSE "trailers"

\* The frame's category: HCAT_REQUEST is the first block of a stream of a client.
IsRequest == server /\ block \notin headed

Kind ==
    IF push THEN "push"
    ELSE IF IsRequest THEN "request"
    ELSE ResponseKind(current)

\* _headers_received and _push_promise_received.
FrameReceived ==
    /\ events' = Append(events, Event(Kind, block, current))
    /\ current' = <<>>
    /\ UNCHANGED size

\* The block ends.  Only trailers may be empty: another block without a field is
\* rejected first.
EndBlock ==
    /\ conn = "active" /\ block # NoBlock
    /\ fields # <<>> \/ ignored \/ (~push /\ block \in headed)
    /\ block' = NoBlock
    /\ IF ~ignored /\ state[block] = "open"
       THEN FrameReceived ELSE UNCHANGED <<current, size, events>>
    /\ headed' = IF push \/ fields = <<>> \/ fields[1].kind = "interim" THEN headed
                 ELSE headed \cup {block}
    /\ ended' = IF ~push /\ block \in headed THEN ended \cup {block} ELSE ended
    /\ UNCHANGED <<server, conn, state, push, ignored, fields, blocks>>

\* reset_stream(), between any two calls of receive_data().
ResetStream(s) ==
    /\ conn = "active" /\ state[s] = "open"
    /\ state' = [state EXCEPT ![s] = "closing"]
    /\ UNCHANGED <<binding, headed, ended, block, push, ignored, fields, blocks>>

\* The reset is sent.
StreamClosed(s) ==
    /\ conn = "active" /\ state[s] = "closing"
    /\ state' = [state EXCEPT ![s] = "closed"]
    /\ UNCHANGED <<binding, headed, ended, block, push, ignored, fields, blocks>>

\* terminate_connection().
Terminate ==
    /\ conn = "active"
    /\ conn' = "terminating"
    /\ DiscardPendingState
    /\ UNCHANGED <<server, events, native>>

Next ==
    \/ \E s \in Streams : (\E promise \in BOOLEAN : BeginBlock(s, promise)) \/ ResetStream(s)
                          \/ StreamClosed(s)
    \/ \E f \in Fields : Header(f)
    \/ RejectHeader
    \/ EndBlock
    \/ Terminate
    \/ Fail /\ UNCHANGED fields

Spec == Init /\ [][Next]_vars
-----------------------------------------------------------------------------
(* Properties.                                                             *)

\* The size of a list, which is the number of octets the limit counts: each has
\* its field and its place in it.
Octets(headers) == UNION {{i} \X (1 .. headers[i].size + Overhead) : i \in DOMAIN headers}
SizeOf(headers) == Cardinality(Octets(headers))

\* Every variable stays within its type.
TypeOK ==
    /\ server \in BOOLEAN /\ push \in BOOLEAN /\ ignored \in BOOLEAN
    /\ conn \in {"active", "terminating", "failed"}
    /\ current \in Seq(Fields) /\ size \in 0 .. MaxSize
    /\ events \in Seq([kind : {"request", "interim", "response", "trailers", "push"},
                       stream : Streams, headers : Seq(Fields)])
    /\ state \in [Streams -> {"open", "closing", "closed"}]
    /\ headed \subseteq Streams /\ ended \subseteq Streams
    /\ block \in Streams \cup {NoBlock}
    /\ fields \in Seq(Fields)
    /\ blocks \in 0 .. MaxBlocks

\* Fields of one block never reach the event of another, whatever unfinished
\* block was received before it.
BlockIntact ==
    [][events' # events => Last(events').headers = fields /\ Last(events').stream = block]_vars

\* The limits are exact and count one block: a field of a delivered block is
\* accepted if and only if the fields of that block, with this one, are no more
\* and no larger than allowed, whatever blocks or unfinished blocks came before.
LimitsExact ==
    [][fields' # fields /\ fields' # <<>> /\ Delivered =>
        (conn' = "active" <=> Len(fields') <= MaxCount /\ SizeOf(fields') <= MaxSize)]_vars

\* A stream has one request or final response; only interim responses precede
\* it and only trailers follow it.
MessageOrder ==
    /\ TypeOK
    /\ \A j \in DOMAIN events :
        LET before == {events[i].kind : i \in {i \in 1 .. j - 1 :
                                                events[i].stream = events[j].stream}}
        IN  CASE events[j].kind = "push" -> TRUE
              [] events[j].kind = "request" -> before = {}
              [] events[j].kind \in {"interim", "response"} -> before \subseteq {"interim", "push"}
              [] events[j].kind = "trailers" ->
                    /\ "trailers" \notin before
                    /\ before \cap {"request", "response"} # {}
=============================================================================
