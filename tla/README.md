# Specification of ngh2

ngh2 is a Python binding (Cython) of libnghttp2, an HTTP/2 protocol engine. It
does no I/O: an application hands a `Connection` the bytes it read and the
messages it wants to send, and collects events and bytes to write. This
directory holds TLA+ modules for the state the binding itself keeps, TLC
configurations that check them on small instances, and proofs checked by TLAPS.

All code references are to `src/ngh2/_core.pyx` unless another file is named.

## The system

### Components

| Component | Code | State | Operations | Correct when |
| --- | --- | --- | --- | --- |
| Body queues | `_BodySource`, `_copy_body` | per stream: chunks, head, offset, queued size, ended; per connection: total | `send_data`, frame copy, stream closure, discard | no byte lost, repeated or reordered; the counters equal the chunks; sent chunks are released |
| Body sending | `data_to_send`, `_read_body`, `_send_body`, `_collect_output`, `_data_frame_length`, `reset_stream`, `_frame_sent` | bodies, deferred flags, trailers, responses, deferred resets, output limit | submissions, drives, peer input | one END_STREAM behind the whole body, no lost wakeup, limits respected, deferred resets neither stranded nor early |
| Receiving DATA | `_begin_frame`, `_data_chunk`, `_data_frame_received`, `_discard_data_payload`, `consume_received_data` | payload of the open frame, unconsumed bytes per stream | input fragments, resets, closures, consumption | fragments find their buffer, nothing is lost, window credit is conserved |
| Connection lifecycle | `initiate_*`, `receive_data`, `data_to_send`, `send_goaway`, `send_shutdown_notice`, `terminate_connection`, `_fail`, `_update_terminal_state`, the `_require_*` guards | active, failed, terminating, closing, closed, close reason | calls, nested through argument conversion | one `ConnectionClosed`, with the last output; no call on a freed session |
| Stream lifecycle | `_stream_closed`, `_frame_not_sent`, `send_push_promise` | local errors per stream | delayed failures, closure | one `StreamClosed` per stream with its local error |
| Header blocks | `_begin_headers`, `_header`, `_headers_received`, `_push_promise_received` | current block, its size | decoded fields | limits enforced; fields belong to one block |
| Output buffer | `_reserve_output` | one growing bytes object | append, trim | no overflow, linear cost |
| Argument conversion | `_normalize_headers`, `_make_headers`, `_normalize_settings`, `_integer` and its family | the snapshot and the native array of a call | conversion, building, submission | the native pointers are valid while they are read; the fields submitted are the fields given; no integer is truncated |
| Settings, priorities, ALTSVC, ORIGIN | `update_settings`, `send_priority_update`, ... | one flag | pass-through calls and events | arguments and events translated |
| Asyncio client | `examples/python/asyncio_client.py` | status, body, complete | read, receive, look at events, write, look at events | a response it returns is whole; `get()` ends |
| Asyncio server | `examples/python/asyncio_server.py` | requests, ready streams | write, look at events, read, look at events, answer | every complete request is answered, no other; nothing is kept behind a stream |
| libnghttp2 | `_nghttp2.pxd` (external) | frame queues, stream states, windows, GOAWAY flags | the native API and its callbacks | assumed; modelled from its use |

### Interaction

The application calls methods of one `Connection` from one thread. Most calls
only queue work in libnghttp2. Two calls *drive* it: `receive_data()` feeds the
parser, `data_to_send()` runs the send loop. During a drive libnghttp2 calls
back: for body bytes (`_data_frame_length`, `_read_body`, `_send_body`), for
output (`_collect_output`) and to report what happened (`_frame_sent`,
`_frame_not_sent`, `_begin_frame`, `_data_chunk`, `_frame_received`,
`_stream_closed`). Callbacks share the per-stream dictionaries with the calls.

The asyncio examples are the drivers the documentation gives: a loop that moves
bytes between a transport and a `Connection` and looks at events behind each of
the two drives.

### What is hard

* **Interleaving of calls, drives and peer input.** A limited drive stops in
  the middle of a frame; resets, closures and more data arrive before the next.
  A body is deferred in one drive and must be woken by exactly the calls that
  give it something to send.
* **Split state.** libnghttp2 knows whether a DATA item is deferred, whether a
  direction is closed and how much window is used; the binding keeps its own
  copy (`body.deferred`, `body.ended`, `_responses`, `_unconsumed`). The copies
  must agree in every order of events.
* **Half-received frames.** A payload is allocated at the frame header; a
  reset in the middle of a frame leaves bytes nobody was told about, whose
  credit must be returned exactly once.
* **Re-entrancy.** Argument conversion runs user code that can fail or
  terminate the very connection the call is for, or change and release the very
  objects whose bytes libnghttp2 is about to read. Trailers are converted in
  one call and built in a callback of a later one, where no user code may run.
* **Batching.** One read may complete a response, cut another stream and end
  the connection. A driver sees the events in two portions, one behind the
  input and one behind the output, and has to put them together.
* **Failure half way.** Output that was serialized and lost cannot be made
  again, so any exception in a drive must end the connection.

PROJECT.json lists these hazards at the lines where they bite, with the
properties that cover them.

## Modules

| Module | Models | Extends or instantiates |
| --- | --- | --- |
| `BodyDelivery` | abstract: what a body's peer may see | |
| `BodyQueue` | the chunk queues, copy loop step by step | implements `BodyDelivery` |
| `BodyQueueProofs` | theorems on `BodyQueue` | `BodyQueue` |
| `OutboundBody` | the sending side of a connection | implements `BodyDelivery` |
| `OutboundBodyProofs` | theorems on `OutboundBody` | `OutboundBody` |
| `InboundData` | receiving DATA and flow-control credit | |
| `Lifecycle` | flags, nested calls, GOAWAY, termination, failure | |
| `LifecycleProofs` | theorems on `Lifecycle` | `Lifecycle` |
| `StreamLifecycle` | requests, responses and pushes, frames that fail when prepared, closure | |
| `StreamLifecycleProofs` | theorems on `StreamLifecycle` | `StreamLifecycle` |
| `HeaderBlocks` | received header blocks, their limits and classification | |
| `HeaderBlocksProofs` | theorems on `HeaderBlocks` | `HeaderBlocks` |
| `OutputBuffer` | the growing output buffer, with bounded integers | |
| `HeaderSnapshot` | header fields from the caller's objects to the native array | |
| `IntegerArguments` | the converters of integers | |
| `NativeBoundaryProofs` | theorems on the three above and on `InboundData` | `OutputBuffer`, `HeaderSnapshot`, `IntegerArguments`, `InboundData` |
| `ClientDriver` | the asyncio client, a connection and a server | |
| `ClientDriverProofs` | theorems on `ClientDriver` | `ClientDriver` |
| `ServerDriver` | the asyncio server, a connection and a client | |
| `ServerDriverProofs` | theorems on `ServerDriver` | `ServerDriver` |
| `MC*` | instances for TLC; `MCNativeBoundary` puts three modules without shared state into one run | the module they name; `HeaderSnapshot`, `IntegerArguments`, `OutputBuffer` |

Operators whose comment begins with "Mutant" are not part of a model. Each is a
plausible bug in the definition it precedes, kept to show that the properties
can tell it from the code; `mutants` in PROJECT.json pairs them.

### BodyDelivery and BodyQueue

`BodyDelivery` is the promise: bytes numbered in the order they were accepted
leave in that order, the end is seen only behind the last one, and a stream
that is cut short shows no end.

`BodyQueue` keeps the code's representation: a list of chunks with dead slots
in front (`head`), an offset into the first live chunk, a byte counter. A chunk
is the interval of positions it holds. `ReadBody` is `_read_body` up to the
copy, for both output modes; `CopyChunk` is one iteration of the loop of
`_copy_body`; `CopyEnd` is the compaction and the rest of the callback. The
refinement maps the history counters `accepted` and `sent` and the phase.

### OutboundBody

The variables up to `outSize` are fields of the `Connection`; `state` to `aob`
are libnghttp2's: stream states, the DATA item of each stream (none, ready,
deferred by the callback), queued control frames, windows, and the frame being
written. Application calls and peer input are one step each, between drives.
`BeginDrive` .. `EndDrive` is one `data_to_send()`: `PopControl`, `ReadBody`,
`CollectOutput` and `FrameSent` are the turns of the send loop. `ReadBody`
stands for `_data_frame_length`, `_read_body` and, in NO_COPY mode,
`_send_body`. The body is two counters here; `BodyQueue` shows that the chunk
lists behave like them, and both modules implement `BodyDelivery`.

`_read_body` has three outcomes: bytes (the last ones with the end or the
trailers), nothing yet (deferred), and trailers behind a queue that is already
empty. In the last case libnghttp2 sends no DATA frame for an empty payload
without END_STREAM; only the item goes and the trailers come. `Resets` is what
happens to a stream behind a frame that is out: `_frame_sent` submits the reset
that is due, and HEADERS open the stream anew even when its reset is queued.
`DeferredResetLosesNothing` is stated on the RST_STREAM frames that a drive
queues, so that it does not depend on how the code keeps a deferred reset.

The engine takes control frames in the order of its queues; the model takes
them in any order, which is only more behaviours. Left out: the peer's limit on
concurrent streams and pushes (both in `StreamLifecycle`), SETTINGS that change
windows of open streams.

### InboundData

A DATA frame is a header (`BeginFrame`), fragments (`DataChunk`), padding and
an end (`EndFrame`). `Waiting` marks the points where a `receive_data()` call
may have ended and the application may act, that is everywhere but between the
last fragment and the end of its frame. `credit` is libnghttp2's count of used
connection window, split by stream so that conservation can be stated per
stream. Both settings of `auto_window_update` are initial states. A frame
that does not fit the windows ends the connection and is not modelled further.

### Lifecycle

A call is `Begin` (its conversion starts; nothing is checked) and then either
`Reject` or the action of the call, in which the guards are evaluated: the code
checks state after conversion (`_require_active`, line 1421). Calls nest up to
`MaxDepth`. Drives are single steps here: their callbacks run no user code
(`send_data` copies subclasses of bytes for that reason, line 724).

The graceful shutdown of a server has two GOAWAYs. `SendShutdownNotice` queues
the first, a notice: when it is written the binding is closing (`_frame_sent`,
line 2672), but libnghttp2 goes on reading, also without open streams, until
`SendGoaway` or `TerminateConnection` queues a GOAWAY that counts (`goaway`). A
notice that could only follow such a GOAWAY is skipped by libnghttp2. The code
refuses a notice to clients; the module has no roles and lets any connection send
one, which is only more behaviours.

`lost` records that a drive raised: the output it had serialized is in no
return value and cannot be made again. `NothingAfterClosed` holds the connection
to silence from then on, as it does behind a closure.

### StreamLifecycle

libnghttp2 accepts a frame when it is submitted and may find in the next drive
that it cannot be sent: the header block is too large, the peer sent GOAWAY or
switched push off, the stream is gone. `Outcomes` says which of these can
happen to a frame in a state; `NotSent` is `_frame_not_sent` with what the
engine does behind it. A failed request or promise closes its stream within the
same native call; any other failed frame makes the binding reset the stream. The
codes the binding ignores (stream closed or closing, session closing) are the
outcome "dropped". Requests wait in a queue of their own for the peer's limit
on streams. DATA is left out; it is in `OutboundBody`.

### HeaderBlocks

`BeginBlock`, `Header` and `EndBlock` are the three callbacks a block passes
through; between any two of them a `receive_data()` call may end. A field is
its kind (interim status, final status, other) and its size. `fields` is a
history variable: everything the peer sent in the block, whether or not it was
delivered. An invalid field resets the stream and the rest of the block is
decoded in silence, so `_current_headers` holds the remains of a block that
never ends. Which blocks a stream may receive is checked by libnghttp2 and
modelled in `Valid`. In a promised block the stream that is reset is the
promised one, and the parent goes on (`RejectHeader`). Fields of a stream that
was closed in the middle of its block are no longer delivered, so they count
towards no limit (`Delivered`). Trailers may be empty; every other block has a
field.

### OutputBuffer

`Reserve` is `_reserve_output` with its three branches; the callbacks that use
it, `CollectOutput` and `SendBody`, pass any length. The history variables
count what libnghttp2 was told is taken, what growing the buffer copied, and
whether a result left the range of `Py_ssize_t`. The threshold for doubling is
the code's, a quarter of the largest `size_t`. Initial states and steps are called
`BufferInit` and `BufferNext`, and those of `HeaderSnapshot` `SnapshotInit` and
`SnapshotNext`, so that `NativeBoundaryProofs` can extend both and `InboundData`.

### HeaderSnapshot and IntegerArguments

The caller owns `PairCount` pair objects of every kind the code tells apart:
exact tuples and `NeverIndexedHeader`s, lists, custom sequences, things that are
no pair. `Begin` .. `Normalized` is `_normalize_headers`, one field a step, with
its fast path for built-in collections (`FastPath`) and the choice between
keeping the caller's pair and freezing it (`Entry`). `Allocate`, `Build` and
`Submit` are `_make_headers` and the native submit. `send_trailers` ends in
`QueueTrailers`, and `ReadTrailers` starts the build for them inside the read
callback. `Mutate`, `EndBody` and `CloseConnection` are the caller's code: it
runs between calls and wherever the conversion enters it (`CallerRuns`): in a
producer, in the unpacking of a custom pair, in its release. Every allocation
and every entry into the caller's code may raise. `HeldBytes` is what a
reference of the snapshot keeps alive; a pointer is safe as long as its bytes
are among them. `arrays` counts the native arrays allocated and not freed, so
that a path that forgets one (a field refused when others are already written,
a check that fails, a submit that fails) shows in `ArrayFreed`.

Name and value of a field are one object, since the code treats them alike.
What a nested call does to another snapshot is not combined with this one: the
snapshots are local to their calls.

`IntegerArguments` gives each converter its tests and its casts, with the
widths of the C types as constants. The casts wrap around, so that a test in
the wrong place shows. It assumes that a `size_t` holds every positive
`long long` (`Widths`): on 32-bit platforms the cast of `_nonnegative_size`
(line 1877) drops bits before they are compared, and a `long long` above
`SIZE_MAX` is not refused. The project builds no wheels for 32-bit Windows
(`pyproject.toml`, `skip`), and the model does not cover such platforms.

### ClientDriver

`Get` is the coroutine: `Start` sends the request, then `Received`,
`ProcessEvent`s, `Send`, `Drained` and `ProcessEvent`s again are one turn of the
loop. The `Connection` is what `Lifecycle` and `StreamLifecycle` describe, as
far as one stream and its events go, with the receive window: half a window of
consumed bytes queues a WINDOW_UPDATE. The server answers as it likes, held up
by credit; its frames are taken while `get()` is in `read()`, so `MaxBatch`
frames may be returned by one read. It may reset, refuse or malform the
response, send GOAWAY, break the protocol or close the transport.

`CompletionKept` fails, and `client_completion` shows how: `complete` is a local
of each call of `process_response_events()`. When the response is complete
behind the input and `ConnectionClosed` comes behind the output (a GOAWAY in
the same read, with an acknowledgement still to be written), the second call
raises for a response that is complete. The finding in PROJECT.json quotes what
the example and the guide say of it.

### ServerDriver

`Serve` is `handle_connection()`: `Send`, `Drained`, events, `Received`, events.
`ProcessEvent` and `SendResponse` are `process_request_events()` and
`send_response()`. The client sends its requests in pieces, ends them with DATA
or trailers, resets or breaks them, grants room for response bodies late, sends
PING and GOAWAY, or breaks the protocol. A request with method CONNECT has no
`:path`, and `send_response()` raises `KeyError` for it (outcome "no path"),
which ends the whole connection. `Methods` are the methods the client uses. A
ready stream whose request was forgotten is skipped, as in the code.

`RequestAnswered` says that every complete request is answered. With CONNECT it
fails (`server_connect`): the request is complete, nothing else went wrong, and
neither it nor the complete requests of other streams are answered. As long as
no request of the connection has that method it holds (`SupportedAnswered`). The
guide promises 405 for methods that are not supported (`docs/site/guides/server.md`,
lines 11 and 12), and the finding in PROJECT.json quotes it.

## Runs

| Run | Instance | Shows |
| --- | --- | --- |
| `body_queue` | 2 streams, 5 bytes, frames to 2, compaction at 2 | counters and total exact, order, release, completeness tests, refinement |
| `outbound_client` | 1 client stream, limits 1, 3, none | wakeups, END_STREAM, limit, refinement, ended bodies are sent |
| `outbound_server` | 2 server streams, 1 byte each, limit 2 | state kept exactly as long as the stream, deferred resets |
| `inbound_data` | 2 streams, window 3, 3 frames | credit conserved, fragments fit, nothing lost, credit is always returned |
| `lifecycle` | calls nested twice, 4 frames, 2 streams | end of the connection and its reason, re-entrancy, termination ends |
| `stream_lifecycle` | 1 request, 1 push, client or server | failures reported once, nothing sent behind one, every failure ends its stream |
| `header_blocks` | 2 streams, 3 blocks, 2 fields and 5 octets at most | events hold their own block, limits exact, order of messages |
| `native_boundary` | 2 pairs of every kind, 2 fields, 4 texts; integers of -20..20 over small widths; an output buffer with integers of 6 bits, every length and limit | pointers valid, fields submitted as given, no integer truncated; no overflow, no byte outside, linear growth |
| `client_driver` | window 4, 5 bytes, 4 frames a read | responses whole, `get()` ends |
| `client_completion` | the same | violation: a completed response is lost to `ConnectionClosed` |
| `server_driver` | 2 streams, GET, HEAD and CONNECT, 3 frames a read | orderly end, requests kept as long as they live, complete requests answered as long as none is CONNECT |
| `server_connect` | the same | violation: a complete CONNECT request is not answered and ends the connection |

`CHECK_DEADLOCK FALSE` is set everywhere: a connection may rest, and a failed
or closed one has no further step.

### Bounds

* `MaxBytes`, `MaxFrames`, `MaxStreams` bound counters that only grow. Five
  bytes with frames to 2 and compaction at 2 give chunks split over frames,
  frames over chunks, and both outcomes of each compaction test. In the code
  compaction starts at 32 slots; the proofs hold for every threshold.
* Frame header and control frames are 1 or 2 octets instead of 9 and more. The
  limits 1 and 3 then stop in front of a header, inside a frame and behind one,
  which are the cases of `_read_body` and `_collect_output`.
* Two streams are needed wherever one stream's closure could touch another's
  state; the streams are otherwise independent.
* A window of 3 fits a frame with padding and one more byte, so that the
  window can be full, and three frames allow one to be cut off, one to follow
  and one of the other stream.
* Nesting of two calls is one call overtaken by another; deeper nesting
  repeats it.
* One request and one push on it are the only streams whose frames act on each
  other's (a promise needs its request). Each of the six kinds of frame can be
  queued, fail and be dropped.
* Three blocks are one cut off, one that could inherit from it and one more of
  the message. A block may hold one field more than allowed; sizes 1 and 2 with
  an overhead of 1 reach the size limit of 5 exactly and step over it.
* Six-bit integers, with a capacity of at least 4, reach the capacities beyond
  which doubling stops, within three growths.

* Two pairs give a pair that appears twice in a call and two that differ; a
  third text beyond those of the pairs is what a mutation or a custom pair
  yields, a fourth tells it from a second one.
* A body one byte longer than the window needs credit; three frames in a read
  (headers that end the response, SETTINGS, GOAWAY) are the shortest way to
  `client_completion`; for the server they are a request, its end and its reset.
* Two request streams with credit for their responses granted one at a time
  let one response overtake the other.

### Fairness

* `OutboundBody`: the caller calls `data_to_send()` again and again and each
  call returns (weak fairness of `BeginDrive` and of the send loop), as
  `docs/site/guides/transport.md` asks; the peer grants credit (strong, because
  it can do so only between drives). Without credit nothing can be promised.
* `InboundData`: the peer completes frames, the application consumes what it
  was given, queued resets are sent.
* `Lifecycle`: every begun call returns, and unlimited `data_to_send()` calls
  keep being made (strong, as other calls may begin in between).
* `StreamLifecycle`: output is driven, and nothing else; a failure must end its
  stream without any help of the peer.
* `ClientDriver`: the coroutine is scheduled, and a server that has begun goes
  on with its response whenever credit lets it (strong, since it acts only while
  the client reads). Closing the transport is no part of it: `get()` must end
  because credit is returned, not because a server gives up.
* `ServerDriver`: the coroutine is scheduled, and the client grants the room its
  responses need (strong, for the same reason). It need not do anything else.

## Proofs

`BodyQueueProofs` proves, for every number of streams, every threshold and
frame size:

* `TypeCorrect`, `NoByteLost` (`QueueHoldsUnsent` and `QueuedExact`), `CountersTell`
  (`CountersExact`), `FramesFilled` (`FrameAsPromised`), `ChunksReleased`
  (`SentReleased`);
* `Implementation`: `BodyQueue` implements `BodyDelivery`.

The invariant `IInv` adds to `TypeOK` and the properties that a frame under
construction is owed no more bytes than are queued (`ReadInv`) and how the
history phase follows `ended` and the map of bodies (`PhaseInv`). Neither
`NoShortFrame` nor `EofAgrees` is inductive without `ReadInv`: in the middle of
the loop they say nothing. The argument is local to one queue: lemmas say what
one `Put`, `CopyStep` and `Reclaim` do to the interval a queue holds; the
actions follow from them.

The total of the connection is a sum over its open bodies, and a sum over a set
is defined by recursion, which the provers cannot unfold for every set.
`TotalExact` therefore counts: `Unsent` is the set of unsent bytes, each a stream
and a position, and the total is its cardinality. `send_data()` adds an interval of new
bytes to it, a copy takes one away, a closure takes those of one stream
(`CountBytes`, `AddSet`, `TakeSet`, `SplitBytes`, `OtherBytes`), so that the theorems of
the library on finite sets carry the induction. `TotalInv` is `TotalExact` and that
the set is finite.

`NativeBoundaryProofs` proves of `InboundData`, for every set of streams, window and number of
frames, all safety properties of `InboundData`: `TypeCorrect`, `Credit`
(`CreditConserved`, for the windows of the connection and of each stream),
`FragmentFits` (`ChunkFits`) and `EverythingPublished` (`NothingLost`). They are not inductive by themselves, because they do not say
which payload may be left behind by a frame that was cut off. The invariant adds
four parts:

* `PayloadReady`: a frame that is still delivered has its payload, with room;
* `IgnoredIsOver`: an ignored frame's stream is being reset or closed;
* `LeftBehind`: bytes handed over and not published are of the frame being
  delivered or of a stream that is on its way out, so that `_begin_frame` may
  discard them;
* `WindowCovers`: a stream whose reset is queued still has window charged for
  all that can be consumed, so that consumption never returns more than was used.

There is one lemma per action.

The same module proves of `OutputBuffer`, for every width of integers,
minimal capacity and frame header: `SizesInRange` (`SizesOK`), `BytesInBuffer` (`OutputSafe`: no overflow, every
write inside the buffer, accepted bytes and limit exact) and `Linear`
(`GrowthLinear`). The conjunction of these properties is inductive. `DoubledInRange` and `GrownSuffices` carry the arithmetic: below a
quarter of the largest `size_t` the doubled capacity fits `Py_ssize_t`, and a
doubled buffer is at least as large as all its predecessors together, which
pays for the copies.

Of `HeaderSnapshot` it proves, for every number of pairs, fields and texts,
`BorrowsAreSafe` (`BorrowSafe`) and `GivenIsSubmitted` (`SubmitsGiven`). Neither
is inductive: that a pointer written three fields ago is still valid depends on
what the snapshot holds in that place, and for trailers on what `send_trailers`
put there two calls earlier. `SnapshotInv` says of each entry what the code's
choice of representation is for: an entry that was unpacked is plain (`Records`,
`Borrows`), a plain entry holds one bytes object that never changes, and queued
trailers hold nothing but exact bytes (`Quiet`). `PlainHolds` and the lemmas
behind it state what a plain entry keeps; then there is one lemma per action.
That the native array is freed once is an induction of its own (`ArrayStep`): the
number of arrays is 1 between the allocation and the last of the ways out, and
0 otherwise.

Of `IntegerArguments` it proves `ConversionsExact` (`IntegersExact`) for integers of any size and all
widths that satisfy `Widths`, the real ones of 64-bit platforms among them.

`OutboundBodyProofs` proves every safety property of `OutboundBody`, for clients
and servers, every set of streams, limit, frame size and window: `Wakeups`
(`NoLostWakeup`), `EndOnce` (`EndsOnceAfterBody`), `Limited` (`LimitRespected`),
`StateIsKept` (`StateFollowsStream`), `ResetsCome` (`DeferredResetComes`),
`ResetsLoseNothing` (`DeferredResetLosesNothing`) and `Implementation`
(`ImplementsDelivery`). The properties speak of a stream at rest or of a
frame that was sent; in between, what they say hangs on where the frames of
the stream are. The invariant therefore follows a stream through them:

* `FreshInv`, `HeadersInv`: before its HEADERS there is nothing of a stream; there is
  one HEADERS frame, queued or being written, and the DATA item starts behind it;
* `KeptInv`: a body lives from the call that hands it over until the stream
  closes, so that every item and every HEADERS that a body follows finds it;
* `ItemInv`, `WakeInv`: which items are asleep, and that the binding knows (`WakeInv`
  is the wakeup property; it needs the others to know that an item that is
  read has a body);
* `EndsInv`, `AheadInv`: one END_STREAM for each stream, and a message with no
  body left to read has it ahead or behind. When `reset_stream()`
  accepts a deferred reset for such a message, `AheadInv` is why the END_STREAM
  it waits for still comes;
* `BodyInv`, `OutputInv`, `RoleInv`: the counters of a body, the remaining output,
  and that only a client's streams wait to be opened.

There is one lemma per action, with one step for each part. The refinement maps
each step to a step of `BodyDelivery` for one stream and to stuttering for the
others; the lemmas `AcceptsBytes`, `SendsBytes`, `OneEnd`, `OpensBody`,
`LeavesBodies` and `LosesBodies` are its cases.

`LifecycleProofs` proves every safety property of `Lifecycle`, for every depth of
nested calls and every number of frames: `Reports` (`DoneIsReported`), `Reason`
(`TerminationReason`), `FreedIsLeft` (`NoStaleSession`) and `ClosedIsLast`
(`NothingAfterClosed`). The first two need to know where the final GOAWAY is:
`TermInv` says that it is queued once, behind every other GOAWAY, and that
nothing behind it is ever written, which makes it the last frame to give a
reason. `ClosedInv` ties the flags to the engine: a GOAWAY exchanged means
closing, a session with nothing more to do means closed, and a connection that
is closed without a failure has nothing to write. `FailedInv` says that a
freed session belongs to a failed object, whatever calls surround the failing one,
and so does lost output.

`StreamLifecycleProofs` proves, for every set of requests and pushes and every
limit on open streams, `Reported` (`FailureReported`) and `Stopped`
(`NothingAfterFailure`). `StreamOK` says of each stream that a failure
resets or closes it at once, which stops the frames behind, since only frames of
open streams are sent. Promises are prepared whatever the state of their own
stream; they need `QueueInv`: a promise is the first frame of its stream, so
nothing of the stream can have failed. `WaitInv` says that a request waits once,
and only until its stream is opened. The lemmas on the queue (`QueueGrows`,
`QueueAdvances`, `RequestLeaves`) are independent of the actions; preparing a
frame has one lemma for each outcome.

`HeaderBlocksProofs` proves, for every set of streams, field sizes and limits,
`Ordered` (`MessageOrder`), `Intact` (`BlockIntact`) and `Limited` (`LimitsExact`). `BlockInv` says that
`_current_headers` is the field list of the open block unless the block is
ignored, and that an ignored block's stream is no longer open, so that it is never
published with the remains of another. `StreamInv` relates the events of a
stream to what libnghttp2 remembers of it. `SizeInv` says that `_current_headers_size`
is the size of the block that is collected; the size of a list is again a number of
elements, of its `Octets`, and a field adds as many as it is long (`CountField`,
`SizeGrows`).

`ServerDriverProofs` proves, for every finite set of streams and every
number of frames in a read, `Orderly` (`OrderlyEnd`) and `Live` (`RequestsLive`). What
the loop keeps of a stream lags behind the connection by the events it has not
looked at, and both properties speak only of the moments when there are none. The
invariant says what the events hold back:

* `ClosureInv`: the closure of a stream the loop still keeps is among them, behind
  everything else of that stream, so a request never comes back;
* `RequestInv`: so are the beginning and the end of a request the loop does not
  know, the end behind the beginning;
* `KnownInv`, `ResponseInv`: a ready request was received to its end, and a stream
  that has its response has no more events, so it is answered once;
* `ClosedInv`: nothing comes behind ConnectionClosed, and nothing is left to write.

`ClientDriverProofs` proves `Intact` (`ResponseIntact`), for every window, length of
the body and number of frames in a read. `BodyInv` counts through the pending
events: behind the last of them `body` is what the server sent, and at the closure
without an error it is so for good. `CompleteInv` carries that to the flags
`found` and `complete` that end the loop.

Assumptions are those of the modules, which TLC evaluates in every run of the
module. Except for `Widths`, which orders the C types, they only say that sizes
are natural numbers, that positive ones (windows, limits, frame sizes) are
positive, and that the markers for "no stream", "no block" and "no frame" are
not among the streams or frames (`NoFrameAssumption`).

Every safety and refinement property of the passing runs is proved. Only
model-checked:

* all liveness properties (`EndedBodyIsSent`, `CreditReturns`, `TerminationEnds`,
  `FailureEnds`, `GetEnds`, `SupportedAnswered`): the provers do not reason about
  fairness;
* `CompletionKept` and `RequestAnswered`, which the code violates.

## Not modelled

* libnghttp2 itself: wire format, HPACK, stream states and scheduling appear
  only as far as the callbacks depend on them.
* The checks of the h2c upgrade's arguments, and SETTINGS and window changes of
  open streams.
* The release of body bytes inside a callback: `send_data` copies every bytes
  object that is not exactly `bytes` (line 731), without a condition a model
  could get wrong. For header fields the same rule has conditions, and
  `HeaderSnapshot` models them.
* Settings snapshots, priorities, ALTSVC, ORIGIN, events, exceptions, enums and
  type stubs: translation without state.
* The examples other than the asyncio ones: scripts that drive two connections
  in memory in one fixed order have one behaviour each. Of the asyncio ones the
  TLS handshake and the listening socket are left out.
* Benchmarks, packaging, documentation tools.

## Plan

Modelled and checked so far: every component with state of its own. Proved:
every safety property of the modules.
Next, in this order:

1. `Exchange`: two endpoints built from the promise of `BodyDelivery` and from
   `InboundData`, joined by a channel with windows; a body arrives as it was
   sent, windows of both ends add up, the exchange ends.
2. `InboundData` with changes of the local window (`set_local_window_size`,
   SETTINGS) while bytes are unconsumed.
