------------------------------ MODULE BodyQueue ------------------------------
(***************************************************************************)
(* The outbound body queues of a Connection: one _BodySource per stream    *)
(* and the byte total of the connection.                                   *)
(*                                                                         *)
(* Bytes are abstracted to their position: a chunk [lo, hi) stands for the *)
(* bytes send_data() accepted as number lo to hi - 1.  The copy loop of    *)
(* _copy_body is modelled iteration by iteration, because that is where a  *)
(* chunk is split between frames, its slot released and the list compacted.*)
(* Python list indices start at 0: chunks[head] there is chunks[head + 1]  *)
(* here.                                                                   *)
(***************************************************************************)
EXTENDS Integers, Sequences, FiniteSets

CONSTANTS
    Streams,    \* stream identifiers that may carry a body
    None,       \* an emptied slot; also "no stream is being read"
    CompactAt,  \* dead slots before the list is compacted (32 in the code)
    MaxFrame,   \* largest DATA payload, _max_send_data_frame_size
    MaxBytes    \* bound: bytes the application offers to one stream

ASSUME BodyQueueAssumption ==
    /\ None \notin Streams
    /\ CompactAt \in Nat \ {0}
    /\ MaxFrame \in Nat \ {0}
    /\ MaxBytes \in Nat

VARIABLES
    active,     \* the connection still accepts work
    bodies,     \* keys of the _bodies dictionary
    body,       \* the _BodySource of each stream
    total,      \* _queued_body_size
    reading,    \* the stream _read_body is serving, or None
    noCopy,     \* the frame goes out whole, through _send_body
    wanted,     \* "length" of _copy_body
    copied,     \* "copied" of _copy_body
    eof,        \* the end-of-body flag computed before a NO_COPY frame
    accepted,   \* history: bytes accepted from the application
    sent,       \* history: bytes copied into frames
    phase       \* history: what became of the body

read == <<reading, noCopy, wanted, copied, eof>>
vars == <<active, bodies, body, total, read, accepted, sent, phase>>

Chunk == [lo : Nat, hi : Nat]
BodySource == [chunks : Seq(Chunk \cup {None}), head : Nat, offset : Nat,
               queued : Nat, ended : BOOLEAN]

Source(chunks, head, offset, queued, ended) ==
    [chunks |-> chunks, head |-> head, offset |-> offset,
     queued |-> queued, ended |-> ended]

EmptyBody == Source(<<>>, 0, 0, 0, FALSE)

Least(a, b) == IF a <= b THEN a ELSE b
Drained(b) == b.head = Len(b.chunks)
\* Mutant: an open body counts as complete when it runs empty.
CompleteUnended(b) == Drained(b)

Complete(b) == b.ended /\ Drained(b)
-----------------------------------------------------------------------------
(* Operations on one queue.                                                *)

\* Mutant: accepted bytes are not counted.
PutUncounted(b, from, n, last) ==
    Source(IF n = 0 THEN b.chunks
                    ELSE Append(b.chunks, [lo |-> from, hi |-> from + n]),
           b.head, b.offset, b.queued, last)

\* send_data: an empty chunk is not stored.
Put(b, from, n, last) ==
    Source(IF n = 0 THEN b.chunks
                    ELSE Append(b.chunks, [lo |-> from, hi |-> from + n]),
           b.head, b.offset, b.queued + n, last)

\* Mutant: the rest of the frame does not bound the copy.
TakeWholeChunk(b, length) ==
    LET chunk == b.chunks[b.head + 1]
    IN  chunk.hi - chunk.lo - b.offset

\* The bytes one iteration of the copy loop takes from the first live chunk.
Take(b, length) ==
    LET chunk == b.chunks[b.head + 1]
    IN  Least(chunk.hi - chunk.lo - b.offset, length)

\* Mutant: a used-up chunk stays in its slot.
CopyStepKeepsSlot(b, take) ==
    LET chunk == b.chunks[b.head + 1]
        done == b.offset + take = chunk.hi - chunk.lo
    IN  Source(b.chunks, b.head + (IF done THEN 1 ELSE 0),
               IF done THEN 0 ELSE b.offset + take, b.queued - take, b.ended)

\* One iteration of the copy loop: a used-up chunk is released.
CopyStep(b, take) ==
    LET chunk == b.chunks[b.head + 1]
    IN  IF b.offset + take = chunk.hi - chunk.lo
        THEN Source([b.chunks EXCEPT ![b.head + 1] = None],
                    b.head + 1, 0, b.queued - take, b.ended)
        ELSE Source(b.chunks, b.head, b.offset + take, b.queued - take, b.ended)

\* Mutant: head still points behind the removed slots.
ReclaimKeepsHead(b) ==
    IF Drained(b)
    THEN Source(<<>>, 0, b.offset, b.queued, b.ended)
    ELSE IF b.head >= CompactAt /\ 2 * b.head >= Len(b.chunks)
         THEN Source(SubSeq(b.chunks, b.head + 1, Len(b.chunks)),
                     b.head, b.offset, b.queued, b.ended)
         ELSE b

\* After the loop: reclaim dead slots.
Reclaim(b) ==
    IF Drained(b)
    THEN Source(<<>>, 0, b.offset, b.queued, b.ended)
    ELSE IF b.head >= CompactAt /\ 2 * b.head >= Len(b.chunks)
         THEN Source(SubSeq(b.chunks, b.head + 1, Len(b.chunks)),
                     0, b.offset, b.queued, b.ended)
         ELSE b

\* _data_frame_length: never longer than the queue, never zero.
FrameLength(b) == IF b.queued = 0 THEN 1 ELSE Least(MaxFrame, b.queued)
-----------------------------------------------------------------------------
Init ==
    /\ active = TRUE
    /\ bodies = {}
    /\ body = [s \in Streams |-> EmptyBody]
    /\ total = 0
    /\ reading = None
    /\ noCopy = FALSE
    /\ wanted = 0
    /\ copied = 0
    /\ eof = FALSE
    /\ accepted = [s \in Streams |-> 0]
    /\ sent = [s \in Streams |-> 0]
    /\ phase = [s \in Streams |-> "none"]

\* send_request() or send_response() with a body: a stream gets its queue once.
NewBody(s) ==
    /\ active
    /\ reading = None
    /\ phase[s] = "none"
    /\ bodies' = bodies \cup {s}
    /\ body' = [body EXCEPT ![s] = EmptyBody]
    /\ phase' = [phase EXCEPT ![s] = "open"]
    /\ UNCHANGED <<active, total, read, accepted, sent>>

\* send_data(s, n bytes, end_stream=last).
SendData(s, n, last) ==
    /\ active
    /\ reading = None
    /\ s \in bodies
    /\ ~body[s].ended
    /\ body' = [body EXCEPT ![s] = Put(@, accepted[s], n, last)]
    /\ total' = total + n
    /\ accepted' = [accepted EXCEPT ![s] = @ + n]
    /\ phase' = [phase EXCEPT ![s] = IF last THEN "ended" ELSE @]
    /\ UNCHANGED <<active, bodies, read, sent>>

\* _read_body up to the copy.  libnghttp2 asks for at most the length
\* _data_frame_length returned, and asks nothing after the end of the body.
\* An empty, unfinished queue sends no frame (it defers); otherwise a frame
\* that fits the output limit is copied whole, another through the engine's
\* own buffer.
ReadBody(s, length, whole) ==
    /\ reading = None
    /\ s \in bodies
    /\ phase[s] # "finished"
    /\ length <= FrameLength(body[s])
    /\ whole => body[s].queued > 0 \/ body[s].ended
    /\ reading' = s
    /\ noCopy' = whole
    /\ wanted' = IF whole THEN Least(length, body[s].queued) ELSE length
    /\ copied' = 0
    /\ eof' = (whole /\ body[s].ended /\ wanted' = body[s].queued)
    /\ UNCHANGED <<active, bodies, body, total, accepted, sent, phase>>

\* The guard of the while loop of _copy_body.
Copying == ~Drained(body[reading]) /\ copied < wanted

\* One iteration of that loop.
CopyChunk ==
    /\ reading # None
    /\ Copying
    /\ LET take == Take(body[reading], wanted - copied)
       IN  /\ body' = [body EXCEPT ![reading] = CopyStep(@, take)]
           /\ total' = total - take
           /\ copied' = copied + take
           /\ sent' = [sent EXCEPT ![reading] = @ + take]
    /\ UNCHANGED <<active, bodies, reading, noCopy, wanted, eof, accepted, phase>>

\* _discard_pending_state, from _fail, terminate_connection or the terminal
\* state: every queue is dropped and the connection takes no more work.
Discard ==
    /\ active' = FALSE
    /\ bodies' = {}
    /\ total' = 0
    /\ reading' = None
    /\ phase' = [s \in Streams |-> IF phase[s] = "finished" THEN "finished" ELSE "cut"]
    /\ UNCHANGED <<body, noCopy, wanted, copied, eof, accepted, sent>>

\* The end of _copy_body and of its caller.  A NO_COPY frame whose queue ran
\* short is an InternalError, and the connection fails.
CopyEnd ==
    /\ reading # None
    /\ ~Copying
    /\ IF noCopy /\ copied # wanted
       THEN Discard
       ELSE LET b == Reclaim(body[reading])
            IN  /\ body' = [body EXCEPT ![reading] = b]
                /\ phase' = [phase EXCEPT ![reading] =
                       IF (noCopy /\ eof) \/ (~noCopy /\ Complete(b))
                       THEN "finished" ELSE @]
                /\ reading' = None
                /\ UNCHANGED <<active, bodies, total, noCopy, wanted, copied,
                               eof, accepted, sent>>

\* Mutant: the bytes of a closed stream stay in the total.
StreamClosedKeepsTotal(s) ==
    /\ reading = None
    /\ s \in bodies
    /\ bodies' = bodies \ {s}
    /\ phase' = [phase EXCEPT ![s] = IF @ = "finished" THEN @ ELSE "cut"]
    /\ UNCHANGED <<active, body, total, read, accepted, sent>>

\* _stream_closed: the queue leaves the map and the total.
StreamClosed(s) ==
    /\ reading = None
    /\ s \in bodies
    /\ bodies' = bodies \ {s}
    /\ total' = total - body[s].queued
    /\ phase' = [phase EXCEPT ![s] = IF @ = "finished" THEN @ ELSE "cut"]
    /\ UNCHANGED <<active, body, read, accepted, sent>>

\* The connection fails or is terminated, perhaps in the middle of a copy.
Stop == active /\ Discard

Next ==
    \/ \E s \in Streams :
        \/ NewBody(s)
        \/ \E n \in 0 .. MaxBytes - accepted[s], last \in BOOLEAN : SendData(s, n, last)
        \/ \E length \in 1 .. MaxFrame, whole \in BOOLEAN : ReadBody(s, length, whole)
        \/ StreamClosed(s)
    \/ CopyChunk
    \/ CopyEnd
    \/ Stop

Spec == Init /\ [][Next]_vars
-----------------------------------------------------------------------------
(* Properties.                                                             *)

\* Every variable stays within its type.
TypeOK ==
    /\ active \in BOOLEAN
    /\ bodies \in SUBSET Streams
    /\ body \in [Streams -> BodySource]
    /\ total \in Int
    /\ reading \in bodies \cup {None}
    /\ noCopy \in BOOLEAN
    /\ wanted \in Nat
    /\ copied \in Nat
    /\ eof \in BOOLEAN
    /\ accepted \in [Streams -> Nat]
    /\ sent \in [Streams -> Nat]
    /\ phase \in [Streams -> {"none", "open", "ended", "finished", "cut"}]

\* The live chunks of b hold the positions from .. to - 1, in order, each once.
Holds(b, from, to) ==
    /\ b.head <= Len(b.chunks)
    /\ \A i \in b.head + 1 .. Len(b.chunks) :
        /\ b.chunks[i] \in Chunk
        /\ b.chunks[i].lo < b.chunks[i].hi
        /\ b.chunks[i].hi <= to
        /\ i < Len(b.chunks) => b.chunks[i].hi = b.chunks[i + 1].lo
    /\ IF Drained(b)
       THEN from = to /\ b.offset = 0
       ELSE LET first == b.chunks[b.head + 1]
            IN  /\ first.lo + b.offset = from
                /\ from < first.hi
                /\ b.chunks[Len(b.chunks)].hi = to

\* At every step of the copy loop the queue holds exactly the bytes accepted
\* and not yet copied, in order: splitting a chunk between frames, releasing
\* slots and compacting the list never lose, repeat or reorder a byte.
QueueHoldsUnsent ==
    \A s \in bodies : Holds(body[s], sent[s], accepted[s])

\* queued_size, which sizes frames, decides completion and is what
\* queued_body_size() reports, is the number of bytes in the chunks.
QueuedExact ==
    \A s \in bodies : body[s].queued = accepted[s] - sent[s]

\* The bytes of the open bodies that are not sent yet: a stream and a position.
Unsent == UNION {{s} \X (sent[s] .. accepted[s] - 1) : s \in bodies}

\* The connection total is their number: closing a stream with unsent bytes and
\* dropping all state keep the two in step.
TotalExact == total = Cardinality(Unsent)

\* Both counters tell what is in the chunks, through every order of calls, frames
\* and closures.
CountersExact == QueuedExact /\ TotalExact

Released(b) == \A i \in 1 .. b.head : b.chunks[i] = None
FewDead(b) == b.head < CompactAt \/ 2 * b.head < Len(b.chunks)

\* Bytes handed to a frame are released at once, and outside the loop the dead
\* slots are few or fewer than half the list, so a long body neither keeps
\* sent chunks alive nor grows its list with them.
SentReleased ==
    \A s \in bodies :
        /\ Released(body[s])
        /\ reading # s => FewDead(body[s])

\* A frame libnghttp2 has already sized is always filled: _send_body never
\* finds fewer bytes than _read_body promised (its InternalError).
NoShortFrame ==
    reading # None /\ noCopy /\ ~Copying => copied = wanted

\* The two tests of _read_body for the last frame agree: the early one, by the
\* counter, which must be made before a NO_COPY frame takes its bytes, and the
\* late one, by the list.  EOF never comes with bytes still queued, and the
\* frame that empties an ended queue always carries it.
EofAgrees ==
    reading # None /\ noCopy /\ ~Copying => (eof <=> Complete(body[reading]))

\* A NO_COPY frame is what _read_body promised before a byte of it was copied:
\* as long as it said, and the last one if and only if it said so.
FrameAsPromised == NoShortFrame /\ EofAgrees

\* The queues implement the promise of BodyDelivery.
Delivery == INSTANCE BodyDelivery

ImplementsDelivery == Delivery!Spec
=============================================================================
