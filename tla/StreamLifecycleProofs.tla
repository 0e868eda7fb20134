------------------------ MODULE StreamLifecycleProofs ------------------------
(***************************************************************************)
(* Proofs about StreamLifecycle, for every set of streams and every limit  *)
(* on those that are open: the first failure of a stream is the error of   *)
(* its one StreamClosed, and nothing of the stream is sent behind it.      *)
(*                                                                         *)
(* Frames are prepared in the order of the queue, and a stream is reset    *)
(* as soon as a frame of it fails, which stops those behind.  A promise    *)
(* is the exception, since it is stopped by its parent only: it is the     *)
(* first frame of its stream.                                              *)
(***************************************************************************)
EXTENDS StreamLifecycle, SequenceTheorems, TLAPS

Frames == [kind : Kinds, stream : Streams]

\* The variables that are neither sequences nor the set of responses.
Typed ==
    /\ server \in BOOLEAN /\ goaway \in BOOLEAN /\ pushOff \in BOOLEAN
    /\ conn \in {"active", "terminating", "failed"}
    /\ errors \in [Streams -> Kinds \cup {None}]
    /\ responses \subseteq Streams
    /\ state \in [Streams -> States]
    /\ parent \in [Streams -> Requests \cup {None}]
    /\ canceled \subseteq Requests
    /\ sent \in [Streams -> SUBSET Kinds]
    /\ failed \in [Streams -> Kinds \cup {None}]
    /\ reported \in [Streams -> Seq(Kinds \cup {None})]

\* A frame in the queue is of a stream that exists or existed.  One that promises
\* a stream is of a stream that waits for it.
Queued(f) ==
    /\ f.kind # "request" /\ state[f.stream] \notin {"none", "waiting"}
    /\ f.kind = "promise" =>
        /\ f.stream \in Pushes /\ Live(f.stream)
        /\ failed[f.stream] = None /\ "promise" \notin sent[f.stream]

\* A promise is the first frame of its stream.
PromiseFirst(q) ==
    \A i \in 1 .. Len(q), j \in 1 .. Len(q) :
        q[i].kind = "promise" /\ j < i => q[j].stream # q[i].stream

QueueInv ==
    /\ queue \in Seq(Frames)
    /\ \A i \in 1 .. Len(queue) : Queued(queue[i])
    /\ PromiseFirst(queue)

\* Requests wait once each, until their streams are opened.
WaitInv ==
    /\ waiting \in Seq(Requests)
    /\ \A i \in 1 .. Len(waiting) : state[waiting[i]] = "waiting"
    /\ \A i, j \in 1 .. Len(waiting) : waiting[i] = waiting[j] => i = j

\* A stream with a failure is reset or closed, its error is kept until it is
\* closed, and it was not reported before.
StreamOK(s) ==
    /\ state[s] = "waiting" => s \in Requests
    /\ s \in responses => Live(s)
    /\ state[s] \in {"none", "waiting"} => sent[s] = {}
    /\ failed[s] # None => state[s] \in {"closing", "closed"}
    /\ conn = "active" /\ state[s] # "closed" => errors[s] = failed[s]
    /\ conn = "active" => reported[s] = IF state[s] = "closed" THEN <<failed[s]>> ELSE <<>>
    /\ errors[s] # None => conn = "active" /\ state[s] = "closing"

\* The inductive invariant.
IInv ==
    /\ Typed
    /\ QueueInv
    /\ WaitInv
    /\ \A s \in Streams : StreamOK(s)

\* It says what the runs check.
LEMMA InvImplies == ASSUME IInv PROVE FailureReported
<1>1. TypeOK
    BY DEF IInv, Typed, QueueInv, WaitInv, Frames, StreamOK, TypeOK
<1> QED BY <1>1 DEF IInv, StreamOK, FailureReported

\* It holds at the start.
LEMMA InitInv == Init => IInv
<1> SUFFICES ASSUME Init PROVE IInv
    OBVIOUS
<1>1. Typed
    BY EmptySeq DEF Init, Typed, States
<1>2. QueueInv
    BY EmptySeq DEF Init, QueueInv, PromiseFirst
<1>3. WaitInv
    BY EmptySeq DEF Init, WaitInv
<1>4. ASSUME NEW s \in Streams PROVE StreamOK(s)
    BY DEF Init, StreamOK
<1> QED BY <1>1, <1>2, <1>3, <1>4 DEF IInv
-----------------------------------------------------------------------------
(* Facts about the two queues.                                             *)

\* The queue stays.
LEMMA QueueStays ==
    ASSUME QueueInv, queue' = queue,
           \A f \in Frames : Queued(f) => Queued(f)'
    PROVE  QueueInv'
<1>1. \A i \in 1 .. Len(queue) : queue[i] \in Frames
    BY ElementOfSeq DEF QueueInv
<1>2. \A i \in 1 .. Len(queue) : Queued(queue[i])'
    BY <1>1 DEF QueueInv
<1> QED BY <1>2 DEF QueueInv, PromiseFirst, Queued

\* A frame is queued behind the others, q.
LEMMA QueueGrows ==
    ASSUME NEW q \in Seq(Frames), NEW g \in Frames, PromiseFirst(q),
           \A i \in 1 .. Len(q), f \in Frames : q[i] = f => Queued(f)',
           queue' = Append(q, g), Queued(g)',
           g.kind = "promise" => \A i \in 1 .. Len(q) : q[i].stream # g.stream
    PROVE  QueueInv'
<1>1. /\ queue' \in Seq(Frames) /\ Len(queue') = Len(q) + 1 /\ Len(q) \in Nat
      /\ \A i \in 1 .. Len(q) : queue'[i] = q[i]
      /\ queue'[Len(q) + 1] = g
    BY AppendProperties
<1>2. ASSUME NEW i \in 1 .. Len(queue') PROVE Queued(queue[i])'
    <2>1. CASE i \in 1 .. Len(q)
        BY <1>1, <2>1 DEF Queued
    <2>2. CASE i = Len(q) + 1
        BY <1>1, <2>2 DEF Queued
    <2> QED BY <1>1, <2>1, <2>2
<1>3. PromiseFirst(queue')
    BY <1>1 DEF PromiseFirst
<1> QED BY <1>1, <1>2, <1>3 DEF QueueInv, PromiseFirst

\* A frame is submitted.
LEMMA QueueAppends ==
    ASSUME QueueInv, NEW g \in Frames, queue' = Append(queue, g), Queued(g)',
           \A f \in Frames : Queued(f) => Queued(f)',
           g.kind = "promise" => \A i \in 1 .. Len(queue) : queue[i].stream # g.stream
    PROVE  QueueInv'
<1>1. queue \in Seq(Frames) /\ PromiseFirst(queue)
    BY DEF QueueInv
<1>2. \A i \in 1 .. Len(queue), f \in Frames : queue[i] = f => Queued(f)'
    BY DEF QueueInv
<1> QED BY <1>1, <1>2, QueueGrows

\* The first frame is of a stream with no promise behind it.
LEMMA QueueAdvances ==
    ASSUME QueueInv, queue # <<>>,
           \A f \in Frames : /\ Queued(f)
                             /\ f.kind = "promise" => f.stream # Head(queue).stream
                             => Queued(f)'
    PROVE  /\ Head(queue) \in Frames /\ Queued(Head(queue))
           /\ Tail(queue) \in Seq(Frames) /\ PromiseFirst(Tail(queue))
           /\ \A i \in 1 .. Len(Tail(queue)), g \in Frames : Tail(queue)[i] = g => Queued(g)'
<1> DEFINE q == Tail(queue)
<1>1. /\ q \in Seq(Frames) /\ Len(q) = Len(queue) - 1 /\ Len(queue) \in Nat \ {0}
      /\ \A i \in 1 .. Len(q) : q[i] = queue[i + 1]
      /\ Head(queue) = queue[1] /\ Head(queue) \in Frames
    BY HeadTailProperties, EmptySeq DEF QueueInv
<1> HIDE DEF q
<1>2. Queued(Head(queue))
    BY <1>1 DEF QueueInv
<1>3. PromiseFirst(q)
    BY <1>1 DEF QueueInv, PromiseFirst
<1>4. ASSUME NEW i \in 1 .. Len(q), NEW f \in Frames, q[i] = f PROVE Queued(f)'
    <2>1. f = queue[i + 1] /\ i + 1 \in 1 .. Len(queue)
        BY <1>1, <1>4
    <2>2. f.kind = "promise" => f.stream # Head(queue).stream
        BY <1>1, <2>1 DEF QueueInv, PromiseFirst
    <2>3. Queued(f)
        BY <2>1 DEF QueueInv
    <2> QED BY <2>1, <2>2, <2>3
<1> QED BY <1>1, <1>2, <1>3, <1>4 DEF q

\* A frame leaves the queue.
LEMMA QueueShrinks ==
    ASSUME QueueInv, queue # <<>>, queue' = Tail(queue),
           \A f \in Frames : /\ Queued(f)
                             /\ f.kind = "promise" => f.stream # Head(queue).stream
                             => Queued(f)'
    PROVE  QueueInv'
<1>1. /\ Tail(queue) \in Seq(Frames) /\ PromiseFirst(Tail(queue))
      /\ \A i \in 1 .. Len(Tail(queue)), g \in Frames : Tail(queue)[i] = g => Queued(g)'
    BY QueueAdvances
<1>2. \A i \in 1 .. Len(queue') : Queued(queue[i])'
    BY <1>1, ElementOfSeq DEF Queued
<1> QED BY <1>1, <1>2 DEF QueueInv, PromiseFirst

\* A request leaves the queue of those that wait.
LEMMA RequestLeaves ==
    ASSUME WaitInv, waiting # <<>>, waiting' = Tail(waiting),
           \A s \in Streams \ {Head(waiting)} : state'[s] = state[s]
    PROVE  WaitInv'
<1>1. /\ waiting' \in Seq(Requests) /\ Len(waiting') = Len(waiting) - 1
      /\ Len(waiting) \in Nat \ {0}
      /\ \A i \in 1 .. Len(waiting') : waiting'[i] = waiting[i + 1]
      /\ Head(waiting) = waiting[1]
    BY HeadTailProperties, EmptySeq DEF WaitInv
<1>2. ASSUME NEW i \in 1 .. Len(waiting') PROVE state'[waiting'[i]] = "waiting"
    <2>1. i + 1 \in 1 .. Len(waiting) /\ 1 \in 1 .. Len(waiting) /\ i + 1 # 1
        BY <1>1
    <2>2. waiting[i + 1] # waiting[1] /\ waiting[i + 1] \in Requests
        BY <2>1, ElementOfSeq DEF WaitInv
    <2> QED BY <1>1, <2>1, <2>2 DEF WaitInv, Streams
<1>3. \A i, j \in 1 .. Len(waiting') : waiting'[i] = waiting'[j] => i = j
    BY <1>1 DEF WaitInv
<1> QED BY <1>1, <1>2, <1>3 DEF WaitInv

\* Those that wait stay.
LEMMA WaitStays ==
    ASSUME WaitInv, waiting' = waiting,
           \A s \in Streams : state[s] = "waiting" => state'[s] = "waiting"
    PROVE  WaitInv'
BY ElementOfSeq DEF WaitInv, Streams

\* A step that changes nothing keeps the invariant.
LEMMA StutterKeeps == ASSUME IInv, UNCHANGED vars PROVE IInv'
<1> USE DEF IInv, vars, binding, native, history
<1>1. Typed'
    BY DEF Typed
<1>2. QueueInv'
    <2>1. ASSUME NEW f \in Frames, Queued(f) PROVE Queued(f)'
        BY <2>1 DEF Queued, Live
    <2> QED BY <2>1, QueueStays
<1>3. WaitInv'
    BY WaitStays
<1>4. ASSUME NEW r \in Streams PROVE StreamOK(r)'
    BY DEF StreamOK, Live
<1> QED BY <1>1, <1>2, <1>3, <1>4
-----------------------------------------------------------------------------
(* Calls, and what the peer does.                                          *)

\* send_request() keeps the invariant: no stream exists yet.
LEMMA SendRequestKeeps ==
    ASSUME IInv, NEW s \in Requests, SendRequest(s) PROVE IInv'
<1> USE DEF IInv, SendRequest, binding, native, history
<1>0. s \in Streams /\ state[s] = "none"
    BY DEF Streams
<1>1. Typed'
    BY <1>0 DEF Typed, States
<1>2. QueueInv'
    <2>1. ASSUME NEW f \in Frames, Queued(f) PROVE Queued(f)'
        BY <1>0, <2>1 DEF Queued, Live, Typed, Frames
    <2> QED BY <2>1, QueueStays
<1>3. WaitInv'
    <2>1. /\ waiting' \in Seq(Requests) /\ Len(waiting') = Len(waiting) + 1
          /\ Len(waiting) \in Nat /\ waiting'[Len(waiting) + 1] = s
          /\ \A i \in 1 .. Len(waiting) : waiting'[i] = waiting[i] /\ waiting[i] \in Streams
        BY AppendProperties, ElementOfSeq DEF WaitInv, Streams
    <2>2. \A i \in 1 .. Len(waiting) : waiting[i] # s
        BY <1>0 DEF WaitInv
    <2>3. \A i \in 1 .. Len(waiting') : state'[waiting'[i]] = "waiting"
        BY <1>0, <2>1 DEF WaitInv, Typed
    <2> QED BY <2>1, <2>2, <2>3 DEF WaitInv
<1>4. ASSUME NEW r \in Streams PROVE StreamOK(r)'
    BY <1>0 DEF StreamOK, Live, Typed
<1> QED BY <1>1, <1>2, <1>3, <1>4

\* A call that submits a header frame of a stream that exists.
LEMMA SubmitKeeps ==
    ASSUME IInv, NEW s \in Streams, state[s] \notin {"none", "waiting"},
           NEW kind \in Kinds \ {"request", "promise"},
           queue' = Append(queue, Frame(kind, s)),
           responses' = responses \/ (responses' = responses \cup {s} /\ Live(s)),
           UNCHANGED <<server, conn, errors, state, parent, waiting, canceled, goaway,
                       pushOff, history>>
    PROVE  IInv'
<1> USE DEF IInv, history
<1>1. Typed'
    BY DEF Typed
<1>2. QueueInv'
    <2>1. ASSUME NEW f \in Frames, Queued(f) PROVE Queued(f)'
        BY <2>1 DEF Queued, Live
    <2>2. Frame(kind, s) \in Frames /\ Queued(Frame(kind, s))'
        BY DEF Frame, Frames, Queued
    <2> QED BY <2>1, <2>2, QueueAppends DEF Frame
<1>3. WaitInv'
    BY WaitStays
<1>4. ASSUME NEW r \in Streams PROVE StreamOK(r)'
    BY DEF StreamOK, Live
<1> QED BY <1>1, <1>2, <1>3, <1>4

\* send_push_promise() keeps it: the promise is the first frame of its stream.
LEMMA SendPushPromiseKeeps ==
    ASSUME IInv, NEW s \in Requests, NEW p \in Pushes, SendPushPromise(s, p) PROVE IInv'
<1> USE DEF IInv, SendPushPromise, binding, history
<1>0. p \in Streams /\ state[p] = "none" /\ state'[p] = "reserved"
    BY DEF Streams, Typed
<1>1. Typed'
    BY <1>0 DEF Typed, States
<1>2. QueueInv'
    <2>1. ASSUME NEW f \in Frames, Queued(f) PROVE Queued(f)'
        BY <1>0, <2>1 DEF Queued, Live, Typed, Frames
    <2>2. failed[p] = None /\ sent[p] = {}
        BY <1>0 DEF StreamOK
    <2>3. Frame("promise", p) \in Frames /\ Queued(Frame("promise", p))'
        BY <1>0, <2>2 DEF Frame, Frames, Queued, Live, Kinds
    <2>4. \A i \in 1 .. Len(queue) : queue[i].stream # p
        BY <1>0 DEF QueueInv, Queued
    <2> QED BY <2>1, <2>3, <2>4, QueueAppends DEF Frame
<1>3. WaitInv'
    BY <1>0, WaitStays DEF Typed
<1>4. ASSUME NEW r \in Streams PROVE StreamOK(r)'
    BY <1>0 DEF StreamOK, Live, Typed
<1> QED BY <1>1, <1>2, <1>3, <1>4

\* reset_stream() keeps it: the reset of a reserved stream follows its promise.
LEMMA ResetStreamKeeps ==
    ASSUME IInv, NEW s \in Streams, ResetStream(s) PROVE IInv'
<1> USE DEF IInv, ResetStream, binding, history
<1>1. CASE state[s] = "waiting"
    <2>1. s \in Requests
        BY <1>1 DEF StreamOK
    <2>2. Typed'
        BY <1>1, <2>1 DEF Typed
    <2>3. QueueInv'
        <3>1. ASSUME NEW f \in Frames, Queued(f) PROVE Queued(f)'
            BY <1>1, <3>1 DEF Queued, Live
        <3> QED BY <1>1, <3>1, QueueStays
    <2>4. WaitInv'
        BY <1>1, WaitStays
    <2>5. ASSUME NEW r \in Streams PROVE StreamOK(r)'
        BY <1>1 DEF StreamOK, Live
    <2> QED BY <2>2, <2>3, <2>4, <2>5
<1>2. CASE state[s] \in {"reserved", "open"}
    <2>1. /\ state' = [state EXCEPT ![s] = "closing"]
          /\ queue' = Append(queue, Frame("reset", s)) /\ canceled' = canceled
        BY <1>2 DEF SubmitReset
    <2>2. Typed'
        BY <2>1 DEF Typed, States
    <2>3. QueueInv'
        <3>1. ASSUME NEW f \in Frames, Queued(f) PROVE Queued(f)'
            BY <1>2, <2>1, <3>1 DEF Queued, Live, Typed, Frames
        <3>2. Frame("reset", s) \in Frames /\ Queued(Frame("reset", s))'
            BY <2>1 DEF Frame, Frames, Queued, Kinds, Typed
        <3> QED BY <2>1, <3>1, <3>2, QueueAppends DEF Frame
    <2>4. WaitInv'
        BY <1>2, <2>1, WaitStays DEF Typed
    <2>5. ASSUME NEW r \in Streams PROVE StreamOK(r)'
        BY <1>2, <2>1 DEF StreamOK, Live, Typed
    <2> QED BY <2>2, <2>3, <2>4, <2>5
<1>3. CASE state[s] \notin {"waiting", "reserved", "open"}
    <2>1. UNCHANGED vars
        BY <1>3 DEF SubmitReset, vars, native
    <2> QED BY <2>1, StutterKeeps
<1> QED BY <1>1, <1>2, <1>3

\* The end of the connection, by terminate_connection() or by a failing call, keeps
\* it: there are no errors any more.
LEMMA EndKeeps ==
    ASSUME IInv, conn' \in {"terminating", "failed"}, DiscardPendingState,
           UNCHANGED <<server, native, history>>
    PROVE  IInv'
<1> USE DEF IInv, DiscardPendingState, native, history
<1>1. Typed'
    BY DEF Typed
<1>2. QueueInv'
    <2>1. ASSUME NEW f \in Frames, Queued(f) PROVE Queued(f)'
        BY <2>1 DEF Queued, Live
    <2> QED BY <2>1, QueueStays
<1>3. WaitInv'
    BY WaitStays
<1>4. ASSUME NEW r \in Streams PROVE StreamOK(r)'
    BY DEF StreamOK, Live
<1> QED BY <1>1, <1>2, <1>3, <1>4

\* GOAWAY or SETTINGS of the peer keeps it.
LEMMA PeerForbidsKeeps == ASSUME IInv, PeerForbids PROVE IInv'
<1> USE DEF IInv, PeerForbids, binding, history
<1>1. Typed'
    BY DEF Typed
<1>2. QueueInv'
    <2>1. ASSUME NEW f \in Frames, Queued(f) PROVE Queued(f)'
        BY <2>1 DEF Queued, Live
    <2> QED BY <2>1, QueueStays
<1>3. WaitInv'
    BY WaitStays
<1>4. ASSUME NEW r \in Streams PROVE StreamOK(r)'
    BY DEF StreamOK, Live
<1> QED BY <1>1, <1>2, <1>3, <1>4

\* A request of the peer keeps it: its stream is new.
LEMMA PeerRequestKeeps ==
    ASSUME IInv, NEW s \in Requests, PeerRequest(s) PROVE IInv'
<1> USE DEF IInv, PeerRequest, binding, history
<1>0. s \in Streams /\ state[s] = "none" /\ failed[s] = None
    BY DEF Streams, StreamOK
<1>1. Typed'
    BY <1>0 DEF Typed, States
<1>2. QueueInv'
    <2>1. ASSUME NEW f \in Frames, Queued(f) PROVE Queued(f)'
        BY <1>0, <2>1 DEF Queued, Live, Typed, Frames
    <2> QED BY <2>1, QueueStays
<1>3. WaitInv'
    BY <1>0, WaitStays DEF Typed
<1>4. ASSUME NEW r \in Streams PROVE StreamOK(r)'
    BY <1>0 DEF StreamOK, Live, Typed
<1> QED BY <1>1, <1>2, <1>3, <1>4

\* What _stream_closed publishes when stream s closes and errs holds its first
\* failure, if any: the part of the invariant that is about streams.
LEMMA ClosureKeeps ==
    ASSUME IInv, NEW s \in Streams, state[s] # "closed",
           NEW errs \in [Streams -> Kinds \cup {None}], StreamClosed(s, errs),
           \A r \in Streams \ {s} : errs[r] = errors[r] /\ failed'[r] = failed[r],
           failed' \in [Streams -> Kinds \cup {None}],
           conn = "active" => errs[s] = failed'[s],
           state' = [state EXCEPT ![s] = "closed"],
           UNCHANGED <<server, conn, parent, canceled, goaway, pushOff, sent>>
    PROVE  /\ Typed'
           /\ \A r \in Streams : StreamOK(r)'
<1> USE DEF IInv, StreamClosed
<1>1. reported' \in [Streams -> Seq(Kinds \cup {None})]
    <2>1. Append(reported[s], errs[s]) \in Seq(Kinds \cup {None})
        BY AppendProperties DEF Typed
    <2> QED BY <2>1 DEF Typed
<1>2. Typed'
    BY <1>1 DEF Typed, States
<1>3. ASSUME NEW r \in Streams PROVE StreamOK(r)'
    <2>1. CASE r = s
        <3>1. conn = "active" => reported'[s] = <<failed'[s]>>
            <4>1. ASSUME conn = "active" PROVE reported[s] = <<>>
                BY <4>1 DEF StreamOK
            <4> QED BY <4>1 DEF Typed
        <3> QED BY <2>1, <3>1 DEF StreamOK, Typed
    <2>2. CASE r # s
        BY <2>2 DEF StreamOK, Live, Typed
    <2> QED BY <2>1, <2>2
<1> QED BY <1>2, <1>3

\* The peer closes a stream: no promise is queued for it.
LEMMA PeerClosesKeeps ==
    ASSUME IInv, NEW s \in Streams, PeerCloses(s) PROVE IInv'
<1> USE DEF IInv, PeerCloses
<1>1. Typed' /\ \A r \in Streams : StreamOK(r)'
    <2>1. errors \in [Streams -> Kinds \cup {None}] /\ failed' \in [Streams -> Kinds \cup {None}]
        BY DEF Typed
    <2>2. state[s] # "closed" /\ (conn = "active" => errors[s] = failed'[s])
        BY DEF Live, StreamOK
    <2> QED BY <2>1, <2>2, ClosureKeeps
<1>2. QueueInv'
    <2>1. ASSUME NEW f \in Frames, Queued(f) PROVE Queued(f)'
        BY <2>1 DEF Queued, Live, Typed, Frames
    <2> QED BY <2>1, QueueStays
<1>3. WaitInv'
    BY WaitStays DEF Live, Typed
<1> QED BY <1>1, <1>2, <1>3
-----------------------------------------------------------------------------
(* Preparing a frame.                                                      *)

\* A frame that is prepared: the first of the queue, or the first request.
Prepared(f) ==
    /\ f \in Frames
    /\ \/ queue # <<>> /\ f = Head(queue) /\ waiting' = waiting
       \/ /\ queue = <<>> /\ waiting # <<>>
          /\ f = Frame("request", Head(waiting)) /\ waiting' = Tail(waiting)

\* Its stream exists, or waits for it.
LEMMA PreparedStream ==
    ASSUME IInv, NEW f, Prepared(f)
    PROVE  /\ f \in Frames /\ f.stream \in Streams /\ f.kind \in Kinds
           /\ f.kind = "request" => /\ state[f.stream] = "waiting"
                                    /\ waiting # <<>> /\ f.stream = Head(waiting)
                                    /\ waiting' = Tail(waiting)
           /\ f.kind # "request" => /\ Queued(f)
                                    /\ queue # <<>> /\ f = Head(queue)
                                    /\ waiting' = waiting
<1>1. CASE queue # <<>> /\ f = Head(queue) /\ waiting' = waiting
    <2>1. queue[1] = Head(queue) /\ 1 \in 1 .. Len(queue)
        BY <1>1, EmptySeq DEF IInv, QueueInv
    <2> QED BY <1>1, <2>1 DEF IInv, QueueInv, Queued, Prepared, Frames
<1>2. CASE /\ queue = <<>> /\ waiting # <<>>
           /\ f = Frame("request", Head(waiting)) /\ waiting' = Tail(waiting)
    <2>1. waiting[1] = Head(waiting) /\ 1 \in 1 .. Len(waiting)
        BY <1>2, EmptySeq DEF IInv, WaitInv
    <2> QED BY <1>2, <2>1 DEF IInv, WaitInv, Frame, Prepared, Frames
<1> QED BY <1>1, <1>2 DEF Prepared

\* What libnghttp2 does with a frame.
LEMMA OutcomesAre ==
    ASSUME NEW f \in Frames, conn \in {"active", "terminating"}, NEW outcome \in Outcomes(f)
    PROVE  /\ outcome \in {"sent", "dropped", "error"}
           /\ outcome = "sent" => conn = "active"
           /\ outcome = "error" /\ ~Opens(f) =>
                 conn = "active" /\ f.kind # "reset" /\ state[f.stream] \in {"reserved", "open"}
           /\ outcome = "sent" /\ ~Opens(f) /\ f.kind # "reset" =>
                 state[f.stream] \in {"reserved", "open"}
<1>1. CASE f.kind = "request"
    BY <1>1 DEF Outcomes, Opens
<1>2. CASE f.kind # "request" /\ conn = "terminating"
    BY <1>2 DEF Outcomes
<1>3. CASE f.kind = "reset" /\ conn = "active"
    BY <1>3 DEF Outcomes
<1>4. CASE f.kind = "promise" /\ conn = "active"
    BY <1>4 DEF Outcomes, Opens
<1>5. CASE f.kind \notin {"request", "reset", "promise"} /\ conn = "active"
    BY <1>5 DEF Outcomes
<1> QED BY <1>1, <1>2, <1>3, <1>4, <1>5

\* The queue keeps the invariant when the stream of the frame stays queueable and
\* the other streams stay as they are.
LEMMA FrameLeaves ==
    ASSUME IInv, NEW f, Prepared(f),
           queue' = IF f.kind = "request" THEN queue ELSE Tail(queue),
           \A s \in Streams \ {f.stream} :
              state'[s] = state[s] /\ failed'[s] = failed[s] /\ sent'[s] = sent[s],
           f.kind # "request" => state'[f.stream] \notin {"none", "waiting"}
    PROVE  QueueInv' /\ WaitInv'
<1> USE DEF IInv
<1>1. CASE f.kind = "request"
    <2>1. /\ f.stream \in Streams /\ state[f.stream] = "waiting" /\ waiting # <<>>
          /\ f.stream = Head(waiting) /\ waiting' = Tail(waiting)
        BY <1>1, PreparedStream
    <2>2. ASSUME NEW g \in Frames, Queued(g) PROVE Queued(g)'
        BY <2>1, <2>2 DEF Queued, Live, Frames
    <2>3. QueueInv'
        BY <1>1, <2>2, QueueStays
    <2> QED BY <2>1, <2>3, RequestLeaves
<1>2. CASE f.kind # "request"
    <2>1. /\ f.stream \in Streams /\ Queued(f) /\ queue # <<>> /\ f = Head(queue)
          /\ waiting' = waiting
        BY <1>2, PreparedStream
    <2>2. ASSUME NEW g \in Frames, Queued(g), g.kind = "promise" => g.stream # f.stream
          PROVE  Queued(g)'
        BY <1>2, <2>1, <2>2 DEF Queued, Live, Frames
    <2>3. QueueInv'
        BY <1>2, <2>1, <2>2, QueueShrinks
    <2>4. WaitInv'
        <3>1. state[f.stream] # "waiting"
            BY <2>1 DEF Queued
        <3> QED BY <2>1, <3>1, WaitStays
    <2> QED BY <2>3, <2>4
<1> QED BY <1>1, <1>2

\* What a step of data_to_send() leaves.
Leaves == UNCHANGED <<server, conn, parent, canceled, goaway, pushOff>>

\* A frame that opens a stream fails: the stream closes with this error, its first.
LEMMA OpeningFails ==
    ASSUME IInv, NEW f, Prepared(f), conn # "failed", NEW outcome \in {"dropped", "error"},
           Opens(f), NotSent(f, outcome), Leaves
    PROVE  IInv'
<1> USE DEF IInv
<1> DEFINE s == f.stream
           errs == IF outcome = "error" THEN [errors EXCEPT ![s] = f.kind] ELSE errors
<1>1. /\ f \in Frames /\ s \in Streams /\ f.kind \in Kinds /\ f.kind \in {"request", "promise"}
      /\ state[s] \notin {"none", "closed"} /\ failed[s] = None
    BY PreparedStream DEF Opens, Queued, Live, StreamOK
<1>2. /\ failed' = IF outcome = "error" THEN [failed EXCEPT ![s] = f.kind] ELSE failed
      /\ sent' = sent /\ state' = [state EXCEPT ![s] = "closed"]
      /\ StreamClosed(s, errs)
      /\ queue' = IF f.kind = "promise" THEN Tail(queue) ELSE queue
    BY <1>1 DEF NotSent, IsError, ErrorStream
<1>3. Typed' /\ \A r \in Streams : StreamOK(r)'
    <2>1. errs \in [Streams -> Kinds \cup {None}] /\ failed' \in [Streams -> Kinds \cup {None}]
        BY <1>1, <1>2 DEF Typed
    <2>2. \A r \in Streams \ {s} : errs[r] = errors[r] /\ failed'[r] = failed[r]
        BY <1>1, <1>2 DEF Typed
    <2>3. conn = "active" => errs[s] = failed'[s]
        <3>1. conn = "active" => errors[s] = failed[s]
            BY <1>1 DEF StreamOK
        <3> QED BY <1>1, <1>2, <3>1 DEF Typed
    <2> HIDE DEF errs
    <2> QED BY <1>1, <1>2, <2>1, <2>2, <2>3, ClosureKeeps DEF Leaves
<1>4. QueueInv' /\ WaitInv'
    <2>1. \A r \in Streams \ {s} :
             state'[r] = state[r] /\ failed'[r] = failed[r] /\ sent'[r] = sent[r]
        BY <1>1, <1>2 DEF Typed
    <2>2. queue' = IF f.kind = "request" THEN queue ELSE Tail(queue)
        BY <1>1, <1>2
    <2>3. state'[s] = "closed"
        BY <1>1, <1>2 DEF Typed
    <2> QED BY <2>1, <2>2, <2>3, FrameLeaves
<1> QED BY <1>3, <1>4

\* Another frame fails: its stream is reset with this error, its first.
LEMMA FrameFails ==
    ASSUME IInv, NEW f, Prepared(f), conn = "active", ~Opens(f), f.kind # "reset",
           state[f.stream] \in {"reserved", "open"}, NotSent(f, "error"), Leaves
    PROVE  IInv'
<1> USE DEF IInv, Leaves
<1> DEFINE s == f.stream
<1>1. /\ f \in Frames /\ s \in Streams /\ f.kind \in Kinds /\ f.kind \notin {"request", "promise"}
      /\ queue # <<>> /\ f = Head(queue) /\ waiting' = waiting /\ failed[s] = None
    BY PreparedStream DEF Opens, StreamOK
<1>2. /\ failed' = [failed EXCEPT ![s] = f.kind] /\ errors' = [errors EXCEPT ![s] = f.kind]
      /\ state' = [state EXCEPT ![s] = "closing"]
      /\ queue' = Append(Tail(queue), Frame("reset", s))
      /\ UNCHANGED <<sent, responses, reported>>
    BY <1>1 DEF NotSent, IsError, ErrorStream, NeedsReset
<1>3. Typed'
    BY <1>1, <1>2 DEF Typed, States
<1>4. ASSUME NEW r \in Streams PROVE StreamOK(r)'
    BY <1>1, <1>2 DEF StreamOK, Live, Typed
<1>5. QueueInv'
    <2>1. ASSUME NEW g \in Frames, Queued(g), g.kind = "promise" => g.stream # s
          PROVE  Queued(g)'
        BY <1>1, <1>2, <2>1 DEF Queued, Live, Typed, Frames
    <2>2. /\ Tail(queue) \in Seq(Frames) /\ PromiseFirst(Tail(queue))
          /\ \A i \in 1 .. Len(Tail(queue)), g \in Frames : Tail(queue)[i] = g => Queued(g)'
        BY <1>1, <2>1, QueueAdvances
    <2>3. Frame("reset", s) \in Frames /\ Queued(Frame("reset", s))'
        BY <1>1, <1>2 DEF Frame, Frames, Queued, Kinds, Typed
    <2> QED BY <1>2, <2>2, <2>3, QueueGrows DEF Frame
<1>6. WaitInv'
    BY <1>1, <1>2, WaitStays DEF Typed
<1> QED BY <1>3, <1>4, <1>5, <1>6

\* A frame is dropped, and its stream stays as it is.
LEMMA FrameIsDropped ==
    ASSUME IInv, NEW f, Prepared(f), ~Opens(f), NotSent(f, "dropped"), Leaves
    PROVE  IInv'
<1> USE DEF IInv, Leaves
<1>1. f.kind # "request" /\ f.stream \in Streams /\ Queued(f)
    BY PreparedStream DEF Opens
<1>2. queue' = Tail(queue) /\ UNCHANGED <<errors, responses, state, sent, failed, reported>>
    BY <1>1 DEF NotSent, IsError
<1>3. Typed'
    BY <1>2 DEF Typed
<1>4. ASSUME NEW r \in Streams PROVE StreamOK(r)'
    BY <1>2 DEF StreamOK, Live
<1>5. QueueInv' /\ WaitInv'
    BY <1>1, <1>2, FrameLeaves DEF Queued
<1> QED BY <1>3, <1>4, <1>5

\* A reset is sent: it closes its stream, if that is not closed yet.
LEMMA ResetIsSent ==
    ASSUME IInv, NEW f, Prepared(f), conn = "active", f.kind = "reset", IsSent(f), Leaves
    PROVE  IInv'
<1> USE DEF IInv
<1> DEFINE s == f.stream
<1>1. s \in Streams /\ Queued(f)
    BY PreparedStream
<1>2. queue' = Tail(queue) /\ UNCHANGED <<failed, sent>>
    BY DEF IsSent
<1>3. CASE Live(s)
    <2>1. state' = [state EXCEPT ![s] = "closed"] /\ StreamClosed(s, errors)
        BY <1>3 DEF IsSent
    <2>2. Typed' /\ \A r \in Streams : StreamOK(r)'
        <3>1. errors \in [Streams -> Kinds \cup {None}]
              /\ failed' \in [Streams -> Kinds \cup {None}]
            BY <1>2 DEF Typed
        <3>2. state[s] # "closed" /\ errors[s] = failed'[s]
            BY <1>1, <1>2, <1>3 DEF Live, StreamOK
        <3> QED BY <1>1, <1>2, <2>1, <3>1, <3>2, ClosureKeeps DEF Leaves
    <2>3. state'[s] = "closed" /\ \A r \in Streams \ {s} : state'[r] = state[r]
        BY <1>1, <2>1 DEF Typed
    <2>4. QueueInv' /\ WaitInv'
        BY <1>2, <2>3, FrameLeaves
    <2> QED BY <2>2, <2>4
<1>4. CASE ~Live(s)
    <2>1. UNCHANGED <<state, errors, responses, reported>>
        BY <1>4 DEF IsSent
    <2>2. Typed'
        BY <1>2, <2>1 DEF Typed, Leaves
    <2>3. ASSUME NEW r \in Streams PROVE StreamOK(r)'
        BY <1>2, <2>1 DEF StreamOK, Live, Leaves
    <2>4. QueueInv' /\ WaitInv'
        BY <1>1, <1>2, <2>1, FrameLeaves DEF Queued
    <2> QED BY <2>2, <2>3, <2>4
<1> QED BY <1>3, <1>4

\* A header frame is sent: its stream has no failure.
LEMMA HeadersAreSent ==
    ASSUME IInv, NEW f, Prepared(f), conn = "active", f.kind # "reset", IsSent(f), Leaves,
           ~Opens(f) => state[f.stream] \in {"reserved", "open"}
    PROVE  /\ IInv'
           /\ f.stream \in Streams /\ failed[f.stream] = None
           /\ \A r \in Streams \ {f.stream} : sent'[r] = sent[r]
<1> USE DEF IInv, Leaves
<1> DEFINE s == f.stream
<1>1. /\ s \in Streams /\ f.kind \in Kinds /\ failed[s] = None
      /\ f.kind = "request" => state[s] = "waiting"
      /\ f.kind = "promise" => Live(s)
    BY PreparedStream DEF Opens, Queued, StreamOK
<1>2. /\ queue' = IF f.kind = "request" THEN queue ELSE Tail(queue)
      /\ sent' = [sent EXCEPT ![s] = @ \cup {f.kind}]
      /\ state' = IF f.kind = "promise" THEN state ELSE [state EXCEPT ![s] = "open"]
      /\ UNCHANGED <<failed, errors, responses, reported>>
    BY DEF IsSent
<1>3. Typed'
    BY <1>1, <1>2 DEF Typed, States
<1>4. /\ state'[s] \in {"reserved", "open", "closing"}
      /\ \A r \in Streams \ {s} : state'[r] = state[r] /\ sent'[r] = sent[r]
    BY <1>1, <1>2 DEF Typed, Live
<1>5. ASSUME NEW r \in Streams PROVE StreamOK(r)'
    <2>1. CASE r = s
        <3>1. state[s] # "closed" /\ (state[s] = "waiting" => s \in Requests)
            BY <1>1 DEF Live, Opens, StreamOK
        <3>2. errors[s] = None /\ reported[s] = <<>>
            BY <1>1, <3>1 DEF StreamOK
        <3> QED BY <1>1, <1>2, <1>4, <2>1, <3>2 DEF StreamOK, Live
    <2>2. CASE r # s
        BY <1>2, <1>4, <2>2 DEF StreamOK, Live
    <2> QED BY <2>1, <2>2
<1>6. QueueInv' /\ WaitInv'
    BY <1>2, <1>4, FrameLeaves
<1> QED BY <1>1, <1>3, <1>4, <1>5, <1>6

\* Preparing a frame keeps the invariant, and sends nothing behind a failure.
LEMMA PrepareKeeps ==
    ASSUME IInv, NEW f, Prepared(f), Prepare(f)
    PROVE  /\ IInv'
           /\ \A s \in Streams : failed[s] # None => sent'[s] = sent[s]
<1>1. conn \in {"active", "terminating"} /\ f \in Frames /\ Leaves
    BY PreparedStream DEF Prepare, IInv, Typed, Leaves
<1>2. PICK outcome \in Outcomes(f) :
         IF outcome = "sent" THEN IsSent(f) ELSE NotSent(f, outcome)
    BY DEF Prepare
<1>3. /\ outcome \in {"sent", "dropped", "error"}
      /\ outcome = "sent" => conn = "active"
      /\ outcome = "error" /\ ~Opens(f) =>
            conn = "active" /\ f.kind # "reset" /\ state[f.stream] \in {"reserved", "open"}
      /\ outcome = "sent" /\ ~Opens(f) /\ f.kind # "reset" =>
            state[f.stream] \in {"reserved", "open"}
    BY <1>1, OutcomesAre
<1>4. CASE outcome # "sent"
    <2>1. NotSent(f, outcome) /\ sent' = sent
        BY <1>2, <1>4 DEF NotSent
    <2>2. CASE Opens(f)
        BY <1>1, <1>3, <1>4, <2>1, <2>2, OpeningFails
    <2>3. CASE ~Opens(f) /\ outcome = "error"
        BY <1>1, <1>3, <2>1, <2>3, FrameFails
    <2>4. CASE ~Opens(f) /\ outcome = "dropped"
        BY <1>1, <2>1, <2>4, FrameIsDropped
    <2> QED BY <1>3, <1>4, <2>1, <2>2, <2>3, <2>4
<1>5. CASE outcome = "sent" /\ f.kind = "reset"
    <2>1. IsSent(f) /\ sent' = sent
        BY <1>2, <1>5 DEF IsSent
    <2> QED BY <1>1, <1>3, <1>5, <2>1, ResetIsSent
<1>6. CASE outcome = "sent" /\ f.kind # "reset"
    BY <1>1, <1>2, <1>3, <1>6, HeadersAreSent
<1> QED BY <1>4, <1>5, <1>6

\* A step either prepares a frame or keeps what was sent.
LEMMA StepKeeps ==
    ASSUME IInv, Next
    PROVE  /\ IInv'
           /\ \A s \in Streams : failed[s] # None => sent'[s] = sent[s]
<1> USE DEF history
<1>1. CASE \E s \in Requests : SendRequest(s) \/ PeerRequest(s)
    BY <1>1, SendRequestKeeps, PeerRequestKeeps DEF SendRequest, PeerRequest
<1>2. CASE \E s \in Requests, p \in Pushes : SendPushPromise(s, p)
    BY <1>2, SendPushPromiseKeeps DEF SendPushPromise
<1>3. ASSUME NEW s \in Streams, SendInformationalResponse(s) \/ SendResponse(s)
      PROVE  IInv' /\ sent' = sent
    <2>1. state[s] \notin {"none", "waiting"} /\ Live(s)
        BY <1>3 DEF SendInformationalResponse, MayInform, SendResponse, Live
    <2>2. CASE SendInformationalResponse(s)
        <3>1. /\ queue' = Append(queue, Frame("interim", s)) /\ responses' = responses
              /\ UNCHANGED <<server, conn, errors, state, parent, waiting, canceled, goaway,
                             pushOff, history>>
            BY <2>2 DEF SendInformationalResponse, binding
        <3> QED BY <2>1, <3>1, SubmitKeeps DEF Kinds
    <2>3. CASE SendResponse(s)
        <3>1. /\ queue' = Append(queue, Frame("response", s)) /\ responses' = responses \cup {s}
              /\ UNCHANGED <<server, conn, errors, state, parent, waiting, canceled, goaway,
                             pushOff, history>>
            BY <2>3 DEF SendResponse
        <3> QED BY <2>1, <3>1, SubmitKeeps DEF Kinds
    <2> QED BY <1>3, <2>2, <2>3
<1>4. ASSUME NEW s \in Streams, SubmitTrailers(s) PROVE IInv' /\ sent' = sent
    <2>1. /\ queue' = Append(queue, Frame("trailers", s)) /\ responses' = responses
          /\ UNCHANGED <<server, conn, errors, state, parent, waiting, canceled, goaway,
                         pushOff, history>>
          /\ state[s] \notin {"none", "waiting"}
        BY <1>4 DEF SubmitTrailers, binding
    <2> QED BY <2>1, SubmitKeeps DEF Kinds
<1>5. ASSUME NEW s \in Streams, ResetStream(s) \/ PeerCloses(s) PROVE IInv' /\ sent' = sent
    BY <1>5, ResetStreamKeeps, PeerClosesKeeps DEF ResetStream, PeerCloses
<1>6. CASE Terminate \/ Fail
    BY <1>6, EndKeeps DEF Terminate, Fail
<1>7. CASE PeerForbids
    BY <1>7, PeerForbidsKeeps DEF PeerForbids
<1>8. CASE PrepareFrame
    <2>1. Head(queue) \in Frames
        BY <1>8, HeadTailProperties DEF PrepareFrame, IInv, QueueInv
    <2>2. Prepared(Head(queue)) /\ Prepare(Head(queue))
        BY <1>8, <2>1 DEF PrepareFrame, Prepared
    <2> QED BY <2>2, PrepareKeeps
<1>9. CASE PrepareRequest
    <2> DEFINE f == Frame("request", Head(waiting))
    <2>1. f \in Frames
        BY <1>9, HeadTailProperties DEF PrepareRequest, IInv, WaitInv, Frame, Frames, Kinds,
                                        Streams
    <2>2. Prepared(f) /\ Prepare(f)
        BY <1>9, <2>1 DEF PrepareRequest, Prepared
    <2> QED BY <2>2, PrepareKeeps
<1> QED BY <1>1, <1>2, <1>3, <1>4, <1>5, <1>6, <1>7, <1>8, <1>9 DEF Next
-----------------------------------------------------------------------------
(***************************************************************************)
(* Every call, every event from the peer and every frame that is prepared  *)
(* keeps the invariant.                                                    *)
(***************************************************************************)
THEOREM NextPreservesInv == IInv /\ [Next]_vars => IInv'
BY StepKeeps, StutterKeeps

(***************************************************************************)
(* The invariant holds in every state that can be reached.                 *)
(***************************************************************************)
LEMMA Invariance == Spec => []IInv
BY InitInv, NextPreservesInv, PTL DEF Spec

(***************************************************************************)
(* _frame_not_sent, _stream_closed: the one StreamClosed of a stream has   *)
(* the first failure of its frames as local_error, and no error of a       *)
(* stream stays behind in _local_stream_errors.                            *)
(***************************************************************************)
THEOREM Reported == Spec => []FailureReported
<1>1. IInv => FailureReported
    BY InvImplies
<1> QED BY <1>1, Invariance, PTL

(***************************************************************************)
(* data_to_send(): when a frame of a stream has failed, the frames behind  *)
(* it in the queue are not sent.                                           *)
(***************************************************************************)
THEOREM Stopped == Spec => NothingAfterFailure
<1>1. IInv /\ [Next]_vars =>
         [\A s \in Streams : failed[s] # None => sent'[s] = sent[s]]_vars
    BY StepKeeps
<1> QED BY <1>1, Invariance, PTL DEF Spec, NothingAfterFailure
=============================================================================
