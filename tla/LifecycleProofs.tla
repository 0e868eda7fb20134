--------------------------- MODULE LifecycleProofs ---------------------------
(***************************************************************************)
(* Proofs about Lifecycle, for every depth of nested calls and every       *)
(* number of frames and streams: a freed session is not touched, nothing   *)
(* follows the closure, a session that is done is reported, and a          *)
(* termination is reported as one.                                         *)
(*                                                                         *)
(* The final GOAWAY is the last frame that matters: it is queued behind    *)
(* every other GOAWAY, what is queued behind it is dropped, and sending it *)
(* ends the session.                                                       *)
(***************************************************************************)
EXTENDS Lifecycle, FiniteSetTheorems, SequenceTheorems, TLAPS

\* The final GOAWAY is at position k of the queue q and nowhere before, with
\* nothing behind it that is written.
FinalAt(q, k) ==
    /\ q[k] = "term"
    /\ \A i \in 1 .. Len(q) : (i > k => q[i] = "frame") /\ (i < k => q[i] # "term")

\* The final GOAWAY: not yet queued, waiting, or sent, as the reason to close.
TermInv ==
    /\ ~termOn => ~termSent /\ \A i \in 1 .. Len(queue) : queue[i] # "term"
    /\ termOn /\ ~termSent => \E k \in 1 .. Len(queue) : FinalAt(queue, k)
    /\ termSent => reason = "term" /\ \A i \in 1 .. Len(queue) : queue[i] = "frame"

\* A failed object is closed for good, and only its session is freed; a drive
\* that lost its output failed it.
FailedInv ==
    /\ session = "freed" => failed
    /\ failed => closed /\ ~active
    /\ lost => failed

\* A connection is closing when a GOAWAY was exchanged, and closed when its
\* session has nothing more to do.
ClosedInv ==
    /\ ~failed /\ (goaway \/ termSent) => closing
    /\ ~failed /\ closed => active /\ terminating /\ ~WantWrite
    /\ active /\ ~WantRead /\ ~WantWrite => closed
    /\ termSent \/ closedEvents # 0 => closed
    /\ TerminationReason

\* The inductive invariant.
IInv == TypeOK /\ TermInv /\ FailedInv /\ ClosedInv
-----------------------------------------------------------------------------
(* Facts about the queue.                                                  *)

\* What the queue holds.
Frames == {"frame", "notice", "goaway", "term"}

\* A frame is queued behind the others.
LEMMA QueueGrows ==
    ASSUME NEW frame \in Frames, queue \in Seq(Frames), Enqueue(frame)
    PROVE  /\ queue' \in Seq(Frames) /\ queue' # <<>>
           /\ Len(queue') = Len(queue) + 1 /\ Len(queue) \in Nat
           /\ \A i \in 1 .. Len(queue) : queue'[i] = queue[i]
           /\ queue'[Len(queue) + 1] = frame
BY AppendProperties, EmptySeq DEF Enqueue

\* The first n frames leave the queue.
LEMMA QueueShrinks ==
    ASSUME queue \in Seq(Frames), NEW n \in 0 .. Len(queue),
           queue' = SubSeq(queue, n + 1, Len(queue))
    PROVE  /\ queue' \in Seq(Frames)
           /\ Len(queue) \in Nat /\ Len(queue') = Len(queue) - n
           /\ \A i \in 1 .. Len(queue') : queue'[i] = queue[i + n]
<1>1. Len(queue) \in Nat /\ \A i \in n + 1 .. Len(queue) : queue[i] \in Frames
  BY LenProperties
<1>2. /\ queue' \in Seq(Frames)
      /\ Len(queue') = IF n + 1 <= Len(queue) THEN Len(queue) - (n + 1) + 1 ELSE 0
      /\ \A i \in 1 .. Len(queue) - (n + 1) + 1 : queue'[i] = queue[n + 1 + i - 1]
  BY <1>1, SubSeqProperties
<1> QED BY <1>1, <1>2

\* The types of the flags, one by one.
LEMMA Flags ==
    TypeOK <=>
        /\ calls \in Seq(Calls) /\ queue \in Seq(Frames)
        /\ active \in BOOLEAN /\ failed \in BOOLEAN /\ terminating \in BOOLEAN
        /\ closing \in BOOLEAN /\ closed \in BOOLEAN
        /\ termOn \in BOOLEAN /\ termSent \in BOOLEAN /\ goaway \in BOOLEAN /\ lost \in BOOLEAN
        /\ reason \in {"none", "peer", "notice", "goaway", "term"} /\ session \in {"live", "freed"}
        /\ closedEvents \in Nat /\ streams \in Nat /\ opened \in Nat /\ written \in Nat
BY Zenon DEF TypeOK, Frames

\* A call that ends leaves the calls around it.
LEMMA CallEnds ==
    ASSUME calls \in Seq(Calls), calls # <<>>, calls' = Front(calls)
    PROVE  calls' \in Seq(Calls)
<1>1. Len(calls) \in Nat /\ \A i \in 1 .. Len(calls) - 1 : calls[i] \in Calls
  BY LenProperties
<1> QED BY <1>1, SubSeqProperties DEF Front
-----------------------------------------------------------------------------
(* Every step keeps the invariant.                                         *)

\* A new connection satisfies the invariant (Connection.__init__).
LEMMA InitInv == Init => IInv
<1> SUFFICES ASSUME Init PROVE IInv
  OBVIOUS
<1>1. queue = <<>> /\ Len(queue) = 0 /\ calls \in Seq(Calls) /\ queue \in Seq(Frames)
  BY EmptySeq DEF Init
<1>2. TypeOK
  <2>1. /\ {active, failed, terminating, closing, closed} \subseteq BOOLEAN
        /\ {termOn, termSent, goaway, lost} \subseteq BOOLEAN
    BY Zenon DEF Init
  <2>2. /\ {streams, opened, written} \subseteq Nat /\ closedEvents \in Nat
        /\ session \in {"live", "freed"} /\ reason \in {"none", "peer", "notice", "goaway", "term"}
    BY DEF Init
  <2> QED BY <1>1, <2>1, <2>2 DEF TypeOK, Frames
<1>3. TermInv /\ FailedInv /\ ClosedInv
  BY <1>1 DEF Init, TermInv, FailedInv, ClosedInv, TerminationReason, WantRead, WantWrite
<1> QED BY <1>2, <1>3 DEF IInv

\* A failure freezes the session.
LEMMA FailKeeps ==
    ASSUME IInv, calls' \in Seq(Calls), lost' \in BOOLEAN, Fail
    PROVE  IInv'
<1>1. TypeOK'
  BY DEF IInv, TypeOK, Fail
<1>2. TermInv' /\ FailedInv'
  BY DEF IInv, TermInv, FinalAt, FailedInv, Fail
<1>3. ClosedInv'
  BY DEF IInv, TypeOK, ClosedInv, TerminationReason, Fail
<1> QED BY <1>1, <1>2, <1>3 DEF IInv

\* A frame queued while nothing else of TermInv changes.
LEMMA FrameQueued ==
    ASSUME IInv, Enqueue("frame"), UNCHANGED <<termOn, termSent, reason>>
    PROVE  TermInv'
<1>1. /\ queue' # <<>> /\ Len(queue') = Len(queue) + 1 /\ Len(queue) \in Nat
      /\ \A i \in 1 .. Len(queue) : queue'[i] = queue[i]
      /\ queue'[Len(queue) + 1] = "frame"
  BY QueueGrows DEF IInv, TypeOK, Frames
<1>2. \A k \in 1 .. Len(queue) : FinalAt(queue, k) => FinalAt(queue', k)
  BY <1>1 DEF FinalAt
<1> QED BY <1>1, <1>2 DEF IInv, TermInv

\* The final GOAWAY is queued once.
LEMMA FinalQueued ==
    ASSUME IInv, SubmitFinalGoaway, UNCHANGED <<termSent, reason>>
    PROVE  /\ TermInv' /\ queue' \in Seq(Frames) /\ termOn' = TRUE
           /\ ~termOn => queue' # <<>> /\ ~termSent
           /\ termOn => queue' = queue
<1>1. CASE termOn
  BY <1>1 DEF IInv, TypeOK, TermInv, FinalAt, SubmitFinalGoaway, Frames
<1>2. CASE ~termOn
  <2>1. /\ queue' \in Seq(Frames) /\ queue' # <<>>
        /\ Len(queue') = Len(queue) + 1 /\ Len(queue) \in Nat
        /\ \A i \in 1 .. Len(queue) : queue'[i] = queue[i]
        /\ queue'[Len(queue) + 1] = "term"
    BY <1>2, QueueGrows DEF IInv, TypeOK, SubmitFinalGoaway, Frames
  <2>2. FinalAt(queue', Len(queue) + 1)
    BY <1>2, <2>1 DEF FinalAt, IInv, TermInv
  <2> QED BY <1>2, <2>1, <2>2 DEF IInv, TermInv, SubmitFinalGoaway
<1> QED BY <1>1, <1>2

\* initiate_connection() and initiate_upgrade() leave a frame to write.
LEMMA InitiateKeeps ==
    ASSUME IInv, calls' \in Seq(Calls), Initiate \/ Upgrade
    PROVE  IInv'
<1>1. CASE Fail /\ UNCHANGED lost
  BY <1>1, FailKeeps, Flags DEF IInv
<1>2. CASE ~(Fail /\ UNCHANGED lost)
  <2>1. /\ Enqueue("frame") /\ active' = TRUE /\ ~failed /\ ~active
        /\ UNCHANGED <<failed, terminating, closing, closed, reason, closedEvents, session,
                       termOn, termSent, goaway, written, lost>>
        /\ streams' \in Nat /\ opened' \in Nat
    BY <1>2 DEF Initiate, Upgrade, RequireCreated, IInv, TypeOK
  <2>2. queue' \in Seq(Frames) /\ queue' # <<>>
    BY <2>1, QueueGrows DEF IInv, TypeOK, Frames
  <2>3. TypeOK' /\ FailedInv'
    BY <2>1, <2>2 DEF IInv, TypeOK, FailedInv, Frames
  <2>4. ClosedInv'
    BY <2>1, <2>2 DEF IInv, ClosedInv, TerminationReason, WantRead, WantWrite
  <2> QED BY <2>1, <2>3, <2>4, FrameQueued DEF IInv
<1> QED BY <1>1, <1>2

\* The end of receive_data() and data_to_send(): a session that has nothing more
\* to do is reported closed, with the reason of a termination if there was one.
LEMMA Reported ==
    ASSUME TypeOK, TermInv', ClosedInv, active, ~failed, UNCHANGED <<active, failed>>,
           closed => UNCHANGED <<reason, termOn, termSent>> /\ (queue = <<>> => queue' = <<>>),
           goaway' \/ termSent' => closing',
           UpdateTerminalState
    PROVE  ClosedInv'
<1>1. CASE closed
  BY <1>1 DEF TypeOK, ClosedInv, TerminationReason, UpdateTerminalState, WantRead, WantWrite
<1>2. CASE ~closed
  <2>1. closedEvents = 0
    BY <1>2 DEF ClosedInv
  <2>2. queue' = <<>> /\ termOn' => termSent'
    BY EmptySeq DEF TermInv
  <2>3. termSent' => reason' = "term"
    BY DEF TermInv
  <2>4. CASE WantRead' \/ WantWrite'
    BY <1>2, <2>1, <2>4 DEF ClosedInv, TerminationReason, UpdateTerminalState, WantRead, WantWrite
  <2>5. CASE ~WantRead' /\ ~WantWrite'
    <3>1. closing' /\ closed' /\ terminating' /\ closedEvents' = 1
      BY <1>2, <2>1, <2>5 DEF UpdateTerminalState, WantRead
    <3>2. termOn' => reason' = "term"
      BY <2>2, <2>3, <2>5 DEF WantWrite
    <3> QED BY <2>5, <3>1, <3>2 DEF ClosedInv, TerminationReason
  <2> QED BY <2>4, <2>5
<1> QED BY <1>1, <1>2

\* The flags keep their types when the closure is reported.
LEMMA ReportTypes ==
    ASSUME TypeOK, UpdateTerminalState
    PROVE  closed' \in BOOLEAN /\ terminating' \in BOOLEAN /\ closedEvents' \in Nat
<1>1. \/ UNCHANGED <<terminating, closed, closedEvents>>
      \/ terminating' = TRUE /\ closed' = TRUE /\ closedEvents' = closedEvents + 1
  BY Zenon DEF UpdateTerminalState
<1>2. closed' \in BOOLEAN /\ terminating' \in BOOLEAN
  BY Zenon, <1>1, Flags
<1>3. closedEvents' \in Nat
  BY <1>1 DEF TypeOK
<1> QED BY <1>2, <1>3

\* Input is only processed before the closure.
LEMMA ReceiveDataKeeps ==
    ASSUME IInv, calls' \in Seq(Calls), ReceiveData
    PROVE  IInv'
<1>1. CASE Fail /\ UNCHANGED lost
  BY <1>1, FailKeeps, Flags DEF IInv
<1>2. CASE /\ Input /\ UpdateTerminalState
           /\ UNCHANGED <<active, failed, session, termSent, written, lost>>
  <2>1. active /\ ~failed /\ ~terminating /\ ~closed
    BY DEF ReceiveData, RequireActive, IInv, ClosedInv
  <2>2. TermInv' /\ queue' \in Seq(Frames)
    <3>1. CASE Enqueue("frame") /\ UNCHANGED <<reason, termOn>>
      BY <1>2, <3>1, FrameQueued, QueueGrows DEF IInv, TypeOK, Frames
    <3>2. CASE SubmitFinalGoaway /\ UNCHANGED reason
      BY <1>2, <3>2, FinalQueued
    <3>3. CASE UNCHANGED <<queue, termOn>> /\ (UNCHANGED reason \/ ~termOn)
      BY <1>2, <3>3 DEF IInv, TypeOK, TermInv, FinalAt, Frames
    <3> QED BY <1>2, <3>1, <3>2, <3>3 DEF Input
  <2>3. /\ goaway' => goaway \/ closing'
        /\ closing => closing'
        /\ reason' \in {"none", "peer", "notice", "goaway", "term"}
        /\ streams' \in Nat /\ opened' \in Nat
    BY <1>2, Flags DEF Input, SubmitFinalGoaway, IInv
  <2>4. /\ closing' \in BOOLEAN /\ goaway' \in BOOLEAN /\ termOn' \in BOOLEAN
        /\ closed' \in BOOLEAN /\ terminating' \in BOOLEAN /\ closedEvents' \in Nat
    <3>1. UNCHANGED closing \/ closing' = TRUE
      BY <1>2 DEF Input
    <3>2. UNCHANGED goaway \/ goaway' = TRUE
      BY <1>2 DEF Input
    <3>3. UNCHANGED termOn \/ termOn' = TRUE
      BY <1>2 DEF Input, SubmitFinalGoaway
    <3> QED BY <1>2, <3>1, <3>2, <3>3, ReportTypes, Flags DEF IInv
  <2>5. TypeOK'
    BY <1>2, <2>2, <2>3, <2>4 DEF IInv, TypeOK, Frames
  <2>6. FailedInv'
    BY <1>2, <2>1 DEF IInv, FailedInv
  <2>7. ClosedInv'
    BY <1>2, <2>1, <2>2, <2>3, Reported DEF IInv, ClosedInv
  <2> QED BY <2>2, <2>5, <2>6, <2>7 DEF IInv
<1> QED BY <1>1, <1>2 DEF ReceiveData

\* A frame that is queued is still to be written.
LEMMA SubmitKeeps ==
    ASSUME IInv, calls' \in Seq(Calls), Submit \/ SendGoaway \/ SendShutdownNotice
    PROVE  IInv'
<1>1. CASE Fail /\ UNCHANGED lost
  BY <1>1, FailKeeps, Flags DEF IInv
<1>2. CASE ~(Fail /\ UNCHANGED lost)
  <2>1. /\ active /\ ~failed /\ ~closed /\ ~termSent
        /\ UNCHANGED <<flags, reason, closedEvents, session, termOn, termSent, goaway, written,
                       lost>>
        /\ streams' \in Nat /\ opened' \in Nat
    BY <1>2 DEF Submit, SendGoaway, SendShutdownNotice, RequireActive, IInv, ClosedInv, TypeOK
  <2>2. CASE UNCHANGED queue /\ UNCHANGED <<streams, opened>>
    BY <2>1, <2>2 DEF IInv, TypeOK, TermInv, FinalAt, FailedInv, ClosedInv, TerminationReason,
                      WantRead, WantWrite, flags
  <2>3. CASE Enqueue("frame") \/ (~termOn /\ \E gone \in {"goaway", "notice"} : Enqueue(gone))
    <3>1. /\ queue' \in Seq(Frames) /\ queue' # <<>>
          /\ Len(queue') = Len(queue) + 1 /\ Len(queue) \in Nat
          /\ \A i \in 1 .. Len(queue) : queue'[i] = queue[i]
          /\ queue'[Len(queue) + 1] \in {"frame", "notice", "goaway"}
      BY <2>3, QueueGrows DEF IInv, TypeOK, Frames
    <3>2. TermInv'
      <4>1. CASE Enqueue("frame")
        BY <2>1, <4>1, FrameQueued
      <4>2. CASE ~termOn
        BY <2>1, <3>1, <4>2 DEF IInv, TermInv
      <4> QED BY <2>3, <4>1, <4>2
    <3>3. TypeOK' /\ FailedInv'
      BY <2>1, <3>1 DEF IInv, TypeOK, FailedInv, flags, Frames
    <3>4. ClosedInv'
      BY <2>1, <3>1 DEF IInv, ClosedInv, TerminationReason, WantRead, WantWrite, flags
    <3> QED BY <3>2, <3>3, <3>4 DEF IInv
  <2> QED BY <1>2, <2>2, <2>3 DEF Submit, SendGoaway, SendShutdownNotice
<1> QED BY <1>1, <1>2

\* terminate_connection() queues the final GOAWAY, if nothing did before.
LEMMA TerminateKeeps ==
    ASSUME IInv, calls' \in Seq(Calls), TerminateConnection
    PROVE  IInv'
<1>1. active /\ ~failed /\ ~closed /\ ~termSent
  BY DEF TerminateConnection, RequireActive, IInv, ClosedInv
<1>2. /\ TermInv' /\ queue' \in Seq(Frames) /\ termOn' = TRUE
      /\ ~termOn => queue' # <<>> /\ ~termSent
      /\ termOn => queue' = queue
  BY FinalQueued DEF TerminateConnection
<1>3. TypeOK' /\ FailedInv'
  BY <1>2, Flags DEF TerminateConnection, IInv, TypeOK, FailedInv, Frames
<1>4. ClosedInv'
  BY <1>1, <1>2 DEF TerminateConnection, IInv, ClosedInv, TerminationReason, WantRead, WantWrite
<1> QED BY <1>2, <1>3, <1>4 DEF IInv

\* Once the final GOAWAY is sent, or the queue is empty, nothing is written.
LEMMA WritesNothing ==
    ASSUME IInv, closed, ~failed, NEW n \in 0 .. Len(queue)
    PROVE  Sent(n) = {} /\ (termSent \/ Len(queue) = 0)
<1>1. termSent \/ Len(queue) = 0
  BY EmptySeq DEF IInv, ClosedInv, WantWrite
<1>2. CASE termSent
  BY <1>2, LenProperties DEF IInv, TypeOK, TermInv, Sent
<1>3. CASE Len(queue) = 0
  BY <1>3 DEF Sent
<1> QED BY <1>1, <1>2, <1>3

\* data_to_send() takes frames from the queue; what is sent last decides.
LEMMA DataToSendKeeps ==
    ASSUME IInv, calls' \in Seq(Calls), NEW n \in 0 .. Len(queue), NEW begun \in BOOLEAN,
           DataToSend(n, begun)
    PROVE  IInv'
<1> DEFINE sent == Sent(n)
<1>1. /\ queue \in Seq(Frames) /\ Len(queue) \in Nat /\ ~failed /\ active
      /\ \A i \in 1 .. Len(queue) : queue[i] \in Frames
  BY LenProperties, Flags DEF IInv, DataToSend
<1>2. /\ queue' \in Seq(Frames) /\ Len(queue') = Len(queue) - n
      /\ \A i \in 1 .. Len(queue') : queue'[i] = queue[i + n]
  BY <1>1, QueueShrinks DEF DataToSend
<1>3. sent \subseteq 1 .. n /\ Cardinality(sent) \in Nat
  <2>1. sent \subseteq 1 .. n /\ IsFiniteSet(1 .. n)
    BY FS_Interval DEF Sent
  <2> QED BY <2>1, FS_Subset, FS_CardinalityType
<1>4. /\ written' = written + Cardinality(sent) + (IF begun THEN 1 ELSE 0)
      /\ streams' \in Nat /\ FrameSent(sent) /\ UpdateTerminalState
      /\ UNCHANGED <<active, failed, session, termOn, opened, lost>>
  BY Flags DEF DataToSend, IInv
<1>5. /\ termSent' = (termSent \/ \E i \in sent : queue[i] = "term")
       /\ goaway' = (goaway \/ \E i \in sent : queue[i] \in {"goaway", "term"})
  BY DEF DataToSend
<1> HIDE DEF sent
<1>6. /\ Goaways(sent) = {} => UNCHANGED <<closing, reason>>
      /\ Goaways(sent) # {} => closing' = TRUE /\ reason' \in {"notice", "goaway", "term"}
  BY <1>1, <1>3, <1>4 DEF FrameSent, Goaways, Frames
<1>7. TypeOK'
  <2>1. closing' \in BOOLEAN /\ reason' \in {"none", "peer", "notice", "goaway", "term"}
    BY <1>6, Flags DEF IInv
  <2>2. closed' \in BOOLEAN /\ terminating' \in BOOLEAN /\ closedEvents' \in Nat
    BY <1>4, ReportTypes DEF IInv
  <2>3. written' \in Nat
    BY <1>3, <1>4, Flags DEF IInv
  <2>4. termSent' \in BOOLEAN /\ goaway' \in BOOLEAN
    BY Zenon, <1>5
  <2> QED BY <1>2, <1>4, <2>1, <2>2, <2>3, <2>4, Flags DEF IInv, TypeOK, Frames
<1>8. TermInv'
  <2>1. CASE ~termOn
    <3>1. ~termSent' /\ ~termOn'
      <4>1. ~termSent /\ \A i \in sent : queue[i] # "term"
        BY <1>1, <1>3, <2>1 DEF IInv, TermInv
      <4>2. UNCHANGED termOn
        BY <1>4
      <4> QED BY Zenon, <1>5, <2>1, <4>1, <4>2
    <3> QED BY <1>1, <1>2, <2>1, <3>1 DEF IInv, TermInv
  <2>2. CASE termSent
    <3>1. termOn /\ reason = "term" /\ \A i \in 1 .. Len(queue) : queue[i] = "frame"
      BY <2>2 DEF IInv, TermInv
    <3>2. Goaways(sent) = {}
      <4>1. \A i \in sent : i \in 1 .. Len(queue)
        BY <1>1, <1>3
      <4> QED BY <3>1, <4>1 DEF Goaways
    <3>3. termSent' /\ UNCHANGED <<termOn, reason>>
      BY Zenon, <1>4, <1>5, <1>6, <2>2, <3>2
    <3>4. \A i \in 1 .. Len(queue') : queue'[i] = "frame"
      BY <1>1, <1>2, <3>1
    <3> QED BY <3>1, <3>3, <3>4 DEF TermInv
  <2>3. CASE termOn /\ ~termSent
    <3>1. PICK k \in 1 .. Len(queue) : FinalAt(queue, k)
      BY <2>3 DEF IInv, TermInv
    <3>2. CASE k <= n
      <4>1. k \in Goaways(sent) /\ \A i \in Goaways(sent) : i <= k
        BY <1>1, <1>3, <3>1, <3>2 DEF FinalAt, Goaways, sent, Sent
      <4>2. reason' = "term"
        <5>1. PICK last \in Goaways(sent) :
                (\A i \in Goaways(sent) : i <= last) /\ reason' = queue[last]
          BY <1>4, <4>1 DEF FrameSent
        <5>2. last \in 1 .. n
          BY <1>3, <5>1 DEF Goaways
        <5>3. last = k
          BY <4>1, <5>1, <5>2
        <5> QED BY <3>1, <5>1, <5>3 DEF FinalAt
      <4>3. \A i \in 1 .. Len(queue') : queue'[i] = "frame"
        BY <1>1, <1>2, <3>1, <3>2 DEF FinalAt
      <4>4. termOn' /\ termSent'
        <5>1. k \in sent /\ queue[k] = "term"
          BY <3>1, <4>1 DEF FinalAt, Goaways
        <5> QED BY Zenon, <1>4, <1>5, <2>3, <5>1
      <4> QED BY <4>2, <4>3, <4>4 DEF TermInv
    <3>3. CASE k > n
      <4>1. k - n \in 1 .. Len(queue') /\ FinalAt(queue', k - n)
        BY <1>1, <1>2, <3>1, <3>3 DEF FinalAt
      <4>2. ~termSent' /\ termOn'
        <5>1. \A i \in sent : queue[i] # "term"
          BY <1>1, <1>3, <3>1, <3>3 DEF FinalAt
        <5>2. termOn'
          BY <1>4, <2>3
        <5> QED BY Zenon, <1>5, <2>3, <5>1, <5>2
      <4> QED BY <4>1, <4>2 DEF TermInv
    <3> QED BY <1>1, <3>2, <3>3
  <2> QED BY <2>1, <2>2, <2>3
<1>9. FailedInv'
  BY <1>1, <1>4 DEF IInv, FailedInv
<1>10. ClosedInv'
  <2>1. goaway' \/ termSent' => closing'
    <3>1. \A i \in sent : queue[i] \in {"goaway", "term"} => i \in Goaways(sent)
      BY DEF Goaways
    <3>2. goaway' \/ termSent' => goaway \/ termSent \/ Goaways(sent) # {}
      <4>1. termSent' => termSent \/ Goaways(sent) # {}
        BY <1>5, <3>1
      <4>2. goaway' => goaway \/ Goaways(sent) # {}
        BY <1>5, <3>1
      <4> QED BY <4>1, <4>2
    <3> QED BY <1>1, <1>6, <3>2 DEF IInv, ClosedInv
  <2>2. closed => UNCHANGED <<reason, termOn, termSent>>
    <3> SUFFICES ASSUME closed PROVE UNCHANGED <<reason, termOn, termSent>>
      OBVIOUS
    <3>1. sent = {} /\ Goaways(sent) = {}
      BY <1>1, WritesNothing DEF sent, Goaways
    <3> QED BY Zenon, <1>4, <1>5, <1>6, <3>1, Flags DEF IInv
  <2>3. queue = <<>> => queue' = <<>>
    BY <1>1, <1>2, EmptySeq
  <2> QED BY <1>1, <1>4, <1>8, <2>1, <2>2, <2>3, Reported DEF IInv
<1> QED BY <1>7, <1>8, <1>9, <1>10 DEF IInv

\* Every call, nested or not, keeps the inductive invariant.
THEOREM NextPreservesInv == IInv /\ [Next]_vars => IInv'
<1> SUFFICES ASSUME IInv, [Next]_vars PROVE IInv'
  OBVIOUS
<1>1. CASE calls' \in Seq(Calls) /\ UNCHANGED <<flags, reason, closedEvents, native>>
  <2>1. TypeOK' /\ FailedInv'
    BY <1>1 DEF IInv, TypeOK, FailedInv, flags, native
  <2>2. TermInv' /\ ClosedInv'
    BY <1>1 DEF IInv, TermInv, FinalAt, ClosedInv, TerminationReason, WantRead, WantWrite,
                flags, native
  <2> QED BY <2>1, <2>2 DEF IInv
<1>2. ASSUME NEW call \in Calls, Begin(call) PROVE IInv'
  BY <1>1, <1>2, AppendProperties DEF Begin, IInv, TypeOK
<1>3. CASE Reject
  BY <1>1, <1>3, CallEnds DEF Reject, IInv, TypeOK
<1>4. CASE Act
  <2>1. calls' \in Seq(Calls)
    BY <1>4, CallEnds DEF Act, Finish, IInv, TypeOK
  <2> QED BY <1>4, <2>1, InitiateKeeps, ReceiveDataKeeps, SubmitKeeps, TerminateKeeps,
             DataToSendKeeps, FailKeeps DEF Act, DataToSendFails
<1>5. CASE UNCHANGED vars
  BY <1>1, <1>5 DEF vars, IInv, TypeOK
<1> QED BY <1>2, <1>3, <1>4, <1>5 DEF Next

\* The inductive invariant holds in every reachable state.
LEMMA Invariance == Spec => []IInv
BY InitInv, NextPreservesInv, PTL DEF Spec
-----------------------------------------------------------------------------
(* What callers see.                                                       *)

\* A session that has nothing more to do is reported closed by the call that
\* brought it there (_update_terminal_state).
THEOREM Reports == Spec => []DoneIsReported
<1>1. IInv => DoneIsReported
  BY DEF IInv, ClosedInv, DoneIsReported
<1> QED BY <1>1, Invariance, PTL

\* ConnectionClosed behind a termination carries the reason of the termination,
\* whatever GOAWAY either side sent before (_frame_sent, _goaway_received).
THEOREM Reason == Spec => []TerminationReason
<1>1. IInv => TerminationReason
  BY DEF IInv, ClosedInv
<1> QED BY <1>1, Invariance, PTL

\* A session freed by a failure is not touched, by calls that were converting
\* their arguments then or by later ones (_fail, _require_active).
THEOREM FreedIsLeft == Spec => NoStaleSession
<1>1. IInv /\ [Next]_vars => [session = "freed" => UNCHANGED native]_vars
  <2> SUFFICES ASSUME IInv, Next, session = "freed" PROVE UNCHANGED native
    OBVIOUS
  <2>1. failed
    BY DEF IInv, FailedInv
  <2>2. ~Act
    BY <2>1 DEF Act, Initiate, Upgrade, ReceiveData, Submit, SendGoaway, SendShutdownNotice,
                TerminateConnection, DataToSend, DataToSendFails, RequireCreated, RequireActive
  <2> QED BY <2>2 DEF Next, Begin, Reject
<1> QED BY <1>1, Invariance, PTL DEF Spec, NoStaleSession

\* Nothing is written, revived or published behind the closure
\* (_update_terminal_state, _fail, data_to_send).
THEOREM ClosedIsLast == Spec => NothingAfterClosed
<1> DEFINE Stays == closed' /\ (failed => failed' /\ ~active')
                    /\ written' = written /\ closedEvents' = closedEvents
<1>1. IInv /\ [Next]_vars => [closed \/ lost => Stays]_vars
  <2> SUFFICES ASSUME IInv, Next, closed PROVE Stays
    BY DEF IInv, FailedInv
  <2>1. failed => ~active
    BY DEF IInv, FailedInv
  <2>2. CASE UNCHANGED <<flags, closedEvents, written>>
    BY <2>1, <2>2 DEF flags
  <2>3. CASE Fail
    BY <2>3 DEF Fail
  <2>4. ASSUME NEW n \in 0 .. Len(queue), NEW begun \in BOOLEAN, DataToSend(n, begun)
        PROVE  Stays
    <3>1. ~failed /\ UNCHANGED <<failed, active>>
      BY <2>4 DEF DataToSend
    <3>2. Sent(n) = {} /\ ~begun
      BY <2>4, <3>1, WritesNothing DEF DataToSend
    <3>3. written' = written + 0 + 0
      BY <2>4, <3>2, FS_EmptySet DEF DataToSend
    <3>4. written' = written
      BY <3>3 DEF IInv, TypeOK
    <3>5. closed' /\ closedEvents' = closedEvents
      BY <2>4 DEF DataToSend, UpdateTerminalState
    <3> QED BY <3>1, <3>4, <3>5
  <2>5. (~RequireActive /\ ~RequireCreated) \/ failed
    BY DEF IInv, ClosedInv, RequireActive, RequireCreated
  <2> QED BY <2>2, <2>3, <2>4, <2>5 DEF Next, Begin, Reject, Act, Initiate, Upgrade, ReceiveData,
        Submit, SendGoaway, SendShutdownNotice, TerminateConnection, DataToSendFails, RequireCreated, RequireActive,
        native
<1> QED BY <1>1, Invariance, PTL DEF Spec, NothingAfterClosed
=============================================================================
