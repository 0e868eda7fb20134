------------------------------ MODULE Lifecycle ------------------------------
(***************************************************************************)
(* The life of a Connection: initiation, shutdown by either side,          *)
(* termination, failure, and the calls that may arrive at any point of it. *)
(*                                                                         *)
(* Converting an argument runs user code (__index__, iterators, buffers),  *)
(* which may call the same connection: a call is a conversion, during      *)
(* which other calls begin and end, and then one step that checks the      *)
(* state and acts.  "calls" is the stack of calls being converted.         *)
(*                                                                         *)
(* libnghttp2 is external: its queue of frames, its GOAWAY flags and the   *)
(* two questions nghttp2_session_want_read and _want_write.                *)
(***************************************************************************)
EXTENDS Integers, FiniteSets, Sequences, SequencesExt

CONSTANTS
    MaxDepth,   \* bound: calls nested in each other's argument conversion
    MaxFrames,  \* bound: frames queued in the life of the connection
    MaxStreams  \* bound: streams opened in the life of the connection

ASSUME LifecycleAssumption == {MaxDepth, MaxFrames, MaxStreams} \subseteq Nat

VARIABLES
    \* The Connection object.
    calls,        \* calls whose arguments are being converted, innermost last
    active, failed, terminating, closing, closed,
    reason,       \* _close_error_code: the GOAWAY it was taken from
    closedEvents, \* ConnectionClosed events published
    \* The libnghttp2 session.
    session,      \* "live" or "freed"
    queue,        \* frames not yet written completely, in order
    termOn,       \* a final GOAWAY was queued, termSent: and sent
    termSent,
    goaway,       \* a GOAWAY was sent or received
    streams,      \* open streams
    opened,       \* history: streams opened
    written,      \* history: frames written completely
    lost          \* history: a drive raised, the output it had serialized is gone

flags == <<active, failed, terminating, closing, closed>>
native == <<session, queue, termOn, termSent, goaway, streams, opened, written,
            lost>>
vars == <<calls, flags, reason, closedEvents, native>>

Calls == {"initiate", "upgrade", "receive", "submit", "goaway", "terminate", "send"}

Init ==
    /\ calls = <<>>
    /\ active = FALSE /\ failed = FALSE /\ terminating = FALSE
    /\ closing = FALSE /\ closed = FALSE
    /\ reason = "none"
    /\ closedEvents = 0
    /\ session = "live"
    /\ queue = <<>>
    /\ termOn = FALSE /\ termSent = FALSE /\ goaway = FALSE
    /\ streams = 0 /\ opened = 0 /\ written = 0 /\ lost = FALSE

\* nghttp2_session_want_read and nghttp2_session_want_write.
WantRead == ~termSent /\ (streams > 0 \/ ~goaway)
WantWrite == ~termSent /\ queue # <<>>
-----------------------------------------------------------------------------
(* Guards and effects shared by several calls.                             *)

\* _require_created.
RequireCreated == ~failed /\ ~active

\* Mutant: the state is not checked again after the conversion.
RequireNothing == TRUE

\* _require_active.
RequireActive == ~failed /\ active /\ ~terminating

\* _fail: the session is freed and the object is of no further use.
Fail ==
    /\ failed' = TRUE
    /\ active' = FALSE /\ terminating' = FALSE /\ closing' = FALSE
    /\ closed' = TRUE
    /\ session' = "freed"
    /\ UNCHANGED <<reason, closedEvents, queue, termOn, termSent, goaway, streams,
                   opened, written>>

\* Mutant: the closure is published while output is left.
PublishEarly ==
    IF closing' /\ ~closed /\ ~WantRead'
    THEN /\ terminating' = TRUE
         /\ closed' = TRUE
         /\ closedEvents' = closedEvents + 1
    ELSE UNCHANGED <<terminating, closed, closedEvents>>

\* _update_terminal_state, called at the end of receive_data() and
\* data_to_send() once _closing is set.
UpdateTerminalState ==
    IF closing' /\ ~closed /\ ~WantRead' /\ ~WantWrite'
    THEN /\ terminating' = TRUE
         /\ closed' = TRUE
         /\ closedEvents' = closedEvents + 1
    ELSE UNCHANGED <<terminating, closed, closedEvents>>

\* Another frame may be queued.
Room == written + Len(queue) < MaxFrames

Enqueue(frame) == queue' = Append(queue, frame)

\* nghttp2_session_terminate_session: the final GOAWAY, once.
SubmitFinalGoaway ==
    /\ termOn' = TRUE
    /\ IF termOn THEN UNCHANGED queue ELSE Enqueue("term")
-----------------------------------------------------------------------------
(* The second half of each call: guards, then the effect.                  *)

\* initiate_connection().
Initiate ==
    /\ RequireCreated /\ Room
    /\ Enqueue("frame")
    /\ active' = TRUE
    /\ UNCHANGED <<failed, terminating, closing, closed, reason, closedEvents, session,
                   termOn, termSent, goaway, streams, opened, written, lost>>

\* initiate_upgrade(): stream 1 exists already.  A payload libnghttp2 rejects
\* leaves the connection as it was; a later failure makes it unusable.
Upgrade ==
    /\ RequireCreated /\ Room /\ opened < MaxStreams
    /\ \/ /\ Enqueue("frame")
          /\ active' = TRUE
          /\ streams' = streams + 1 /\ opened' = opened + 1
          /\ UNCHANGED <<failed, terminating, closing, closed, reason, closedEvents, session,
                         termOn, termSent, goaway, written, lost>>
       \/ Fail /\ UNCHANGED lost

\* What peer input does to the session: a frame that calls for an answer, a
\* stream opened or closed, GOAWAY, a violation answered with the final GOAWAY.
\* After that GOAWAY is queued libnghttp2 ignores its input.
Input ==
    \/ /\ ~termOn /\ Room
       /\ Enqueue("frame")
       /\ UNCHANGED <<closing, reason, termOn, goaway, streams, opened>>
    \/ /\ ~termOn /\ opened < MaxStreams
       /\ streams' = streams + 1 /\ opened' = opened + 1
       /\ UNCHANGED <<closing, reason, queue, termOn, goaway>>
    \/ /\ ~termOn /\ streams > 0
       /\ streams' = streams - 1
       /\ UNCHANGED <<closing, reason, queue, termOn, goaway, opened>>
    \/ /\ ~termOn
       /\ closing' = TRUE
       /\ reason' = "peer"
       /\ goaway' = TRUE
       /\ UNCHANGED <<queue, termOn, streams, opened>>
    \/ /\ Room
       /\ SubmitFinalGoaway
       /\ UNCHANGED <<closing, reason, goaway, streams, opened>>

\* receive_data(), which fails on input that cannot be handled at all.
ReceiveData ==
    /\ RequireActive
    /\ \/ /\ Input
          /\ UNCHANGED <<active, failed, session, termSent, written, lost>>
          /\ UpdateTerminalState
       \/ Fail /\ UNCHANGED lost

\* Any call that queues a frame; a request opens a stream unless GOAWAY was
\* exchanged.  Running out of memory fails the connection.
Submit ==
    /\ RequireActive
    /\ \/ /\ Room
          /\ Enqueue("frame")
          /\ \/ /\ ~goaway /\ ~termOn /\ opened < MaxStreams
                /\ streams' = streams + 1 /\ opened' = opened + 1
             \/ UNCHANGED <<streams, opened>>
          /\ UNCHANGED <<flags, reason, closedEvents, session, termOn, termSent,
                         goaway, written, lost>>
       \/ Fail /\ UNCHANGED lost

\* send_goaway(); nothing follows the final GOAWAY.
SendGoaway ==
    /\ RequireActive /\ Room
    /\ IF termOn THEN UNCHANGED queue ELSE Enqueue("goaway")
    /\ UNCHANGED <<flags, reason, closedEvents, session, termOn, termSent, goaway,
                   streams, opened, written, lost>>

\* send_shutdown_notice(): a GOAWAY that announces another.  libnghttp2 skips it
\* once a GOAWAY was exchanged or the final one is queued.
SendShutdownNotice ==
    /\ RequireActive /\ Room
    /\ IF termOn \/ goaway THEN UNCHANGED queue ELSE Enqueue("notice")
    /\ UNCHANGED <<flags, reason, closedEvents, session, termOn, termSent, goaway,
                   streams, opened, written, lost>>

\* terminate_connection().
TerminateConnection ==
    /\ RequireActive /\ Room
    /\ SubmitFinalGoaway
    /\ terminating' = TRUE /\ closing' = TRUE
    /\ UNCHANGED <<active, failed, closed, reason, closedEvents, session, termSent,
                   goaway, streams, opened, written, lost>>

\* The positions of the frames that are written when the first n leave the
\* queue: with the final GOAWAY queued, libnghttp2 drops all but GOAWAYs.
Sent(n) == {i \in 1 .. n : termOn => queue[i] # "frame"}

\* The GOAWAYs among the frames written, notices included.
Goaways(sent) == {i \in sent : queue[i] # "frame"}

\* Mutant: the first GOAWAY sent gives the reason.
FrameSentFirst(sent) ==
    \/ Goaways(sent) = {} /\ UNCHANGED <<closing, reason>>
    \/ \E first \in Goaways(sent) :
        /\ \A i \in Goaways(sent) : first <= i
        /\ closing' = TRUE
        /\ reason' = IF closing THEN reason ELSE queue[first]

\* Mutant: a GOAWAY of our own does not mean that the connection closes.
FrameSentIgnored(sent) == UNCHANGED <<closing, reason>>

\* _frame_sent: the last GOAWAY sent gives the reason.
FrameSent(sent) ==
    \/ Goaways(sent) = {} /\ UNCHANGED <<closing, reason>>
    \/ \E last \in Goaways(sent) :
        /\ \A i \in Goaways(sent) : i <= last
        /\ closing' = TRUE
        /\ reason' = queue[last]

\* data_to_send() without an error: n frames leave the queue, all of them without a limit, and a
\* stream may end.  "begun": the first of them was written in part before the
\* final GOAWAY was queued, and is not dropped.  A notice sets _closing as every
\* GOAWAY does, but libnghttp2 goes on reading as if none had been sent.
DataToSend(n, begun) ==
    /\ ~failed /\ active
    /\ begun => n > 0 /\ termOn /\ ~termSent /\ queue[1] = "frame"
    /\ LET sent == Sent(n)
       IN  /\ queue' = SubSeq(queue, n + 1, Len(queue))
           /\ written' = written + Cardinality(sent) + (IF begun THEN 1 ELSE 0)
           /\ termSent' = (termSent \/ \E i \in sent : queue[i] = "term")
           /\ goaway' = (goaway \/ \E i \in sent : queue[i] \in {"goaway", "term"})
           /\ streams' \in {streams} \cup (IF streams > 0 /\ n > 0 THEN {streams - 1} ELSE {})
           /\ FrameSent(sent)
           /\ UpdateTerminalState
           /\ UNCHANGED <<active, failed, session, termOn, opened, lost>>

\* Mutant: the exception is passed on and nothing else.
RaiseOnly ==
    /\ ~failed /\ active
    /\ lost' = TRUE
    /\ UNCHANGED <<flags, reason, closedEvents, session, queue, termOn, termSent, goaway,
                   streams, opened, written>>

\* data_to_send() with an error in the middle: what libnghttp2 serialized in this
\* drive is lost and cannot be made again, so the connection fails.
DataToSendFails ==
    /\ ~failed /\ active
    /\ lost' = TRUE
    /\ Fail
-----------------------------------------------------------------------------
(* Calls.                                                                  *)

\* A call begins: its arguments are converted.  Nothing is checked before, and
\* user code of the conversion may begin another.
Begin(call) ==
    /\ Len(calls) < MaxDepth
    /\ calls' = Append(calls, call)
    /\ UNCHANGED <<flags, reason, closedEvents, native>>

\* The conversion raises, or the checks behind it reject the call.
Reject ==
    /\ calls # <<>>
    /\ calls' = Front(calls)
    /\ UNCHANGED <<flags, reason, closedEvents, native>>

\* The innermost call is converted and acts.
Finish(call) ==
    /\ calls # <<>> /\ Last(calls) = call
    /\ calls' = Front(calls)

Act ==
    \/ Finish("initiate") /\ Initiate
    \/ Finish("upgrade") /\ Upgrade
    \/ Finish("receive") /\ ReceiveData
    \/ Finish("submit") /\ Submit
    \/ Finish("goaway") /\ (SendGoaway \/ SendShutdownNotice)
    \/ Finish("terminate") /\ TerminateConnection
    \/ \E n \in 0 .. Len(queue), begun \in BOOLEAN : Finish("send") /\ DataToSend(n, begun)
    \/ Finish("send") /\ DataToSendFails

Next == (\E call \in Calls : Begin(call)) \/ Reject \/ Act

Spec == Init /\ [][Next]_vars

\* The caller drives output until the connection closes: between any other
\* calls it makes, a data_to_send() call without a limit begins and acts.
Drive == \E begun \in BOOLEAN : Finish("send") /\ DataToSend(Len(queue), begun)

Fairness == WF_vars(Act \/ Reject) /\ SF_vars(Begin("send")) /\ SF_vars(Drive)

FairSpec == Spec /\ Fairness
-----------------------------------------------------------------------------
(* Properties.                                                             *)

\* Every variable stays within its type.
TypeOK ==
    /\ calls \in Seq(Calls)
    /\ {active, failed, terminating, closing, closed} \subseteq BOOLEAN
    /\ reason \in {"none", "peer", "notice", "goaway", "term"}
    /\ closedEvents \in Nat
    /\ session \in {"live", "freed"}
    /\ queue \in Seq({"frame", "notice", "goaway", "term"})
    /\ {termOn, termSent, goaway, lost} \subseteq BOOLEAN
    /\ {streams, opened, written} \subseteq Nat

\* A call that fails the connection while another converts its arguments leaves
\* that one a freed session: it is not touched again, whatever calls were nested.
NoStaleSession == [][session = "freed" => UNCHANGED native]_vars

\* Closed is for good, and comes last: once ConnectionClosed is published, the
\* connection failed or a drive lost its output, no call writes another frame
\* (the peer would see a gap), none revives the connection and none publishes
\* a second ConnectionClosed.
NothingAfterClosed ==
    [][closed \/ lost =>
            /\ closed' /\ (failed => failed' /\ ~active')
            /\ written' = written /\ closedEvents' = closedEvents]_vars

\* A session that wants neither to read nor to write is reported closed before
\* the call that brought it there returns; no later call is needed to find out.
DoneIsReported ==
    /\ TypeOK
    /\ active /\ ~WantRead /\ ~WantWrite => closed

\* After a termination the event carries its reason, not that of a GOAWAY or
\* notice sent or received before.
TerminationReason == termOn /\ closedEvents = 1 => reason = "term"

\* A termination by either side ends in ConnectionClosed or failure.
TerminationEnds == termOn ~> closed
=============================================================================
