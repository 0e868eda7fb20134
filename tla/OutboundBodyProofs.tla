-------------------------- MODULE OutboundBodyProofs --------------------------
(***************************************************************************)
(* Proofs about OutboundBody, for every set of streams, role, limit, frame *)
(* size and window: no wakeup is lost, END_STREAM comes once and behind    *)
(* the body, limits hold, what is kept for a stream lives as long as it,   *)
(* deferred resets are neither stranded nor early, and the connection      *)
(* implements BodyDelivery.                                                *)
(*                                                                         *)
(* A stream is followed through its frames: one HEADERS, queued and then   *)
(* being written, starts its DATA item; the item gives it DATA frames and  *)
(* one end; the end, sent, closes its local direction.                     *)
(***************************************************************************)
EXTENDS OutboundBody, FiniteSetTheorems, TLAPS

\* Where the HEADERS and the END_STREAM of s are.
HeadersQueued(s) == \E f \in control : f.kind = "HEADERS" /\ f.stream = s
HeadersWriting(s) == aob # NoFrame /\ aob.kind = "HEADERS" /\ aob.stream = s
EndQueued(s) == \E f \in control : f.stream = s /\ f.end
EndWriting(s) == aob # NoFrame /\ aob.stream = s /\ aob.end
EndAhead(s) == EndQueued(s) \/ EndWriting(s)

\* HEADERS of s that a body follows.
BodyHeaders(s) ==
    \/ \E f \in control : f.kind = "HEADERS" /\ f.stream = s /\ ~f.end
    \/ HeadersWriting(s) /\ ~aob.end

\* The last DATA frame of s is being written.
LastData(s) == aob # NoFrame /\ aob.kind = "DATA" /\ aob.stream = s

\* A stream on which no message was begun.
Fresh(s) == \/ state[s] = "idle"
            \/ Server /\ conn = "active" /\ Exists(s) /\ s \notin responses

\* What is left to write is what was asked for, less what was written.
OutputInv ==
    /\ ~driving => room = 0
    /\ IF limit = Unlimited THEN driving => room = Unlimited
       ELSE outSize <= limit /\ (driving => room = limit - outSize)

\* Streams of a server are opened by the peer.
RoleInv == Server => \A s \in Streams : state[s] \notin {"opening", "cancelled"}

\* Nothing was sent or queued on a fresh stream but a reset.
FreshInv ==
    \A s \in Streams : Fresh(s) =>
        /\ s \notin bodies /\ s \notin opened /\ s \notin shutWr
        /\ item[s] = "none"
        /\ ~HeadersQueued(s) /\ ~HeadersWriting(s) /\ ~EndAhead(s)

\* Bytes and the history of bodies.
BodyInv ==
    /\ bodies \subseteq opened /\ eof \subseteq opened
    /\ \A s \in Streams :
        /\ accepted[s] <= MaxBytes /\ taken[s] <= accepted[s]
        /\ s \notin opened => accepted[s] = 0 /\ taken[s] = 0
        /\ s \in eof => taken[s] = accepted[s]
        /\ s \in bodies /\ s \in eof => ended[s]

\* One HEADERS frame for each stream, before its DATA item starts.
HeadersInv ==
    /\ \A f, g \in control :
        f.kind = "HEADERS" /\ g.kind = "HEADERS" /\ f.stream = g.stream => f = g
    /\ \A s \in Streams :
        HeadersQueued(s) \/ HeadersWriting(s) =>
            /\ item[s] = "none" /\ s \notin eof /\ state[s] # "idle"
            /\ ~(HeadersQueued(s) /\ HeadersWriting(s))

\* Bodies last until their streams close, and every body that is still needed is
\* there.
KeptInv ==
    /\ \A s \in bodies \cup responses \cup deferredResets :
        conn = "active" /\ state[s] \notin {"idle", "closed"}
    /\ conn = "active" => \A s \in Streams :
        /\ BodyHeaders(s) /\ state[s] # "closed" => s \in bodies
        /\ s \in opened /\ state[s] # "closed" => s \in bodies

\* Items of streams that are read, that sleep, and that are done.
ItemInv ==
    \A s \in Streams :
        /\ conn = "active" /\ item[s] # "none" => s \in bodies
        /\ item[s] = "ready" /\ s \in eof => LastData(s)

\* A flag is set for sleeping streams only, which have nothing to send.
WakeInv ==
    conn = "active" =>
        /\ \A s \in bodies :
            deferred[s] => item[s] = "deferred" /\ Queued(s) = 0 /\ ~ended[s]
        /\ \A s \in Streams : item[s] = "deferred" => s \in bodies /\ deferred[s]

\* One end for each stream, behind its body, and written only when it is open.
EndsInv ==
    /\ \A f, g \in control : f.end /\ g.end /\ f.stream = g.stream => f = g
    /\ \A f \in control : f.kind = "RST" => ~f.end
    /\ \A s \in Streams :
        /\ EndWriting(s) => state[s] \in {"open", "closing", "closed"}
        /\ ~(EndQueued(s) /\ EndWriting(s))
        /\ s \in shutWr => ~EndAhead(s)
        /\ s \in bodies /\ (EndAhead(s) \/ s \in shutWr) => s \in eof

\* A message without more body to read has its end ahead or behind.
AheadInv ==
    conn = "active" => \A s \in Streams :
        /\ state[s] \in {"opening", "open"}
        /\ ~Server \/ s \in responses
        /\ s \notin shutWr
        /\ s \notin bodies \/ s \in eof
        => EndAhead(s)

\* A reset that waits has something to wait for, and was asked for after the end.
ResetInv ==
    \A s \in deferredResets :
        /\ Exists(s) /\ s \notin shutWr
        /\ s \in bodies => ended[s]
        /\ Server => s \in responses
        /\ \/ state[s] = "closing"
           \/ EndAhead(s)
           \/ s \in bodies /\ ended[s] /\ s \notin eof

\* The inductive invariant.
IInv ==
    /\ TypeOK /\ opened \subseteq Streams
    /\ OutputInv
    /\ RoleInv
    /\ FreshInv
    /\ BodyInv
    /\ HeadersInv
    /\ KeptInv
    /\ ItemInv
    /\ WakeInv
    /\ EndsInv
    /\ AheadInv
    /\ ResetInv
-----------------------------------------------------------------------------
(* Every step keeps the invariant.                                         *)

\* A request opens a stream that was fresh.
LEMMA SendRequestKeeps ==
    ASSUME IInv, NEW s \in Streams, NEW end \in BOOLEAN, SendRequest(s, end)
    PROVE  IInv'
<1> USE DEF IInv, TypeOK, SendRequest, Active, NewBody, NoBody, Headers, outputVars
<1>1. TypeOK' /\ (opened \subseteq Streams)'
  <2>1. Headers(s, end) \in Control
    BY DEF Control
  <2>2. (control \subseteq Control)'
    BY <2>1
  <2>3. (state \in [Streams -> {"idle", "opening", "cancelled", "open", "closing", "closed"}])'
    OBVIOUS
  <2>4. (bodies \subseteq Streams /\ opened \subseteq Streams)'
    OBVIOUS
  <2>5. (ended \in [Streams -> BOOLEAN] /\ deferred \in [Streams -> BOOLEAN]
         /\ trailers \in [Streams -> BOOLEAN])'
    OBVIOUS
  <2> QED BY <2>2, <2>3, <2>4, <2>5
<1>2. OutputInv'
  BY DEF OutputInv
<1>3. RoleInv'
  BY DEF RoleInv
<1>4. FreshInv'
  BY DEF FreshInv, Fresh, HeadersQueued, HeadersWriting, EndAhead, EndQueued, EndWriting
<1>5. BodyInv'
  BY DEF BodyInv, FreshInv, Fresh
<1>6. HeadersInv'
  <2>1. ~HeadersQueued(s) /\ ~HeadersWriting(s) /\ Fresh(s)
    BY DEF FreshInv, Fresh
  <2>2. s \notin eof /\ item[s] = "none"
    BY <2>1 DEF FreshInv, BodyInv
  <2>3. \A t \in Streams : HeadersQueued(t)' => t = s \/ HeadersQueued(t)
    BY DEF HeadersQueued
  <2> QED BY <2>1, <2>2, <2>3 DEF HeadersInv, HeadersQueued, HeadersWriting
<1>7. KeptInv'
  BY DEF KeptInv, BodyHeaders, HeadersWriting
<1>8. ItemInv'
  BY DEF ItemInv, LastData
<1>9. WakeInv'
  BY DEF WakeInv, Queued, FreshInv, Fresh
<1>10. EndsInv'
  BY DEF EndsInv, FreshInv, Fresh, EndAhead, EndQueued, EndWriting
<1>11. AheadInv'
  <2>1. \A t \in Streams : EndAhead(t) => EndAhead(t)'
    BY DEF EndAhead, EndQueued, EndWriting
  <2>2. end => EndAhead(s)'
    <3>1. Headers(s, end) \in control' /\ Headers(s, end).stream = s /\ Headers(s, end).end = end
      OBVIOUS
    <3> QED BY <3>1 DEF EndAhead, EndQueued
  <2>3. ~end => s \in bodies' /\ s \notin eof
    BY DEF FreshInv, Fresh, BodyInv
  <2> QED BY <2>1, <2>2, <2>3 DEF AheadInv
<1>12. ResetInv'
  BY DEF ResetInv, EndAhead, EndQueued, EndWriting, Exists
<1> QED BY <1>1, <1>2, <1>3, <1>4, <1>5, <1>6, <1>7, <1>8, <1>9, <1>10, <1>11, <1>12

\* A response is the first message on its stream.
LEMMA SendResponseKeeps ==
    ASSUME IInv, NEW s \in Streams, NEW end \in BOOLEAN, SendResponse(s, end)
    PROVE  IInv'
<1> USE OutboundBodyAssumption, NoFrameAssumption DEF IInv, TypeOK, SendResponse,
        Active, NewBody, NoBody, Headers, outputVars
<1>1. TypeOK' /\ (opened \subseteq Streams)'
  <2>1. Headers(s, end) \in Control
    BY DEF Control
  <2>2. (control \subseteq Control)'
    BY <2>1
  <2> QED BY <2>2
<1>2. OutputInv'
  BY DEF OutputInv
<1>3. RoleInv'
  BY DEF RoleInv
<1>4. FreshInv'
  BY DEF FreshInv, Fresh, HeadersQueued, HeadersWriting, EndAhead, EndQueued, EndWriting,
     Exists
<1>5. BodyInv'
  BY DEF BodyInv, FreshInv, Fresh
<1>6. HeadersInv'
  <2>1. ~HeadersQueued(s) /\ ~HeadersWriting(s) /\ Fresh(s)
    BY DEF FreshInv, Fresh
  <2>2. s \notin eof /\ item[s] = "none"
    BY <2>1 DEF FreshInv, BodyInv
  <2>3. \A t \in Streams : HeadersQueued(t)' => t = s \/ HeadersQueued(t)
    BY DEF HeadersQueued
  <2> QED BY <2>1, <2>2, <2>3 DEF HeadersInv, HeadersQueued, HeadersWriting, Exists
<1>7. KeptInv'
  BY DEF KeptInv, BodyHeaders, HeadersWriting, Exists
<1>8. ItemInv'
  BY DEF ItemInv, LastData
<1>9. WakeInv'
  BY DEF WakeInv, Queued, FreshInv, Fresh
<1>10. EndsInv'
  BY DEF EndsInv, FreshInv, Fresh, EndAhead, EndQueued, EndWriting
<1>11. AheadInv'
  <2>1. \A t \in Streams : EndAhead(t) => EndAhead(t)'
    BY DEF EndAhead, EndQueued, EndWriting
  <2>2. end => EndAhead(s)'
    <3>1. Headers(s, end) \in control' /\ Headers(s, end).stream = s /\ Headers(s, end).end = end
      OBVIOUS
    <3> QED BY <3>1 DEF EndAhead, EndQueued
  <2>3. ~end => s \in bodies' /\ s \notin eof
    BY DEF FreshInv, Fresh, BodyInv
  <2> QED BY <2>1, <2>2, <2>3 DEF AheadInv
<1>12. ResetInv'
  BY DEF ResetInv, FreshInv, Fresh, EndAhead, EndQueued, EndWriting, Exists
<1> QED BY <1>1, <1>2, <1>3, <1>4, <1>5, <1>6, <1>7, <1>8, <1>9, <1>10, <1>11, <1>12

\* Accepted bytes, or an end, wake the stream they are for.
LEMMA SendDataKeeps ==
    ASSUME IInv, NEW s \in Streams, NEW n \in 0 .. MaxBytes - accepted[s],
           NEW last \in BOOLEAN, SendData(s, n, last)
    PROVE  IInv'
<1> USE OutboundBodyAssumption DEF IInv, TypeOK, SendData, Active, Resume, Wakes,
        outputVars
<1>1. TypeOK' /\ (opened \subseteq Streams)'
  <2>1. accepted[s] + n \in Nat
    OBVIOUS
  <2>2. (accepted \in [Streams -> Nat])'
    BY <2>1
  <2>3. (item \in [Streams -> {"none", "ready", "deferred"}])' /\ (deferred \in [Streams -> BOOLEAN])'
    OBVIOUS
  <2> QED BY <2>2, <2>3
<1>2. OutputInv'
  BY DEF OutputInv
<1>3. RoleInv'
  BY DEF RoleInv
<1>4. FreshInv'
  BY DEF FreshInv, Fresh, HeadersQueued, HeadersWriting, EndAhead, EndQueued, EndWriting,
     Exists
<1>5. BodyInv'
  BY DEF BodyInv
<1>6. HeadersInv'
  BY DEF HeadersInv, HeadersQueued, HeadersWriting
<1>7. KeptInv'
  BY DEF KeptInv, BodyHeaders, HeadersWriting
<1>8. ItemInv'
  BY DEF ItemInv, LastData, BodyInv
<1>9. WakeInv'
  <2>1. n \in Nat /\ accepted[s] \in Nat /\ taken[s] \in Nat
    OBVIOUS
  <2>2. \A t \in Streams : t # s => Queued(t)' = Queued(t)
    BY DEF Queued
  <2>3. deferred[s] => item[s] = "deferred" /\ Queued(s) = 0
    BY DEF WakeInv
  <2>4. deferred'[s] => deferred[s] /\ item'[s] = "deferred" /\ n = 0 /\ ~last
    BY <2>1, <2>3
  <2>5. deferred'[s] => Queued(s)' = 0 /\ ~ended'[s]
    BY <2>1, <2>3, <2>4 DEF Queued
  <2>6. item'[s] = "deferred" => deferred'[s]
    BY DEF WakeInv
  <2> QED BY <2>2, <2>4, <2>5, <2>6 DEF WakeInv
<1>10. EndsInv'
  BY DEF EndsInv, EndAhead, EndQueued, EndWriting
<1>11. AheadInv'
  BY DEF AheadInv, EndAhead, EndQueued, EndWriting
<1>12. ResetInv'
  BY DEF ResetInv, EndAhead, EndQueued, EndWriting, Exists
<1> QED BY <1>1, <1>2, <1>3, <1>4, <1>5, <1>6, <1>7, <1>8, <1>9, <1>10, <1>11, <1>12

\* Trailers end the body and wake its stream.
LEMMA SendTrailersKeeps ==
    ASSUME IInv, NEW s \in Streams, SendTrailers(s)
    PROVE  IInv'
<1> USE DEF IInv, TypeOK, SendTrailers, Resume, outputVars, history
<1>1. TypeOK' /\ (opened \subseteq Streams)'
  BY DEF Frame, Control, Unlimited, Exists
<1>2. OutputInv'
  BY DEF OutputInv
<1>3. RoleInv'
  BY DEF RoleInv
<1>4. FreshInv'
  BY DEF FreshInv, Fresh, HeadersQueued, HeadersWriting, EndAhead, EndQueued, EndWriting,
     Exists
<1>5. BodyInv'
  BY DEF BodyInv
<1>6. HeadersInv'
  BY DEF HeadersInv, HeadersQueued, HeadersWriting
<1>7. KeptInv'
  BY DEF KeptInv, BodyHeaders, HeadersWriting
<1>8. ItemInv'
  BY DEF ItemInv, LastData, BodyInv
<1>9. WakeInv'
  BY DEF WakeInv, Queued
<1>10. EndsInv'
  BY DEF EndsInv, EndAhead, EndQueued, EndWriting
<1>11. AheadInv'
  BY DEF AheadInv, EndAhead, EndQueued, EndWriting
<1>12. ResetInv'
  BY DEF ResetInv, EndAhead, EndQueued, EndWriting, Exists
<1> QED BY <1>1, <1>2, <1>3, <1>4, <1>5, <1>6, <1>7, <1>8, <1>9, <1>10, <1>11, <1>12

\* A reset stops the stream and leaves its queue to be closed.
LEMMA ResetStreamKeeps ==
    ASSUME IInv, NEW s \in Streams, ResetStream(s)
    PROVE  IInv'
<1> USE DEF IInv, TypeOK, ResetStream, SubmitRst, Rst, bodyVars, outputVars, history
<1>1. TypeOK' /\ (opened \subseteq Streams)'
  <2>1. Rst(s) \in Control
    BY DEF Control
  <2>2. (control \subseteq Control)'
    BY <2>1
  <2> QED BY <2>2
<1>2. OutputInv'
  BY DEF OutputInv
<1>3. RoleInv'
  BY DEF RoleInv
<1>4. FreshInv'
  BY DEF FreshInv, Fresh, HeadersQueued, HeadersWriting, EndAhead, EndQueued, EndWriting,
     Exists
<1>5. BodyInv'
  BY DEF BodyInv
<1>6. HeadersInv'
  BY DEF HeadersInv, HeadersQueued, HeadersWriting
<1>7. KeptInv'
  BY DEF KeptInv, BodyHeaders, HeadersWriting
<1>8. ItemInv'
  BY DEF ItemInv, LastData
<1>9. WakeInv'
  BY DEF WakeInv, Queued
<1>10. EndsInv'
  BY DEF EndsInv, EndAhead, EndQueued, EndWriting
<1>11. AheadInv'
  BY DEF AheadInv, EndAhead, EndQueued, EndWriting
<1>12. ResetInv'
  BY DEF ResetInv, EndAhead, EndQueued, EndWriting, Exists
<1> QED BY <1>1, <1>2, <1>3, <1>4, <1>5, <1>6, <1>7, <1>8, <1>9, <1>10, <1>11, <1>12

\* A reset that may wait has an end to wait for.
LEMMA ResetAfterEndKeeps ==
    ASSUME IInv, NEW s \in Streams, ResetAfterEnd(s)
    PROVE  IInv'
<1> USE DEF IInv, TypeOK, ResetAfterEnd, Active, LocallyEnded, SubmitRst, Rst,
        outputVars, history
<1>1. TypeOK' /\ (opened \subseteq Streams)'
  <2>1. Rst(s) \in Control
    BY DEF Control
  <2>2. control' \subseteq control \cup {Rst(s)} /\ (deferredResets \subseteq Streams)'
    OBVIOUS
  <2> QED BY <2>1, <2>2 DEF Exists
<1>2. OutputInv'
  BY DEF OutputInv
<1>3. RoleInv'
  BY DEF RoleInv
<1>4. FreshInv'
  BY DEF FreshInv, Fresh, HeadersQueued, HeadersWriting, EndAhead, EndQueued, EndWriting,
     Exists
<1>5. BodyInv'
  BY DEF BodyInv
<1>6. HeadersInv'
  BY DEF HeadersInv, HeadersQueued, HeadersWriting
<1>7. KeptInv'
  BY DEF KeptInv, BodyHeaders, HeadersWriting, Exists
<1>8. ItemInv'
  BY DEF ItemInv, LastData
<1>9. WakeInv'
  BY DEF WakeInv, Queued
<1>10. EndsInv'
  BY DEF EndsInv, EndAhead, EndQueued, EndWriting
<1>11. AheadInv'
  BY DEF AheadInv, EndAhead, EndQueued, EndWriting
<1>12. ResetInv'
  BY DEF ResetInv, AheadInv, FreshInv, Fresh, EndAhead, EndQueued, EndWriting, Exists
<1> QED BY <1>1, <1>2, <1>3, <1>4, <1>5, <1>6, <1>7, <1>8, <1>9, <1>10, <1>11, <1>12

\* Termination drops all that is kept for streams.
LEMMA TerminateKeeps ==
    ASSUME IInv, Terminate
    PROVE  IInv'
<1> USE DEF IInv, TypeOK, Terminate, DiscardPendingState, outputVars, nativeVars, history
<1>1. TypeOK' /\ (opened \subseteq Streams)'
  OBVIOUS
<1>2. OutputInv'
  BY DEF OutputInv
<1>3. RoleInv'
  BY DEF RoleInv
<1>4. FreshInv'
  BY DEF FreshInv, Fresh, HeadersQueued, HeadersWriting, EndAhead, EndQueued, EndWriting
<1>5. BodyInv'
  BY DEF BodyInv
<1>6. HeadersInv'
  BY DEF HeadersInv, HeadersQueued, HeadersWriting
<1>7. KeptInv'
  BY DEF KeptInv
<1>8. ItemInv'
  BY DEF ItemInv, LastData
<1>9. WakeInv'
  BY DEF WakeInv
<1>10. EndsInv'
  BY DEF EndsInv, EndAhead, EndQueued, EndWriting
<1>11. AheadInv'
  BY DEF AheadInv
<1>12. ResetInv'
  BY DEF ResetInv
<1> QED BY <1>1, <1>2, <1>3, <1>4, <1>5, <1>6, <1>7, <1>8, <1>9, <1>10, <1>11, <1>12

\* The stream a peer opens is fresh.
LEMMA PeerRequestKeeps ==
    ASSUME IInv, NEW s \in Streams, NEW end \in BOOLEAN, PeerRequest(s, end)
    PROVE  IInv'
<1> USE DEF IInv, TypeOK, PeerRequest, bodyVars, outputVars, history
<1>1. TypeOK' /\ (opened \subseteq Streams)'
  OBVIOUS
<1>2. OutputInv'
  BY DEF OutputInv
<1>3. RoleInv'
  BY DEF RoleInv
<1>4. FreshInv'
  BY DEF FreshInv, Fresh, HeadersQueued, HeadersWriting, EndAhead, EndQueued, EndWriting,
     Exists
<1>5. BodyInv'
  BY DEF BodyInv
<1>6. HeadersInv'
  BY DEF HeadersInv, HeadersQueued, HeadersWriting
<1>7. KeptInv'
  BY DEF KeptInv, BodyHeaders, HeadersWriting
<1>8. ItemInv'
  BY DEF ItemInv, LastData
<1>9. WakeInv'
  BY DEF WakeInv, Queued
<1>10. EndsInv'
  BY DEF EndsInv, EndAhead, EndQueued, EndWriting
<1>11. AheadInv'
  <2>1. \A t \in Streams : EndAhead(t)' = EndAhead(t)
    BY DEF EndAhead, EndQueued, EndWriting
  <2>2. s \notin responses
    BY DEF KeptInv
  <2> QED BY <2>1, <2>2 DEF AheadInv
<1>12. ResetInv'
  BY DEF ResetInv, EndAhead, EndQueued, EndWriting, Exists
<1> QED BY <1>1, <1>2, <1>3, <1>4, <1>5, <1>6, <1>7, <1>8, <1>9, <1>10, <1>11, <1>12

\* The peer's end closes a stream that has ended as well.
LEMMA PeerEndKeeps ==
    ASSUME IInv, NEW s \in Streams, PeerEnd(s)
    PROVE  IInv'
<1> USE DEF IInv, TypeOK, PeerEnd, Close, outputVars, history
<1>1. TypeOK' /\ (opened \subseteq Streams)'
  OBVIOUS
<1>2. OutputInv'
  BY DEF OutputInv
<1>3. RoleInv'
  BY DEF RoleInv
<1>4. FreshInv'
  BY DEF FreshInv, Fresh, HeadersQueued, HeadersWriting, EndAhead, EndQueued, EndWriting,
     Exists
<1>5. BodyInv'
  BY DEF BodyInv
<1>6. HeadersInv'
  BY DEF HeadersInv, HeadersQueued, HeadersWriting
<1>7. KeptInv'
  BY DEF KeptInv, BodyHeaders, HeadersWriting
<1>8. ItemInv'
  BY DEF ItemInv, LastData
<1>9. WakeInv'
  BY DEF WakeInv, Queued
<1>10. EndsInv'
  BY DEF EndsInv, EndAhead, EndQueued, EndWriting
<1>11. AheadInv'
  BY DEF AheadInv, EndAhead, EndQueued, EndWriting
<1>12. ResetInv'
  BY DEF ResetInv, EndAhead, EndQueued, EndWriting, Exists
<1> QED BY <1>1, <1>2, <1>3, <1>4, <1>5, <1>6, <1>7, <1>8, <1>9, <1>10, <1>11, <1>12

\* A stream closed by the peer keeps nothing.
LEMMA PeerResetKeeps ==
    ASSUME IInv, NEW s \in Streams, PeerReset(s)
    PROVE  IInv'
<1> USE DEF IInv, TypeOK, PeerReset, Known, Close, outputVars, history
<1>1. TypeOK' /\ (opened \subseteq Streams)'
  OBVIOUS
<1>2. OutputInv'
  BY DEF OutputInv
<1>3. RoleInv'
  BY DEF RoleInv
<1>4. FreshInv'
  BY DEF FreshInv, Fresh, HeadersQueued, HeadersWriting, EndAhead, EndQueued, EndWriting,
     Exists
<1>5. BodyInv'
  BY DEF BodyInv
<1>6. HeadersInv'
  BY DEF HeadersInv, HeadersQueued, HeadersWriting
<1>7. KeptInv'
  BY DEF KeptInv, BodyHeaders, HeadersWriting
<1>8. ItemInv'
  BY DEF ItemInv, LastData
<1>9. WakeInv'
  BY DEF WakeInv, Queued
<1>10. EndsInv'
  BY DEF EndsInv, EndAhead, EndQueued, EndWriting
<1>11. AheadInv'
  BY DEF AheadInv, EndAhead, EndQueued, EndWriting
<1>12. ResetInv'
  BY DEF ResetInv, EndAhead, EndQueued, EndWriting, Exists
<1> QED BY <1>1, <1>2, <1>3, <1>4, <1>5, <1>6, <1>7, <1>8, <1>9, <1>10, <1>11, <1>12

\* Credit for a stream touches its window only.
LEMMA PeerGrantKeeps ==
    ASSUME IInv, NEW s \in Streams, PeerGrant(s)
    PROVE  IInv'
<1> USE DEF IInv, TypeOK, PeerGrant, bodyVars, outputVars, history
<1>1. TypeOK' /\ (opened \subseteq Streams)'
  OBVIOUS
<1>2. OutputInv'
  BY DEF OutputInv
<1>3. RoleInv'
  BY DEF RoleInv
<1>4. FreshInv'
  BY DEF FreshInv, Fresh, HeadersQueued, HeadersWriting, EndAhead, EndQueued, EndWriting,
     Exists
<1>5. BodyInv'
  BY DEF BodyInv
<1>6. HeadersInv'
  BY DEF HeadersInv, HeadersQueued, HeadersWriting
<1>7. KeptInv'
  BY DEF KeptInv, BodyHeaders, HeadersWriting
<1>8. ItemInv'
  BY DEF ItemInv, LastData
<1>9. WakeInv'
  BY DEF WakeInv, Queued
<1>10. EndsInv'
  BY DEF EndsInv, EndAhead, EndQueued, EndWriting
<1>11. AheadInv'
  BY DEF AheadInv, EndAhead, EndQueued, EndWriting
<1>12. ResetInv'
  BY DEF ResetInv, EndAhead, EndQueued, EndWriting, Exists
<1> QED BY <1>1, <1>2, <1>3, <1>4, <1>5, <1>6, <1>7, <1>8, <1>9, <1>10, <1>11, <1>12

\* Credit for the connection touches the connection's window only.
LEMMA PeerGrantConnectionKeeps ==
    ASSUME IInv, PeerGrantConnection
    PROVE  IInv'
<1> USE DEF IInv, TypeOK, PeerGrantConnection, bodyVars, outputVars, history
<1>1. TypeOK' /\ (opened \subseteq Streams)'
  OBVIOUS
<1>2. OutputInv'
  BY DEF OutputInv
<1>3. RoleInv'
  BY DEF RoleInv
<1>4. FreshInv'
  BY DEF FreshInv, Fresh, HeadersQueued, HeadersWriting, EndAhead, EndQueued, EndWriting,
     Exists
<1>5. BodyInv'
  BY DEF BodyInv
<1>6. HeadersInv'
  BY DEF HeadersInv, HeadersQueued, HeadersWriting
<1>7. KeptInv'
  BY DEF KeptInv, BodyHeaders, HeadersWriting
<1>8. ItemInv'
  BY DEF ItemInv, LastData
<1>9. WakeInv'
  BY DEF WakeInv, Queued
<1>10. EndsInv'
  BY DEF EndsInv, EndAhead, EndQueued, EndWriting
<1>11. AheadInv'
  BY DEF AheadInv, EndAhead, EndQueued, EndWriting
<1>12. ResetInv'
  BY DEF ResetInv, EndAhead, EndQueued, EndWriting, Exists
<1> QED BY <1>1, <1>2, <1>3, <1>4, <1>5, <1>6, <1>7, <1>8, <1>9, <1>10, <1>11, <1>12

\* A drive starts with all of its limit left.
LEMMA BeginDriveKeeps ==
    ASSUME IInv, NEW amount \in Limits, BeginDrive(amount)
    PROVE  IInv'
<1> USE OutboundBodyAssumption DEF IInv, TypeOK, BeginDrive, bodyVars, nativeVars, history
<1>1. TypeOK' /\ (opened \subseteq Streams)'
  OBVIOUS
<1>2. OutputInv'
  BY DEF OutputInv
<1>3. RoleInv'
  BY DEF RoleInv
<1>4. FreshInv'
  BY DEF FreshInv, Fresh, HeadersQueued, HeadersWriting, EndAhead, EndQueued, EndWriting,
     Exists
<1>5. BodyInv'
  BY DEF BodyInv
<1>6. HeadersInv'
  BY DEF HeadersInv, HeadersQueued, HeadersWriting
<1>7. KeptInv'
  BY DEF KeptInv, BodyHeaders, HeadersWriting
<1>8. ItemInv'
  BY DEF ItemInv, LastData
<1>9. WakeInv'
  BY DEF WakeInv, Queued
<1>10. EndsInv'
  BY DEF EndsInv, EndAhead, EndQueued, EndWriting
<1>11. AheadInv'
  BY DEF AheadInv, EndAhead, EndQueued, EndWriting
<1>12. ResetInv'
  BY DEF ResetInv, EndAhead, EndQueued, EndWriting, Exists
<1> QED BY <1>1, <1>2, <1>3, <1>4, <1>5, <1>6, <1>7, <1>8, <1>9, <1>10, <1>11, <1>12

\* A control frame moves from the queue to the writer, or its stream closes.
LEMMA PopControlKeeps ==
    ASSUME IInv, NEW f \in control, PopControl(f)
    PROVE  IInv'
<1> USE OutboundBodyAssumption, NoFrameAssumption DEF IInv, TypeOK, PopControl,
        Sendable, Close, outputVars, history
<1>1. TypeOK' /\ (opened \subseteq Streams)'
  BY DEF Frame, Control
<1>2. OutputInv'
  BY DEF OutputInv
<1>3. RoleInv'
  BY DEF RoleInv
<1>4. FreshInv'
  BY DEF FreshInv, Fresh, RoleInv, HeadersQueued, HeadersWriting, EndAhead, EndQueued,
     EndWriting, Exists
<1>5. BodyInv'
  BY DEF BodyInv
<1>6. HeadersInv'
  BY DEF HeadersInv, HeadersQueued, HeadersWriting
<1>7. KeptInv'
  BY DEF KeptInv, BodyHeaders, HeadersWriting
<1>8. ItemInv'
  BY DEF ItemInv, LastData
<1>9. WakeInv'
  BY DEF WakeInv, Queued
<1>10. EndsInv'
  BY DEF EndsInv, EndAhead, EndQueued, EndWriting, Control
<1>11. AheadInv'
  BY DEF AheadInv, EndAhead, EndQueued, EndWriting, Control, Frame
<1>12. ResetInv'
  BY DEF ResetInv, KeptInv, EndAhead, EndQueued, EndWriting, Exists, Control, Frame
<1> QED BY <1>1, <1>2, <1>3, <1>4, <1>5, <1>6, <1>7, <1>8, <1>9, <1>10, <1>11, <1>12

\* What _read_body meets: a body that is neither finished nor asleep, and no
\* other frame on its way.
LEMMA ReadBodyFinds ==
    ASSUME IInv, NEW s \in Streams, ReadBody(s)
    PROVE  /\ conn = "active" /\ control = {} /\ aob = NoFrame
           /\ s \in bodies /\ s \notin eof /\ s \notin shutWr /\ ~deferred[s]
           /\ accepted[s] \in Nat /\ taken[s] \in Nat /\ Queued(s) \in Nat
           /\ Least(FrameLength(s), Queued(s)) \in 0 .. Queued(s)
           /\ Least(FrameLength(s), Queued(s)) = 0 <=> Queued(s) = 0
<1> USE OutboundBodyAssumption DEF IInv, TypeOK, ReadBody, Schedulable
<1>1. s \notin eof
  BY DEF ItemInv, LastData
<1>2. s \notin shutWr
  BY <1>1 DEF EndsInv
<1>3. ~deferred[s]
  BY DEF WakeInv
<1>4. Queued(s) \in Nat
  BY DEF BodyInv, Queued
<1>5. FrameLength(s) \in Nat \ {0}
  BY <1>4 DEF FrameLength, Least
<1>6. /\ Least(FrameLength(s), Queued(s)) \in 0 .. Queued(s)
      /\ Least(FrameLength(s), Queued(s)) = 0 <=> Queued(s) = 0
  <2> HIDE DEF ReadBody, Schedulable
  <2> QED BY <1>4, <1>5 DEF Least
<1> QED BY <1>1, <1>2, <1>3, <1>4, <1>6

\* A frame of a body is taken; the last one carries the end or queues trailers.
LEMMA ReadBodySends ==
    ASSUME IInv, NEW s \in Streams, ReadBody(s), NEW n \in Nat, NEW complete \in BOOLEAN,
           n = Least(FrameLength(s), Queued(s)), complete = Complete(s, n),
           n > 0 \/ (complete /\ ~trailers[s])
    PROVE  IInv'
<1> USE OutboundBodyAssumption, NoFrameAssumption
<1> DEFINE left == IF Whole(n) THEN 0 ELSE n + FrameHeader
<1>1. /\ conn = "active" /\ control = {} /\ aob = NoFrame
      /\ s \in bodies /\ s \notin eof /\ s \notin shutWr /\ ~deferred[s]
      /\ accepted[s] \in Nat /\ taken[s] \in Nat /\ n \in 0 .. accepted[s] - taken[s]
  BY ReadBodyFinds DEF Queued
<1>2. /\ taken' = [taken EXCEPT ![s] = @ + n]
      /\ eof' = IF complete THEN eof \cup {s} ELSE eof
      /\ trailers' = [trailers EXCEPT ![s] = @ /\ ~complete]
      /\ control' = IF complete /\ trailers[s] THEN {Trailers(s)} ELSE {}
      /\ aob' = [kind |-> "DATA", stream |-> s, end |-> complete /\ ~trailers[s],
                 length |-> n, left |-> left]
      /\ Emit(IF Whole(n) THEN n + FrameHeader ELSE 0)
      /\ UNCHANGED <<deferred, item>>
      /\ UNCHANGED <<conn, bodies, ended, responses, deferredResets, driving, limit, state,
                     shutRd, shutWr, window, connWindow, accepted, opened>>
  BY DEF ReadBody
<1>3. /\ driving /\ room # 0 /\ item[s] = "ready" /\ state[s] = "open"
  BY DEF ReadBody, Schedulable
<1>4. complete => ended[s] /\ taken[s] + n = accepted[s]
  BY <1>1 DEF Complete, Queued, IInv, TypeOK
<1> HIDE DEF left
<1> USE DEF IInv, TypeOK
<1>5. left \in Nat /\ FrameHeader \in Nat
  BY DEF left
<1>6. /\ aob' \in Frame /\ aob' # NoFrame
      /\ aob'.kind = "DATA" /\ aob'.stream = s /\ aob'.end = (complete /\ ~trailers[s])
  <2>1. (complete /\ ~trailers[s]) \in BOOLEAN
    OBVIOUS
  <2>2. [kind |-> "DATA", stream |-> s, end |-> complete /\ ~trailers[s],
         length |-> n, left |-> left] \in Frame
    BY <1>5, <2>1 DEF Frame
  <2> QED BY <1>2, <2>2
<1>7. \A t \in Streams : ~HeadersQueued(t)' /\ ~HeadersWriting(t)' /\ ~BodyHeaders(t)'
  <2>1. \A f \in control' : f.kind = "TRAILERS"
    BY <1>2 DEF Trailers
  <2> QED BY <1>6, <2>1 DEF HeadersQueued, HeadersWriting, BodyHeaders
<1>8. \A t \in Streams : ~EndAhead(t)
  BY <1>1 DEF EndAhead, EndQueued, EndWriting
<1>9. \A t \in Streams : EndAhead(t)' <=> t = s /\ complete
  <2>1. \A t \in Streams : EndQueued(t)' <=> t = s /\ complete /\ trailers[s]
    <3>1. Trailers(s).stream = s /\ Trailers(s).end
      BY DEF Trailers
    <3>2. CASE complete /\ trailers[s]
      BY <1>2, <3>1, <3>2 DEF EndQueued
    <3>3. CASE ~(complete /\ trailers[s])
      BY <1>2, <3>3 DEF EndQueued
    <3> QED BY <3>2, <3>3
  <2>2. \A t \in Streams : EndWriting(t)' <=> t = s /\ complete /\ ~trailers[s]
    BY <1>6 DEF EndWriting
  <2> QED BY <2>1, <2>2 DEF EndAhead
<1>10. \A t \in Streams : ~(EndQueued(t)' /\ EndWriting(t)')
  BY <1>2, <1>6 DEF EndQueued, EndWriting
<1>11. TypeOK' /\ (opened \subseteq Streams)'
  <2>1. (taken \in [Streams -> Nat])' /\ (eof \subseteq Streams)' /\ (trailers \in [Streams -> BOOLEAN])'
    BY <1>2
  <2>2. (control \subseteq Control)'
    <3>1. Trailers(s) \in Control
      BY DEF Control, Trailers
    <3> QED BY <1>2, <3>1
  <2>3. outSize' \in Nat /\ room' \in Nat \cup {Unlimited}
    BY <1>2, <1>5 DEF Emit, Whole, Unlimited
  <2> QED BY <1>2, <1>6, <2>1, <2>2, <2>3
<1>12. OutputInv'
  BY <1>2, <1>3, <1>5 DEF OutputInv, Emit, Whole, Unlimited
<1>13. RoleInv'
  BY <1>2 DEF RoleInv
<1>14. FreshInv'
  BY <1>2, <1>3, <1>7, <1>9 DEF FreshInv, Fresh, Exists
<1>15. BodyInv'
  BY <1>1, <1>2, <1>4 DEF BodyInv
<1>16. HeadersInv'
  BY <1>2, <1>7 DEF HeadersInv
<1>17. KeptInv'
  BY <1>2, <1>7 DEF KeptInv
<1>18. ItemInv'
  <2>1. \A t \in Streams : item[t] = "ready" => t \notin eof
    BY <1>1 DEF ItemInv, LastData
  <2> QED BY <1>2, <1>6, <2>1 DEF ItemInv, LastData
<1>19. WakeInv'
  BY <1>1, <1>2 DEF WakeInv, Queued
<1>20. EndsInv'
  <2>1. \A f \in control' : f = Trailers(s)
    BY <1>2
  <2>2. \A t \in Streams : EndWriting(t)' => state'[t] = "open"
    BY <1>2, <1>3, <1>6 DEF EndWriting
  <2>3. \A f \in control' : f.kind = "RST" => ~f.end
    BY <2>1 DEF Trailers
  <2>4. \A t \in Streams : t \in bodies /\ (EndAhead(t)' \/ t \in shutWr) => t \in eof'
    BY <1>2, <1>9 DEF EndsInv
  <2>5. \A t \in Streams : t \in shutWr => ~EndAhead(t)'
    BY <1>1, <1>9
  <2> HIDE DEF IInv, TypeOK
  <2> QED BY <1>2, <1>10, <2>1, <2>2, <2>3, <2>4, <2>5 DEF EndsInv
<1>21. AheadInv'
  BY <1>1, <1>2, <1>8, <1>9 DEF AheadInv
<1>22. ResetInv'
  BY <1>2, <1>8, <1>9 DEF ResetInv, Exists
<1> QED BY <1>11, <1>12, <1>13, <1>14, <1>15, <1>16, <1>17, <1>18, <1>19, <1>20, <1>21, <1>22

\* A body that is empty and ended by trailers is done without another frame.
LEMMA ReadBodyEnds ==
    ASSUME IInv, NEW s \in Streams, ReadBody(s), Queued(s) = 0, ended[s], trailers[s]
    PROVE  IInv'
<1> USE NoFrameAssumption
<1>1. /\ conn = "active" /\ control = {} /\ aob = NoFrame
      /\ s \in bodies /\ s \notin eof /\ s \notin shutWr /\ ~deferred[s]
      /\ accepted[s] \in Nat /\ taken[s] \in Nat /\ taken[s] = accepted[s]
      /\ Least(FrameLength(s), Queued(s)) = 0
  BY ReadBodyFinds DEF Queued
<1>2. /\ taken' = [taken EXCEPT ![s] = @ + 0]
      /\ eof' = eof \cup {s}
      /\ trailers' = [trailers EXCEPT ![s] = FALSE]
      /\ control' = {Trailers(s)}
      /\ item' = [item EXCEPT ![s] = "none"]
      /\ UNCHANGED <<deferred, aob, room, outSize>>
      /\ UNCHANGED <<conn, bodies, ended, responses, deferredResets, driving, limit, state,
                     shutRd, shutWr, window, connWindow, accepted, opened>>
  BY <1>1 DEF ReadBody, Complete
<1>3. item[s] = "ready" /\ state[s] = "open"
  BY DEF ReadBody, Schedulable
<1> USE DEF IInv, TypeOK
<1>4. taken' = taken
  BY <1>1, <1>2
<1>5. /\ Trailers(s) \in Control /\ Trailers(s).stream = s /\ Trailers(s).end
      /\ Trailers(s).kind = "TRAILERS"
  BY DEF Control, Trailers
<1>6. \A t \in Streams : /\ EndAhead(t)' <=> t = s
                         /\ ~EndAhead(t) /\ ~EndWriting(t)'
                         /\ ~HeadersQueued(t)' /\ ~HeadersWriting(t)' /\ ~BodyHeaders(t)'
  BY <1>1, <1>2, <1>5 DEF EndAhead, EndQueued, EndWriting, HeadersQueued, HeadersWriting,
     BodyHeaders
<1>7. TypeOK' /\ (opened \subseteq Streams)'
  BY <1>2, <1>4, <1>5
<1>8. OutputInv' /\ RoleInv' /\ HeadersInv' /\ KeptInv' /\ BodyInv'
  BY <1>1, <1>2, <1>4, <1>5, <1>6 DEF OutputInv, RoleInv, HeadersInv, KeptInv, BodyInv
<1>9. FreshInv'
  BY <1>2, <1>3, <1>6 DEF FreshInv, Fresh, Exists
<1>10. ItemInv'
  <2>1. \A t \in Streams : item[t] = "ready" => t \notin eof
    BY <1>1 DEF ItemInv, LastData
  <2> QED BY <1>2, <2>1 DEF ItemInv
<1>11. WakeInv'
  BY <1>1, <1>2, <1>4 DEF WakeInv, Queued
<1>12. EndsInv'
  <2>1. /\ \A f, g \in control' : f.end /\ g.end /\ f.stream = g.stream => f = g
        /\ \A f \in control' : f.kind = "RST" => ~f.end
    BY <1>2, <1>5
  <2>2. \A t \in Streams : t \in shutWr' => ~EndAhead(t)'
    BY <1>1, <1>2, <1>6
  <2>3. \A t \in Streams : t \in bodies' /\ (EndAhead(t)' \/ t \in shutWr') => t \in eof'
    BY <1>2, <1>6 DEF EndsInv
  <2> QED BY <1>6, <2>1, <2>2, <2>3 DEF EndsInv
<1>13. AheadInv' /\ ResetInv'
  BY <1>1, <1>2, <1>6 DEF AheadInv, ResetInv, Exists
<1> QED BY <1>7, <1>8, <1>9, <1>10, <1>11, <1>12, <1>13

\* A body without bytes, and not ended, falls asleep.
LEMMA ReadBodyDefers ==
    ASSUME IInv, NEW s \in Streams, ReadBody(s), Queued(s) = 0, ~ended[s]
    PROVE  IInv'
<1>1. /\ control = {} /\ aob = NoFrame /\ s \in bodies /\ s \notin eof
      /\ Least(FrameLength(s), Queued(s)) = 0
  BY ReadBodyFinds
<1>2. /\ deferred' = [deferred EXCEPT ![s] = TRUE]
      /\ item' = [item EXCEPT ![s] = "deferred"]
      /\ UNCHANGED <<taken, eof, trailers, control, aob, room, outSize>>
      /\ UNCHANGED <<conn, bodies, ended, responses, deferredResets, driving, limit, state,
                     shutRd, shutWr, window, connWindow, accepted, opened>>
  BY <1>1 DEF ReadBody, Complete
<1>3. item[s] = "ready"
  BY DEF ReadBody, Schedulable
<1> USE DEF IInv, TypeOK
<1>4. TypeOK' /\ (opened \subseteq Streams)'
  BY <1>2
<1>5. OutputInv' /\ RoleInv' /\ KeptInv' /\ BodyInv'
  BY <1>2 DEF OutputInv, RoleInv, KeptInv, BodyHeaders, HeadersWriting, BodyInv
<1>6. FreshInv'
  BY <1>2, <1>3 DEF FreshInv, Fresh, Exists, HeadersQueued, HeadersWriting, EndAhead,
     EndQueued, EndWriting
<1>7. HeadersInv'
  BY <1>1, <1>2 DEF HeadersInv, HeadersQueued, HeadersWriting
<1>8. ItemInv'
  BY <1>1, <1>2 DEF ItemInv, LastData
<1>9. WakeInv'
  BY <1>1, <1>2 DEF WakeInv, Queued
<1>10. EndsInv' /\ AheadInv' /\ ResetInv'
  BY <1>2 DEF EndsInv, AheadInv, ResetInv, Exists, EndAhead, EndQueued, EndWriting
<1> QED BY <1>4, <1>5, <1>6, <1>7, <1>8, <1>9, <1>10

\* A turn of _read_body sends bytes or an end, ends the body, or defers the stream.
LEMMA ReadBodyKeeps ==
    ASSUME IInv, NEW s \in Streams, ReadBody(s)
    PROVE  IInv'
<1> DEFINE n == Least(FrameLength(s), Queued(s))
<1>1. Queued(s) \in Nat /\ n \in 0 .. Queued(s) /\ (n = 0 <=> Queued(s) = 0)
  BY ReadBodyFinds
<1>2. Complete(s, n) \in BOOLEAN
  BY DEF Complete
<1> HIDE DEF n
<1>3. CASE n > 0 \/ (Complete(s, n) /\ ~trailers[s])
  BY <1>1, <1>2, <1>3, ReadBodySends DEF n
<1>4. CASE n = 0 /\ Complete(s, n) /\ trailers[s]
  BY <1>1, <1>4, ReadBodyEnds DEF Complete
<1>5. CASE n = 0 /\ ~Complete(s, n)
  <2>1. Queued(s) = 0 /\ ~ended[s]
    BY <1>1, <1>5 DEF Complete
  <2> QED BY <2>1, ReadBodyDefers
<1> QED BY <1>1, <1>3, <1>4, <1>5

\* Writing a part of a frame leaves the rest of it.
LEMMA CollectOutputKeeps ==
    ASSUME IInv, CollectOutput
    PROVE  IInv'
<1> USE NoFrameAssumption DEF IInv, TypeOK, CollectOutput, Emit, bodyVars, history
<1>0. /\ aob' \in Frame /\ aob' # NoFrame
      /\ aob'.kind = aob.kind /\ aob'.stream = aob.stream /\ aob'.end = aob.end
      /\ \A s \in Streams : EndAhead(s)' = EndAhead(s)
  <2> DEFINE n == IF room = Unlimited THEN aob.left ELSE Least(aob.left, room)
  <2>1. n \in Nat /\ n <= aob.left
    BY DEF Frame, Least
  <2>2. aob' \in Frame /\ aob'.kind = aob.kind /\ aob'.stream = aob.stream /\ aob'.end = aob.end
    BY <2>1 DEF Frame
  <2> QED BY <2>2 DEF EndAhead, EndQueued, EndWriting
<1>1. TypeOK' /\ (opened \subseteq Streams)'
  <2> DEFINE n == IF room = Unlimited THEN aob.left ELSE Least(aob.left, room)
  <2>1. n \in Nat /\ n <= aob.left /\ (room # Unlimited => n <= room)
    BY DEF Frame, Least
  <2>2. aob' \in Frame
    BY <2>1 DEF Frame
  <2>3. outSize' \in Nat /\ room' \in Nat \cup {Unlimited}
    BY <2>1 DEF Unlimited
  <2> QED BY <2>2, <2>3 DEF Unlimited
<1>2. OutputInv'
  BY DEF OutputInv, Unlimited, Least, Frame
<1>3. RoleInv'
  BY DEF RoleInv
<1>4. FreshInv'
  BY DEF FreshInv, Fresh, HeadersQueued, HeadersWriting, EndAhead, EndQueued, EndWriting,
     Exists
<1>5. BodyInv'
  BY DEF BodyInv
<1>6. HeadersInv'
  BY DEF HeadersInv, HeadersQueued, HeadersWriting
<1>7. KeptInv'
  BY DEF KeptInv, BodyHeaders, HeadersWriting
<1>8. ItemInv'
  BY DEF ItemInv, LastData, Least, Frame
<1>9. WakeInv'
  BY DEF WakeInv, Queued
<1>10. EndsInv'
  BY DEF EndsInv, EndAhead, EndQueued, EndWriting
<1>11. AheadInv'
  BY <1>0 DEF AheadInv
<1>12. ResetInv'
  BY <1>0 DEF ResetInv, Exists
<1> QED BY <1>1, <1>2, <1>3, <1>4, <1>5, <1>6, <1>7, <1>8, <1>9, <1>10, <1>11, <1>12

\* A frame that is out, of a stream that stays open: its end closes the local
\* direction and lets a reset go, HEADERS start the item, the last DATA ends it.
LEMMA FrameSentStays ==
    ASSUME IInv, FrameSent, NEW s \in Streams, s = aob.stream,
           ~(Exists(s) /\ (aob.kind = "RST" \/ (aob.end /\ s \in shutRd)))
    PROVE  IInv'
<1> DEFINE starts == Exists(s) /\ aob.kind = "HEADERS" /\ ~aob.end
           finishes == aob.kind = "DATA" /\ s \in eof
<1>1. /\ driving /\ aob # NoFrame /\ aob' = NoFrame
      /\ shutWr' = IF Exists(s) /\ aob.end THEN shutWr \cup {s} ELSE shutWr
      /\ connWindow' = connWindow - aob.length
      /\ window' = [window EXCEPT ![s] = @ - aob.length]
      /\ Resets(s)
      /\ deferredResets' = IF aob.end THEN deferredResets \ {s} ELSE deferredResets
      /\ item' = [item EXCEPT ![s] = CASE starts -> "ready" [] finishes -> "none" [] OTHER -> @]
      /\ UNCHANGED <<bodies, responses>>
      /\ UNCHANGED <<conn, ended, deferred, trailers, outputVars, shutRd, history>>
  BY DEF FrameSent
<1> USE DEF IInv, TypeOK
<1>2. aob \in Frame
  BY <1>1
<1>3. /\ item' \in [Streams -> {"none", "ready", "deferred"}]
      /\ \A t \in Streams : t # s => item'[t] = item[t]
      /\ item'[s] = IF starts THEN "ready" ELSE IF finishes THEN "none" ELSE item[s]
  BY <1>1, <1>2 DEF Frame
<1> HIDE DEF starts, finishes
<1>4. /\ control \subseteq control' /\ control' \subseteq control \cup {Rst(s)}
      /\ state' \in [Streams -> {"idle", "opening", "cancelled", "open", "closing", "closed"}]
      /\ \A t \in Streams :
          \/ state'[t] = state[t]
          \/ t = s /\ ResetDue(s) /\ state[s] = "open" /\ state'[s] = "closing"
          \/ t = s /\ ResetDue(s) /\ state[s] = "opening" /\ state'[s] = "cancelled"
          \/ t = s /\ aob.kind = "HEADERS" /\ Exists(s) /\ state'[s] = "open"
  BY <1>1 DEF Resets, SubmitRst
<1>5. ResetDue(s) => s \in deferredResets /\ Exists(s)
  BY DEF ResetDue, ResetInv
<1>6. \A t \in Streams :
        /\ \/ state'[t] = state[t]
           \/ t = s /\ state[s] = "open" /\ state'[s] = "closing"
           \/ t = s /\ aob.kind = "HEADERS" /\ state[s] = "closing" /\ state'[s] = "open"
        /\ (Exists(t))' <=> Exists(t)
  BY <1>4, <1>5 DEF Exists
<1>7. /\ \A t \in Streams : EndQueued(t)' <=> EndQueued(t)
      /\ \A t \in Streams : HeadersQueued(t)' <=> HeadersQueued(t)
      /\ \A t \in Streams : ~HeadersWriting(t)' /\ ~EndWriting(t)'
  BY <1>1, <1>4 DEF EndQueued, HeadersQueued, HeadersWriting, EndWriting, Rst
<1>8. \A t \in Streams : t # s => (EndAhead(t)' <=> EndAhead(t))
  BY <1>7 DEF EndAhead, EndWriting
<1>9. \A t \in Streams : (~aob.end => (EndAhead(t)' <=> EndAhead(t)))
  BY <1>7 DEF EndAhead, EndWriting
<1>10. aob.end => EndWriting(s) /\ ~EndAhead(s)'
  BY <1>1, <1>7 DEF EndAhead, EndWriting, EndsInv
<1>11. starts => HeadersWriting(s) /\ item[s] = "none" /\ s \notin eof /\ (conn = "active" => s \in bodies)
  BY <1>1 DEF starts, HeadersWriting, HeadersInv, KeptInv, BodyHeaders, Exists
<1>12. TypeOK' /\ (opened \subseteq Streams)'
  <2>1. (control \subseteq Control)'
    <3>1. Rst(s) \in Control
      BY DEF Control, Rst
    <3> QED BY <1>4, <3>1
  <2>2. window'[s] \in Int /\ connWindow' \in Int
    BY <1>1, <1>2 DEF Frame
  <2>3. (window \in [Streams -> Int])'
    BY <1>1, <2>2
  <2> QED BY <1>1, <1>3, <1>4, <2>1, <2>2, <2>3 DEF outputVars, history
<1>13. OutputInv' /\ BodyInv'
  BY <1>1 DEF OutputInv, BodyInv, outputVars, history
<1>14. RoleInv'
  BY <1>6 DEF RoleInv
<1>15. FreshInv'
  <2> SUFFICES ASSUME NEW t \in Streams, Fresh(t)' 
               PROVE  /\ t \notin bodies /\ t \notin opened /\ t \notin shutWr'
                      /\ item'[t] = "none"
                      /\ ~HeadersQueued(t)' /\ ~HeadersWriting(t)' /\ ~EndAhead(t)'
    BY <1>1 DEF FreshInv, history
  <2>1. Fresh(t)
    BY <1>1, <1>6 DEF Fresh
  <2>2. t = s => ~aob.end /\ ~starts
    BY <1>10, <1>11, <2>1 DEF FreshInv, EndAhead
  <2> QED BY <1>1, <1>3, <1>7, <1>8, <1>9, <2>1, <2>2 DEF FreshInv
<1>16. HeadersInv'
  <2>1. \A f, g \in control' :
          f.kind = "HEADERS" /\ g.kind = "HEADERS" /\ f.stream = g.stream => f = g
    BY <1>4 DEF HeadersInv, Rst
  <2>2. starts => ~HeadersQueued(s)
    BY <1>11 DEF HeadersInv
  <2> QED BY <1>1, <1>3, <1>6, <1>7, <2>1, <2>2 DEF HeadersInv, history
<1>17. KeptInv'
  <2>1. \A t \in Streams : BodyHeaders(t)' => BodyHeaders(t)
    BY <1>1, <1>4, <1>7 DEF BodyHeaders, Rst
  <2> QED BY <1>1, <1>6, <2>1 DEF KeptInv, history
<1>18. ItemInv'
  <2> SUFFICES ASSUME NEW t \in Streams
               PROVE  /\ conn = "active" /\ item'[t] # "none" => t \in bodies
                      /\ item'[t] = "ready" => t \notin eof
    BY <1>1 DEF ItemInv, history
  <2>1. CASE t = s
    BY <1>1, <1>3, <1>11, <2>1 DEF ItemInv, LastData, finishes
  <2>2. CASE t # s
    BY <1>3, <2>2 DEF ItemInv, LastData
  <2> QED BY <2>1, <2>2
<1>19. WakeInv'
  <2>1. finishes => s \notin bodies \/ ~deferred[s] \/ conn # "active"
    BY DEF finishes, BodyInv, WakeInv
  <2> QED BY <1>1, <1>3, <1>11, <2>1 DEF WakeInv, Queued, history
<1>20. EndsInv'
  <2>1. \A f, g \in control' : f.end /\ g.end /\ f.stream = g.stream => f = g
    BY <1>4 DEF EndsInv, Rst
  <2>2. \A t \in Streams : t \in shutWr' => ~EndAhead(t)'
    BY <1>1, <1>8, <1>9, <1>10 DEF EndsInv
  <2>3. \A t \in Streams : t \in bodies /\ (EndAhead(t)' \/ t \in shutWr') => t \in eof
    BY <1>1, <1>8, <1>9, <1>10 DEF EndsInv, EndAhead
  <2>4. \A f \in control' : f.kind = "RST" => ~f.end
    BY <1>4 DEF EndsInv, Rst
  <2> QED BY <1>1, <1>7, <2>1, <2>2, <2>3, <2>4 DEF EndsInv, history
<1>21. AheadInv'
  <2> SUFFICES ASSUME conn = "active", NEW t \in Streams, state'[t] \in {"opening", "open"},
                      ~Server \/ t \in responses, t \notin shutWr', t \notin bodies \/ t \in eof
               PROVE  EndAhead(t)'
    BY <1>1 DEF AheadInv, history
  <2>1. t \notin shutWr /\ ~(t = s /\ aob.kind = "HEADERS" /\ ~aob.end /\ Exists(s))
    BY <1>1, <1>11 DEF starts
  <2>2. CASE t = s /\ aob.end
    BY <1>1, <1>6, <1>10, <2>1, <2>2 DEF EndsInv, Exists
  <2>3. CASE ~(t = s /\ aob.end)
    <3>1. state[t] = state'[t]
      BY <1>6, <2>1, <2>3 DEF Exists
    <3>2. EndAhead(t)
      BY <2>1, <3>1 DEF AheadInv
    <3> QED BY <1>8, <1>9, <2>3, <3>2
  <2> QED BY <2>2, <2>3
<1>22. ResetInv'
  <2> SUFFICES ASSUME NEW t \in deferredResets'
               PROVE  /\ (Exists(t))' /\ t \notin shutWr'
                      /\ t \in bodies => ended[t]
                      /\ Server => t \in responses
                      /\ \/ state'[t] = "closing"
                         \/ EndAhead(t)'
                         \/ t \in bodies /\ ended[t] /\ t \notin eof
    BY <1>1 DEF ResetInv, history
  <2>1. t \in deferredResets /\ t \in Streams /\ ~(t = s /\ aob.end)
    BY <1>1
  <2>2. CASE t = s /\ aob.kind = "HEADERS"
    <3>1. t \in bodies /\ t \notin eof
      BY <1>11, <2>1, <2>2 DEF starts, ResetInv, KeptInv
    <3> QED BY <1>1, <1>6, <2>1, <2>2, <3>1 DEF ResetInv
  <2>3. CASE ~(t = s /\ aob.kind = "HEADERS")
    BY <1>1, <1>6, <1>8, <1>9, <2>1, <2>3 DEF ResetInv
  <2> QED BY <2>2, <2>3
<1> QED BY <1>12, <1>13, <1>14, <1>15, <1>16, <1>17, <1>18, <1>19, <1>20, <1>21, <1>22


\* A frame that is out and closes its stream.
LEMMA FrameSentCloses ==
    ASSUME IInv, FrameSent, NEW s \in Streams, s = aob.stream,
           Exists(s), aob.kind = "RST" \/ (aob.end /\ s \in shutRd)
    PROVE  IInv'
<1>1. /\ driving /\ aob # NoFrame /\ aob' = NoFrame
      /\ shutWr' = IF aob.end THEN shutWr \cup {s} ELSE shutWr
      /\ connWindow' = connWindow - aob.length
      /\ window' = [window EXCEPT ![s] = @ - aob.length]
      /\ Close({s}) /\ UNCHANGED control
      /\ UNCHANGED <<conn, ended, deferred, trailers, outputVars, shutRd, history>>
  BY DEF FrameSent
<1> USE DEF IInv, TypeOK
<1>2. /\ state' \in [Streams -> {"idle", "opening", "cancelled", "open", "closing", "closed"}]
      /\ item' \in [Streams -> {"none", "ready", "deferred"}]
      /\ \A t \in Streams : IF t = s THEN state'[t] = "closed" /\ item'[t] = "none"
                            ELSE state'[t] = state[t] /\ item'[t] = item[t]
      /\ bodies' = bodies \ {s} /\ responses' = responses \ {s}
      /\ deferredResets' = deferredResets \ {s}
  BY <1>1 DEF Close
<1>3. /\ \A t \in Streams : EndQueued(t)' <=> EndQueued(t)
      /\ \A t \in Streams : HeadersQueued(t)' <=> HeadersQueued(t)
      /\ \A t \in Streams : ~HeadersWriting(t)' /\ ~EndWriting(t)'
      /\ \A t \in Streams : t # s => ~EndWriting(t) /\ ~HeadersWriting(t)
  BY <1>1 DEF EndQueued, HeadersQueued, HeadersWriting, EndWriting
<1>4. \A t \in Streams : t # s => (EndAhead(t)' <=> EndAhead(t))
  BY <1>3 DEF EndAhead
<1>5. TypeOK' /\ (opened \subseteq Streams)'
  <2>1. window'[s] \in Int /\ connWindow' \in Int
    BY <1>1 DEF Frame
  <2>2. (window \in [Streams -> Int])'
    BY <1>1, <2>1
  <2> QED BY <1>1, <1>2, <2>1, <2>2 DEF outputVars, history
<1>6. OutputInv' /\ BodyInv'
  BY <1>1, <1>2 DEF OutputInv, BodyInv, outputVars, history
<1>7. RoleInv'
  BY <1>2 DEF RoleInv
<1>8. FreshInv'
  BY <1>1, <1>2, <1>3, <1>4 DEF FreshInv, Fresh, Exists, history
<1>9. HeadersInv'
  BY <1>1, <1>2, <1>3 DEF HeadersInv, history
<1>10. KeptInv'
  <2>1. \A t \in Streams : BodyHeaders(t)' => BodyHeaders(t)
    BY <1>1, <1>3 DEF BodyHeaders
  <2> QED BY <1>1, <1>2, <2>1 DEF KeptInv, history
<1>11. ItemInv'
  BY <1>1, <1>2 DEF ItemInv, LastData, history
<1>12. WakeInv'
  BY <1>1, <1>2 DEF WakeInv, Queued, history
<1>13. EndsInv'
  <2>1. aob.end => EndWriting(s)
    BY <1>1 DEF EndWriting
  <2>2. s \in shutWr' => ~EndAhead(s)'
    BY <1>1, <1>3, <2>1 DEF EndsInv, EndAhead
  <2> QED BY <1>1, <1>2, <1>3, <1>4, <2>2 DEF EndsInv, history
<1>14. AheadInv'
  BY <1>1, <1>2, <1>4 DEF AheadInv, history
<1>15. ResetInv'
  BY <1>1, <1>2, <1>4 DEF ResetInv, Exists, history
<1> QED BY <1>5, <1>6, <1>7, <1>8, <1>9, <1>10, <1>11, <1>12, <1>13, <1>14, <1>15

\* Around _frame_sent the stream goes on or closes.
LEMMA FrameSentKeeps ==
    ASSUME IInv, FrameSent
    PROVE  IInv'
<1>1. aob.stream \in Streams
  BY DEF FrameSent, IInv, TypeOK, Frame
<1> QED BY <1>1, FrameSentStays, FrameSentCloses

\* A drive ends without touching streams.
LEMMA EndDriveKeeps ==
    ASSUME IInv, EndDrive
    PROVE  IInv'
<1> USE DEF IInv, TypeOK, EndDrive, bodyVars, nativeVars, history
<1>1. TypeOK' /\ (opened \subseteq Streams)'
  BY DEF Frame, Control, Unlimited, Exists
<1>2. OutputInv'
  BY DEF OutputInv
<1>3. RoleInv'
  BY DEF RoleInv
<1>4. FreshInv'
  BY DEF FreshInv, Fresh, HeadersQueued, HeadersWriting, EndAhead, EndQueued, EndWriting,
     Exists
<1>5. BodyInv'
  BY DEF BodyInv
<1>6. HeadersInv'
  BY DEF HeadersInv, HeadersQueued, HeadersWriting
<1>7. KeptInv'
  BY DEF KeptInv, BodyHeaders, HeadersWriting
<1>8. ItemInv'
  BY DEF ItemInv, LastData
<1>9. WakeInv'
  BY DEF WakeInv, Queued
<1>10. EndsInv'
  BY DEF EndsInv, EndAhead, EndQueued, EndWriting
<1>11. AheadInv'
  BY DEF AheadInv, EndAhead, EndQueued, EndWriting
<1>12. ResetInv'
  BY DEF ResetInv, EndAhead, EndQueued, EndWriting, Exists
<1> QED BY <1>1, <1>2, <1>3, <1>4, <1>5, <1>6, <1>7, <1>8, <1>9, <1>10, <1>11, <1>12

\* A failed connection keeps nothing.
LEMMA FailKeeps ==
    ASSUME IInv, Fail
    PROVE  IInv'
<1> USE DEF IInv, TypeOK, Fail, DiscardPendingState, nativeVars, history
<1>1. TypeOK' /\ (opened \subseteq Streams)'
  BY DEF Frame, Control, Unlimited, Exists
<1>2. OutputInv'
  BY DEF OutputInv
<1>3. RoleInv'
  BY DEF RoleInv
<1>4. FreshInv'
  BY DEF FreshInv, Fresh, HeadersQueued, HeadersWriting, EndAhead, EndQueued, EndWriting
<1>5. BodyInv'
  BY DEF BodyInv
<1>6. HeadersInv'
  BY DEF HeadersInv, HeadersQueued, HeadersWriting
<1>7. KeptInv'
  BY DEF KeptInv
<1>8. ItemInv'
  BY DEF ItemInv, LastData
<1>9. WakeInv'
  BY DEF WakeInv
<1>10. EndsInv'
  BY DEF EndsInv, EndAhead, EndQueued, EndWriting
<1>11. AheadInv'
  BY DEF AheadInv
<1>12. ResetInv'
  BY DEF ResetInv
<1> QED BY <1>1, <1>2, <1>3, <1>4, <1>5, <1>6, <1>7, <1>8, <1>9, <1>10, <1>11, <1>12
-----------------------------------------------------------------------------
(* The invariant holds.                                                    *)

\* A new connection satisfies the inductive invariant (Connection.__init__).
THEOREM InitInv == Init => IInv
<1> SUFFICES ASSUME Init PROVE IInv
  OBVIOUS
<1> USE OutboundBodyAssumption DEF Init
<1>1. TypeOK /\ opened \subseteq Streams
  <2>1. WindowSize \in Int
    OBVIOUS
  <2> QED BY <2>1 DEF TypeOK
<1>2. OutputInv /\ RoleInv /\ BodyInv
  BY DEF OutputInv, RoleInv, BodyInv, Unlimited
<1>3. \A s \in Streams : ~EndAhead(s) /\ ~HeadersQueued(s) /\ ~HeadersWriting(s)
                         /\ ~EndQueued(s) /\ ~EndWriting(s)
  BY DEF EndAhead, EndQueued, EndWriting, HeadersQueued, HeadersWriting
<1>4. FreshInv /\ HeadersInv /\ KeptInv /\ EndsInv
  BY <1>3 DEF FreshInv, HeadersInv, KeptInv, BodyHeaders, EndsInv
<1>5. ItemInv /\ WakeInv /\ AheadInv /\ ResetInv
  BY DEF ItemInv, WakeInv, AheadInv, ResetInv
<1> QED BY <1>1, <1>2, <1>4, <1>5 DEF IInv

\* Every call, input and turn of the send loop preserves the inductive invariant.
THEOREM NextPreservesInv == IInv /\ [Next]_vars => IInv'
<1> SUFFICES ASSUME IInv, [Next]_vars PROVE IInv'
  OBVIOUS
<1>1. CASE Application
  BY <1>1, SendRequestKeeps, SendResponseKeeps, SendDataKeeps, SendTrailersKeeps,
     ResetStreamKeeps, ResetAfterEndKeeps, TerminateKeeps DEF Application
<1>2. CASE Peer
  BY <1>2, PeerRequestKeeps, PeerEndKeeps, PeerResetKeeps, PeerGrantKeeps,
     PeerGrantConnectionKeeps DEF Peer
<1>3. CASE \E amount \in Limits : BeginDrive(amount)
  BY <1>3, BeginDriveKeeps
<1>4. CASE Drive
  BY <1>4, PopControlKeeps, ReadBodyKeeps, CollectOutputKeeps, FrameSentKeeps, EndDriveKeeps
     DEF Drive
<1>5. CASE Fail
  BY <1>5, FailKeeps
<1>6. CASE UNCHANGED vars
  <2>1. UNCHANGED <<conn, bodies, ended, deferred, trailers, responses, deferredResets, driving,
                    limit, room, outSize, state, item, control, shutRd, shutWr, window,
                    connWindow, aob, accepted, taken, eof, opened>>
    BY <1>6 DEF vars, bodyVars, outputVars, nativeVars, history
  <2> USE DEF EndAhead, EndQueued, EndWriting, HeadersQueued, HeadersWriting, BodyHeaders,
              LastData, Fresh, Exists, Queued
  <2>2. TypeOK' /\ (opened \subseteq Streams)' /\ OutputInv' /\ RoleInv' /\ FreshInv' /\ BodyInv'
    BY <2>1 DEF IInv, TypeOK, OutputInv, RoleInv, FreshInv, BodyInv
  <2>3. HeadersInv' /\ KeptInv' /\ ItemInv' /\ WakeInv'
    BY <2>1 DEF IInv, HeadersInv, KeptInv, ItemInv, WakeInv
  <2>4. EndsInv' /\ AheadInv' /\ ResetInv'
    BY <2>1 DEF IInv, EndsInv, AheadInv, ResetInv
  <2> QED BY <2>2, <2>3, <2>4 DEF IInv
<1> QED BY <1>1, <1>2, <1>3, <1>4, <1>5, <1>6 DEF Next

\* The inductive invariant holds in every reachable state.
LEMMA Invariance == Spec => []IInv
BY InitInv, NextPreservesInv, PTL DEF Spec

\* Whatever the order of calls, resets and drives, queued bytes or an end are
\* never left behind a sleeping stream, and resume_data never fails
\* (send_data, send_trailers, _read_body).
THEOREM Wakeups == Spec => []NoLostWakeup
<1>1. IInv => NoLostWakeup
  BY DEF IInv, WakeInv, NoLostWakeup
<1> QED BY <1>1, Invariance, PTL

\* The end frames of s are counted: there is one frame at most, also together
\* with the end that was sent.
LEMMA OneEnd ==
    ASSUME IInv, NEW s \in Streams
    PROVE  Cardinality(EndFrames(s)) + (IF s \in shutWr THEN 1 ELSE 0) <= 1
<1>1. \A f, g \in EndFrames(s) : f = g
  BY DEF IInv, EndsInv, EndFrames, EndQueued, EndWriting
<1>2. s \in shutWr => EndFrames(s) = {}
  BY DEF IInv, EndsInv, EndFrames, EndAhead, EndQueued, EndWriting
<1>3. CASE EndFrames(s) = {}
  <2>1. Cardinality(EndFrames(s)) = 0
    BY <1>3, FS_EmptySet
  <2> QED BY <2>1
<1>4. CASE EndFrames(s) # {}
  <2>1. PICK f : EndFrames(s) = {f}
    BY <1>1, <1>4
  <2>2. Cardinality(EndFrames(s)) = 1
    BY <2>1, FS_Singleton
  <2> QED BY <1>2, <1>4, <2>2
<1> QED BY <1>3, <1>4

\* END_STREAM is produced once for each stream, and with a body only behind its
\* last accepted byte (_read_body, _data_frame_length).
THEOREM EndOnce == Spec => []EndsOnceAfterBody
<1>1. IInv => EndsOnceAfterBody
  <2> SUFFICES ASSUME IInv, NEW s \in Streams
               PROVE  /\ Cardinality(EndFrames(s)) + (IF s \in shutWr THEN 1 ELSE 0) <= 1
                      /\ s \in eof => Queued(s) = 0
                      /\ s \in bodies /\ (EndFrames(s) # {} \/ s \in shutWr) => s \in eof
    BY DEF EndsOnceAfterBody
  <2>1. s \in eof => Queued(s) = 0
    BY DEF IInv, TypeOK, BodyInv, Queued
  <2>2. EndFrames(s) # {} => EndAhead(s)
    BY DEF EndFrames, EndAhead, EndQueued, EndWriting
  <2>3. s \in bodies /\ (EndFrames(s) # {} \/ s \in shutWr) => s \in eof
    BY <2>2 DEF IInv, EndsInv
  <2> QED BY <2>1, <2>3, OneEnd
<1> QED BY <1>1, Invariance, PTL

\* data_to_send(amount) returns no more than amount bytes, whichever callback
\* writes them (_collect_output, _send_body).
THEOREM Limited == Spec => []LimitRespected
<1>1. IInv => LimitRespected
  BY DEF IInv, OutputInv, LimitRespected
<1> QED BY <1>1, Invariance, PTL

\* _read_body finds a body whenever it may be called, and nothing is kept for a
\* stream or a connection that is over (_stream_closed, _discard_pending_state).
THEOREM StateIsKept == Spec => []StateFollowsStream
<1>1. IInv => StateFollowsStream
  BY DEF IInv, KeptInv, ItemInv, Schedulable, StateFollowsStream, TypeOK
<1> QED BY <1>1, Invariance, PTL

\* A reset accepted with after_end_stream has an END_STREAM to wait for
\* (reset_stream, _frame_sent).
THEOREM ResetsCome == Spec => []DeferredResetComes
<1>1. IInv => DeferredResetComes
  <2>1. \A s \in Streams : EndAhead(s) => EndFrames(s) # {}
    BY DEF EndFrames, EndAhead, EndQueued, EndWriting
  <2> QED BY <2>1 DEF IInv, TypeOK, ResetInv, DeferredResetComes
<1> QED BY <1>1, Invariance, PTL

\* When it is submitted nothing of the stream is left to send, and the peer has
\* not ended as well (_frame_sent).
THEOREM ResetsLoseNothing == Spec => DeferredResetLosesNothing
<1> DEFINE Harmless(s) ==
        driving /\ Rst(s) \in control' \ control =>
            /\ s \in shutWr' /\ s \notin shutRd
            /\ Queued(s) = 0 /\ EndFrames(s)' = {}
<1>1. IInv /\ IInv' /\ [Next]_vars => [\A s \in Streams : Harmless(s)]_vars
  <2> SUFFICES ASSUME IInv, IInv', Next, NEW s \in Streams,
                      driving, Rst(s) \in control', Rst(s) \notin control
               PROVE  /\ s \in shutWr' /\ s \notin shutRd
                      /\ Queued(s) = 0 /\ EndFrames(s)' = {}
    OBVIOUS
  <2>1. FrameSent
    <3>1. ~Application /\ ~Peer /\ ~\E amount \in Limits : BeginDrive(amount)
      BY DEF Application, Peer, Active, SendRequest, SendResponse, SendData, SendTrailers,
         ResetStream, ResetAfterEnd, Terminate, PeerRequest, PeerEnd, PeerReset, PeerGrant,
         PeerGrantConnection, BeginDrive
    <3>2. ~Fail /\ ~CollectOutput /\ ~EndDrive
      BY DEF Fail, CollectOutput, EndDrive, nativeVars
    <3>3. ASSUME NEW t \in Streams, ReadBody(t) PROVE FALSE
      <4>1. control' \subseteq control \cup {Trailers(t)}
        BY <3>3 DEF ReadBody
      <4> QED BY <4>1 DEF Trailers, Rst
    <3>4. ASSUME NEW f \in control, PopControl(f) PROVE FALSE
      BY <3>4 DEF PopControl
    <3> QED BY <3>1, <3>2, <3>3, <3>4 DEF Next, Drive
  <2>2. s = aob.stream /\ ResetDue(s) /\ aob # NoFrame /\ UNCHANGED <<accepted, taken>>
    <3>1. /\ aob # NoFrame /\ UNCHANGED <<accepted, taken>>
          /\ UNCHANGED control \/ Resets(aob.stream)
      BY <2>1 DEF FrameSent, history
    <3>2. control' \subseteq control \cup {Rst(aob.stream)} /\ ResetDue(aob.stream)
      BY <3>1 DEF Resets, SubmitRst
    <3>3. s = aob.stream
      BY <3>2 DEF Rst
    <3> QED BY <3>1, <3>2, <3>3
  <2>3. aob.end /\ s \in deferredResets /\ s \notin shutRd
    BY <2>2 DEF ResetDue
  <2>4. s \in shutWr'
    BY <2>1, <2>2, <2>3 DEF FrameSent, Exists, IInv, ResetInv
  <2>5. Queued(s) = 0
    <3>1. EndAhead(s) /\ conn = "active"
      BY <2>2, <2>3 DEF EndAhead, EndWriting, IInv, KeptInv
    <3>2. CASE s \in bodies
      BY <3>1, <3>2 DEF IInv, TypeOK, EndsInv, BodyInv, Queued
    <3>3. CASE s \notin bodies
      BY <2>3, <3>1, <3>3 DEF IInv, TypeOK, KeptInv, BodyInv, ResetInv, Exists, Queued
    <3> QED BY <3>2, <3>3
  <2>6. EndFrames(s)' = {}
    BY <2>4 DEF IInv, EndsInv, EndAhead, EndQueued, EndWriting, EndFrames
  <2> QED BY <2>3, <2>4, <2>5, <2>6
<1> QED BY <1>1, Invariance, PTL DEF Spec, DeferredResetLosesNothing
-----------------------------------------------------------------------------
(* OutboundBody implements BodyDelivery.                                   *)

\* The phase of a body, as the refinement maps it.
Phase(s) == CASE s \in eof -> "finished"
              [] s \notin eof /\ s \in bodies -> IF ended[s] THEN "ended" ELSE "open"
              [] s \notin eof \cup bodies -> IF s \in opened THEN "cut" ELSE "none"
Phases == [s \in Streams |-> Phase(s)]

\* Losing bodies cuts those that are not finished.
LEMMA LosesBodies ==
    ASSUME IInv, bodies' \subseteq bodies,
           UNCHANGED <<ended, accepted, taken, eof, opened>>
    PROVE  Delivery!Next
<1>1. PICK S \in SUBSET Streams : S = {s \in bodies : s \notin bodies' /\ s \notin eof}
  BY DEF IInv, TypeOK
<1>2. \A s \in S : Phase(s) # "finished"
  BY <1>1 DEF Phase
<1>3. \A s \in Streams : Phase(s)' = IF s \in S THEN "cut" ELSE Phase(s)
  BY <1>1 DEF IInv, BodyInv, Phase
<1>4. Delivery!Cut(S)
  BY <1>2, <1>3 DEF Delivery!Cut, Phase
<1> QED BY <1>4 DEF Delivery!Next

\* What leaves bodies alone is no step of BodyDelivery.
LEMMA LeavesBodies ==
    ASSUME UNCHANGED <<bodies, ended, accepted, taken, eof, opened>>
    PROVE  UNCHANGED <<accepted, taken, Phases>>
BY DEF Phases, Phase

\* A message with a body opens it; one without changes nothing.
LEMMA OpensBody ==
    ASSUME IInv, NEW s \in Streams, s \notin opened, NewBody(s),
           UNCHANGED <<accepted, taken, eof>>
    PROVE  Delivery!Next
<1>1. Phase(s) = "none" /\ Phase(s)' = "open"
  BY DEF IInv, TypeOK, BodyInv, NewBody, Phase
<1>2. \A t \in Streams : t # s => Phase(t)' = Phase(t)
  BY DEF IInv, TypeOK, NewBody, Phase
<1>3. Delivery!Open(s)
  BY <1>1, <1>2 DEF Delivery!Open, Phase
<1> QED BY <1>3 DEF Delivery!Next

\* Bytes and an end are accepted for a body that is open.
LEMMA AcceptsBytes ==
    ASSUME IInv, NEW s \in Streams, NEW n \in 0 .. MaxBytes - accepted[s],
           NEW last \in BOOLEAN, s \in bodies, ~ended[s],
           accepted' = [accepted EXCEPT ![s] = @ + n], ended' = [ended EXCEPT ![s] = last],
           UNCHANGED <<bodies, taken, eof, opened>>
    PROVE  Delivery!Next
<1>1. s \notin eof
  BY DEF IInv, BodyInv
<1>2. Phase(s) = "open" /\ Phase(s)' = IF last THEN "ended" ELSE "open"
  BY <1>1 DEF IInv, TypeOK, Phase
<1>3. \A t \in Streams : t # s => Phase(t)' = Phase(t)
  BY DEF IInv, TypeOK, Phase
<1>4. Delivery!Accept(s, n, last)
  BY <1>2, <1>3 DEF Delivery!Accept, Phase
<1> QED BY <1>4 DEF Delivery!Next

\* _read_body takes the next bytes, with the end only behind the last of them.
LEMMA SendsBytes ==
    ASSUME IInv, NEW s \in Streams, ReadBody(s)
    PROVE  Delivery!Next \/ UNCHANGED <<accepted, taken, Phases>>
<1> DEFINE read == Least(FrameLength(s), Queued(s))
<1>1. /\ s \in bodies /\ s \notin eof
      /\ accepted[s] \in Nat /\ taken[s] \in Nat /\ read \in 0 .. accepted[s] - taken[s]
      /\ Complete(s, read) \in BOOLEAN
  BY ReadBodyFinds DEF Queued, IInv, TypeOK, Complete
<1>2. PICK n \in 0 .. accepted[s] - taken[s], complete \in BOOLEAN :
        n = read /\ (complete <=> Complete(s, read))
  BY <1>1
<1>3. UNCHANGED <<bodies, ended, accepted, opened>>
  BY DEF ReadBody
<1>4. CASE n > 0 \/ complete
  <2>1. /\ taken' = [taken EXCEPT ![s] = @ + n]
        /\ eof' = IF complete THEN eof \cup {s} ELSE eof
    BY <1>2, <1>4 DEF ReadBody
  <2>2. complete => ended[s] /\ taken[s] + n = accepted[s]
    <3>1. complete => ended[s] /\ n = Queued(s)
      BY <1>2 DEF Complete
    <3> HIDE DEF read
    <3> QED BY <1>1, <3>1 DEF Queued
  <2> HIDE DEF read
  <2>3. Phase(s) \in {"open", "ended"} /\ (complete => Phase(s) = "ended")
    BY <1>1, <2>2 DEF Phase
  <2>4. Phase(s)' = IF complete THEN "finished" ELSE Phase(s)
    BY <1>1, <1>3, <2>1 DEF Phase
  <2>5. \A t \in Streams : t # s => Phase(t)' = Phase(t)
    BY <1>3, <2>1 DEF Phase
  <2>6. Delivery!Send(s, n, complete)
    BY <1>3, <2>1, <2>2, <2>3, <2>4, <2>5 DEF Delivery!Send, Phase
  <2> QED BY <2>6 DEF Delivery!Next
<1>5. CASE ~(n > 0 \/ complete)
  <2>1. UNCHANGED <<taken, eof>>
    BY <1>2, <1>5 DEF ReadBody
  <2> QED BY <1>3, <2>1, LeavesBodies
<1> QED BY <1>4, <1>5

\* The connection keeps the promise of BodyDelivery: the peer sees an end only
\* behind the last byte accepted, whatever happens to the stream.
THEOREM Implementation == Spec => ImplementsDelivery
<1>1. Init => Delivery!Init
  BY DEF Init, Delivery!Init
<1>2. IInv /\ [Next]_vars => [Delivery!Next]_<<accepted, taken, Phases>>
  <2> SUFFICES ASSUME IInv, [Next]_vars
               PROVE  Delivery!Next \/ UNCHANGED <<accepted, taken, Phases>>
    OBVIOUS
  <2>1. ASSUME NEW s \in Streams, NEW end \in BOOLEAN,
               SendRequest(s, end) \/ SendResponse(s, end)
        PROVE  Delivery!Next \/ UNCHANGED <<accepted, taken, Phases>>
    <3>1. s \notin opened /\ UNCHANGED <<accepted, taken, eof>>
          /\ IF end THEN NoBody ELSE NewBody(s)
      BY <2>1 DEF SendRequest, SendResponse, Active, IInv, FreshInv, Fresh
    <3>2. CASE end
      BY <3>1, <3>2, LeavesBodies DEF NoBody
    <3>3. CASE ~end
      BY <3>1, <3>3, OpensBody
    <3> QED BY <3>2, <3>3
  <2>2. ASSUME NEW s \in Streams, NEW n \in 0 .. MaxBytes - accepted[s],
               NEW last \in BOOLEAN, SendData(s, n, last)
        PROVE  Delivery!Next
    BY <2>2, AcceptsBytes DEF SendData
  <2>3. ASSUME NEW s \in Streams, SendTrailers(s)
        PROVE  Delivery!Next
    <3>1. 0 \in 0 .. MaxBytes - accepted[s] /\ accepted = [accepted EXCEPT ![s] = @ + 0]
      BY OutboundBodyAssumption DEF IInv, TypeOK, BodyInv
    <3> QED BY <2>3, <3>1, AcceptsBytes DEF SendTrailers, history
  <2>4. ASSUME \/ \E s \in Streams : PeerEnd(s) \/ PeerReset(s)
               \/ \E f \in control : PopControl(f)
               \/ FrameSent \/ Terminate \/ Fail
        PROVE  Delivery!Next
    <3>1. bodies' \subseteq bodies
      BY <2>4 DEF PeerEnd, PeerReset, PopControl, FrameSent, Terminate, Fail, Close,
         DiscardPendingState
    <3>2. UNCHANGED <<ended, accepted, taken, eof, opened>>
      BY <2>4 DEF PeerEnd, PeerReset, PopControl, FrameSent, Terminate, Fail, history
    <3> QED BY <3>1, <3>2, LosesBodies
  <2>5. ASSUME \/ \E s \in Streams : \/ ResetStream(s) \/ ResetAfterEnd(s) \/ PeerGrant(s)
                                     \/ \E end \in BOOLEAN : PeerRequest(s, end)
               \/ PeerGrantConnection \/ CollectOutput \/ EndDrive
               \/ \E amount \in Limits : BeginDrive(amount)
               \/ UNCHANGED vars
        PROVE  UNCHANGED <<accepted, taken, Phases>>
    <3>1. UNCHANGED <<bodies, ended, accepted, taken, eof, opened>>
      BY <2>5 DEF ResetStream, ResetAfterEnd, PeerGrant, PeerRequest, PeerGrantConnection,
         CollectOutput, EndDrive, BeginDrive, vars, bodyVars, history
    <3> QED BY <3>1, LeavesBodies
  <2> QED BY <2>1, <2>2, <2>3, <2>4, <2>5, SendsBytes DEF Next, Application, Peer, Drive
<1>3. IInv /\ [Next]_vars => [Delivery!Next]_Delivery!vars
  BY <1>2 DEF Delivery!vars, Phases, Phase
<1> QED BY <1>1, <1>3, Invariance, PTL DEF Spec, ImplementsDelivery, Delivery!Spec
=============================================================================
