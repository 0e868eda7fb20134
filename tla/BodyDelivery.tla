---------------------------- MODULE BodyDelivery ----------------------------
(***************************************************************************)
(* What a Connection promises about the outbound body of a stream, whatever *)
(* it does with queues, flow control and output limits.                    *)
(*                                                                         *)
(* The bytes of a body are numbered in the order send_data() accepts them, *)
(* so a prefix is a number: "accepted" bytes were taken from the           *)
(* application and the first "sent" of them left the queue.  The end of a  *)
(* body becomes visible to the peer only behind its last byte, and a       *)
(* stream that is cut short never shows an end.                            *)
(***************************************************************************)
EXTENDS Integers

CONSTANTS
    Streams,   \* stream identifiers that may carry a body
    MaxBytes   \* bound: bytes the application offers to one stream

VARIABLES accepted, sent, phase

vars == <<accepted, sent, phase>>

Init ==
    /\ accepted = [s \in Streams |-> 0]
    /\ sent = [s \in Streams |-> 0]
    /\ phase = [s \in Streams |-> "none"]

\* A request or response with a body gives the stream a queue.
Open(s) ==
    /\ phase[s] = "none"
    /\ phase' = [phase EXCEPT ![s] = "open"]
    /\ UNCHANGED <<accepted, sent>>

\* The application hands over n more bytes, and may say they are the last.
Accept(s, n, last) ==
    /\ phase[s] = "open"
    /\ accepted' = [accepted EXCEPT ![s] = @ + n]
    /\ phase' = [phase EXCEPT ![s] = IF last THEN "ended" ELSE "open"]
    /\ UNCHANGED sent

\* The next n of the accepted bytes leave the queue, with the end marker only
\* behind the last byte of an ended body.
Send(s, n, end) ==
    /\ phase[s] \in {"open", "ended"}
    /\ end => phase[s] = "ended" /\ sent[s] + n = accepted[s]
    /\ sent' = [sent EXCEPT ![s] = @ + n]
    /\ phase' = [phase EXCEPT ![s] = IF end THEN "finished" ELSE @]
    /\ UNCHANGED accepted

\* A set of streams is reset, or lost with the connection.
Cut(S) ==
    /\ \A s \in S : phase[s] # "finished"
    /\ phase' = [s \in Streams |-> IF s \in S THEN "cut" ELSE phase[s]]
    /\ UNCHANGED <<accepted, sent>>

Next ==
    \/ \E s \in Streams :
        \/ Open(s)
        \/ \E n \in 0 .. MaxBytes - accepted[s], last \in BOOLEAN : Accept(s, n, last)
        \/ \E n \in 0 .. accepted[s] - sent[s], end \in BOOLEAN : Send(s, n, end)
    \/ \E S \in SUBSET Streams : Cut(S)

Spec == Init /\ [][Next]_vars
=============================================================================
