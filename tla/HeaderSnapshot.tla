--------------------------- MODULE HeaderSnapshot ---------------------------
(***************************************************************************)
(* How _core.pyx turns the header fields of a call into the array of       *)
(* pointers libnghttp2 reads: _normalize_headers takes a snapshot of the   *)
(* caller's fields, _make_headers borrows the bytes of the snapshot, and   *)
(* the array lives until the native submit returns.  Trailers wait in the  *)
(* body between the two: their array is made inside a native callback.     *)
(*                                                                         *)
(* What the caller hands over may run code of the caller: a producer when  *)
(* it is asked for the next field, a custom pair when it is unpacked or    *)
(* released, bytes of a subclass when they are released.  That code may    *)
(* change mutable pairs, end the body or close the connection.             *)
(*                                                                         *)
(* A bytes object is its text and whether its type is exactly bytes; name  *)
(* and value of a field are one object, since the code treats them alike.  *)
(* Texts are numbered in the order the caller creates them.                *)
(***************************************************************************)
EXTENDS Integers, Sequences, SequencesExt

CONSTANTS
    PairCount,  \* the pair objects the caller owns
    MaxFields,  \* bound: fields of one call
    MaxTexts    \* bound: bytes objects the caller creates

ASSUME SnapshotAssumption ==
    PairCount \in Nat /\ MaxFields \in Nat /\ MaxTexts \in Nat

VARIABLES
    kind,       \* the type of each pair object
    stored,     \* the bytes each pair object holds
    texts,      \* texts created so far
    active,     \* the connection accepts calls
    body,       \* the outbound body: open, with queued trailers, or ended
    trailers,   \* _BodySource.trailers
    promised,   \* the fields given to send_trailers
    call,       \* the call or callback that is running
    arrays      \* native arrays allocated and not freed

caller == <<kind, stored, texts>>
source == <<body, trailers, promised>>
snapshotVars == <<kind, stored, texts, active, body, trailers, promised, call,
                  arrays>>

(***************************************************************************)
(* A plain pair is exactly a tuple or a NeverIndexedHeader: it never       *)
(* changes and runs no code.  A list is a mutable pair.  A custom pair     *)
(* makes its bytes when it is unpacked; customNever is a subclass of       *)
(* NeverIndexedHeader.  What is no pair of bytes is refused.               *)
(***************************************************************************)
PairObjects == 1..PairCount
Plain == {"tuple", "never"}
Custom == {"custom", "customNever"}
Kinds == Plain \cup Custom \cup {"list", "notAPair"}
Never(k) == k \in {"never", "customNever"}

NoBytes == [text |-> 0, exact |-> TRUE]

\* An entry of a snapshot: a reference to the caller's pair p, or a plain pair
\* of the snapshot's own.
Reference(p) == [pair |-> p, kind |-> kind[p], bytes |-> NoBytes]
Frozen(k, b) == [pair |-> 0, kind |-> IF Never(k) THEN "never" ELSE "tuple",
                 bytes |-> b]
IsFrozen(e) == e.pair = 0
RunsCaller(e) == ~IsFrozen(e) /\ e.kind \in Custom

\* The bytes object an entry keeps alive; a custom pair keeps none.
HeldBytes(e) == IF IsFrozen(e) THEN {e.bytes}
                ELSE IF e.kind \in Custom THEN {} ELSE {stored[e.pair]}

\* The bytes objects unpacking an entry may yield.
NewBytes == IF texts < MaxTexts THEN [text : {texts + 1}, exact : BOOLEAN] ELSE {}
Unpacked(e) == IF RunsCaller(e) THEN NewBytes ELSE HeldBytes(e)
TextsAfter(e) == IF RunsCaller(e) THEN texts + 1 ELSE texts

\* A field as libnghttp2 reads it.
Native(k, b) == [bytes |-> b, never |-> Never(k)]

\* A call or callback: native holds the entries of its array written so far,
\* released says that a custom pair was replaced.
NewCall(stage, items, snapshot, given) ==
    [stage |-> stage, callback |-> FALSE, deferred |-> FALSE, producer |-> FALSE,
     left |-> items, snapshot |-> snapshot, given |-> given, native |-> <<>>, released |-> FALSE]

Idle == NewCall("idle", <<>>, <<>>, <<>>)

SnapshotInit ==
    /\ kind \in [PairObjects -> Kinds]
    /\ \E exact \in [PairObjects -> BOOLEAN] :
          stored = [p \in PairObjects |-> [text |-> p, exact |-> exact[p]]]
    /\ texts = PairCount
    /\ active = TRUE
    /\ body = "open"
    /\ trailers = <<>>
    /\ promised = <<>>
    /\ call = Idle
    /\ arrays = 0

-----------------------------------------------------------------------------
(* The caller's code, between calls and inside the conversions.            *)

CallerRuns ==
    CASE call.stage = "idle"      -> TRUE
      [] call.stage = "normalize" ->
            call.producer \/ (call.left # <<>> /\ kind[Head(call.left)] \in Custom)
      [] call.stage = "build"     ->
            \/ call.released
            \/ /\ Len(call.native) < Len(call.snapshot)
               /\ RunsCaller(call.snapshot[Len(call.native) + 1])
      [] OTHER                    -> FALSE

Mutate(p) ==
    /\ CallerRuns
    /\ kind[p] = "list"
    /\ \E b \in NewBytes : stored' = [stored EXCEPT ![p] = b]
    /\ texts' = texts + 1
    /\ UNCHANGED <<kind, active, source, call, arrays>>

EndBody ==
    /\ CallerRuns
    /\ body = "open"
    /\ body' = "ended"
    /\ UNCHANGED <<caller, active, trailers, promised, call, arrays>>

CloseConnection ==
    /\ CallerRuns
    /\ active = TRUE
    /\ active' = FALSE
    /\ UNCHANGED <<caller, source, call, arrays>>

-----------------------------------------------------------------------------
(* _normalize_headers: built-in collections of an immediate call are only  *)
(* copied, everything else is unpacked and checked field by field.         *)

\* Mutant: built-in collections are only copied for trailers too.
FastPathAlways(producer, deferred) == ~producer

FastPath(producer, deferred) == ~deferred /\ ~producer

Begin(items, producer, deferred) ==
    LET fast == FastPath(producer, deferred)
        references == [i \in DOMAIN items |-> Reference(items[i])]
    IN /\ call = Idle
       /\ call' = [NewCall("normalize", IF fast THEN <<>> ELSE items,
                           IF fast THEN references ELSE <<>>, <<>>)
                   EXCEPT !.deferred = deferred, !.producer = producer]
       /\ UNCHANGED <<caller, active, source, arrays>>

\* Mutant: only the type of the pair counts, not that of its bytes.
OwnBytesGiven(b) == b

\* Bytes of a subclass are copied when their release would fall in a callback.
OwnBytes(b) == IF call.deferred THEN [b EXCEPT !.exact = TRUE] ELSE b

\* Mutant: a mutable pair is kept when its bytes are exact.
EntryKeepsPair(p, b) == IF OwnBytes(b) = b THEN Reference(p)
                        ELSE Frozen(kind[p], OwnBytes(b))

Entry(p, b) == IF kind[p] \in Plain /\ OwnBytes(b) = b
               THEN Reference(p) ELSE Frozen(kind[p], OwnBytes(b))

Normalize ==
    /\ call.stage = "normalize"
    /\ call.left # <<>>
    /\ LET p == Head(call.left)
       IN /\ kind[p] # "notAPair"
          /\ \E b \in Unpacked(Reference(p)) :
                call' = [call EXCEPT !.left = Tail(@),
                                     !.snapshot = Append(@, Entry(p, b)),
                                     !.given = Append(@, Native(kind[p], b))]
          /\ texts' = TextsAfter(Reference(p))
    /\ UNCHANGED <<kind, stored, active, source, arrays>>

\* What is no pair of bytes, a mutable pair that may have become none, or code
\* of the caller that raises.
Refused(e) == e.kind \in {"notAPair", "list"} \/ RunsCaller(e)

NormalizeRaises ==
    /\ call.stage = "normalize"
    /\ call.producer \/ (call.left # <<>> /\ Refused(Reference(Head(call.left))))
    /\ call' = Idle
    /\ UNCHANGED <<caller, active, source, arrays>>

Normalized ==
    /\ call.stage = "normalize"
    /\ call.left = <<>>
    /\ ~call.deferred
    /\ call' = [call EXCEPT !.stage = "allocate"]
    /\ UNCHANGED <<caller, active, source, arrays>>

\* send_trailers looks at the connection and the body after the conversion.
QueueTrailers ==
    /\ call.stage = "normalize"
    /\ call.left = <<>>
    /\ call.deferred
    /\ IF active /\ body = "open"
       THEN /\ body' = "trailers"
            /\ trailers' = call.snapshot
            /\ promised' = call.given
       ELSE UNCHANGED source
    /\ call' = Idle
    /\ UNCHANGED <<caller, active, arrays>>

-----------------------------------------------------------------------------
(* _make_headers, for a call at once and for trailers in _read_body.       *)

ReadTrailers ==
    /\ call = Idle
    /\ active
    /\ body = "trailers"
    /\ call' = [NewCall("allocate", <<>>, trailers, promised) EXCEPT !.callback = TRUE]
    /\ UNCHANGED <<caller, active, source, arrays>>

Freed == arrays' = arrays - 1

\* An error leaves a call at its caller and ends the connection in a callback.
FailCall ==
    /\ call' = Idle
    /\ active' = (active /\ ~call.callback)
    /\ UNCHANGED <<caller, source>>

Allocate ==
    /\ call.stage = "allocate"
    /\ \/ /\ call' = [call EXCEPT !.stage = "build"]
          /\ arrays' = arrays + 1
          /\ UNCHANGED <<caller, active, source>>
       \/ FailCall /\ UNCHANGED arrays

\* Mutant: custom and mutable pairs stay in the snapshot.
KeptAsGiven(e, b) == e

\* Every entry but a plain pair is replaced by what it was unpacked to.
Kept(e, b) == IF e.kind \in Plain THEN e ELSE Frozen(e.kind, b)

Build ==
    /\ call.stage = "build"
    /\ Len(call.native) < Len(call.snapshot)
    /\ LET i == Len(call.native) + 1
           e == call.snapshot[i]
       IN /\ e.kind # "notAPair"
          /\ \E b \in Unpacked(e) :
                call' = [call EXCEPT
                    !.snapshot[i] = Kept(e, b),
                    !.native = Append(@, Native(e.kind, b)),
                    !.given = IF i > Len(@) THEN Append(@, Native(e.kind, b)) ELSE @,
                    !.released = RunsCaller(e)]
          /\ texts' = TextsAfter(e)
    /\ UNCHANGED <<kind, stored, active, source, arrays>>

\* Mutant: an array written in part is left behind when a field is refused.
BuildRaisesKeepsArray ==
    /\ call.stage = "build"
    /\ Len(call.native) < Len(call.snapshot)
    /\ Refused(call.snapshot[Len(call.native) + 1])
    /\ FailCall
    /\ UNCHANGED arrays

BuildRaises ==
    /\ call.stage = "build"
    /\ Len(call.native) < Len(call.snapshot)
    /\ Refused(call.snapshot[Len(call.native) + 1])
    /\ FailCall
    /\ Freed

\* _require_active and the other checks of a call, then the native submit; the
\* array is freed behind either of them.
Check ==
    /\ call.stage = "build"
    /\ Len(call.native) = Len(call.snapshot)
    /\ IF active
       THEN call' = [call EXCEPT !.stage = "submit"] /\ UNCHANGED arrays
       ELSE call' = Idle /\ Freed
    /\ UNCHANGED <<caller, active, source>>

Submit ==
    /\ call.stage = "submit"
    /\ Freed
    /\ \/ /\ call' = Idle
          /\ body' = IF call.callback THEN "ended" ELSE body
          /\ trailers' = IF call.callback THEN <<>> ELSE trailers
          /\ promised' = IF call.callback THEN <<>> ELSE promised
          /\ UNCHANGED <<caller, active>>
       \/ FailCall

SnapshotNext ==
    \/ \E p \in PairObjects : Mutate(p)
    \/ EndBody
    \/ CloseConnection
    \/ \E items \in SeqOf(PairObjects, MaxFields), producer, deferred \in BOOLEAN :
          Begin(items, producer, deferred)
    \/ Normalize \/ NormalizeRaises \/ Normalized \/ QueueTrailers
    \/ ReadTrailers \/ Allocate \/ Build \/ BuildRaises \/ Check \/ Submit

SnapshotSpec == SnapshotInit /\ [][SnapshotNext]_snapshotVars

-----------------------------------------------------------------------------
(***************************************************************************)
(* The pointers of the native array point into bytes the snapshot keeps    *)
(* alive, from the moment they are written until libnghttp2 has read them, *)
(* whatever the caller's code does to the pairs meanwhile (_make_headers:  *)
(* "Borrow field bytes held by the caller-owned snapshot through submit"). *)
(***************************************************************************)
BorrowsHeld ==
    call.stage \in {"build", "submit"} =>
        \A i \in DOMAIN call.native :
            call.native[i].bytes \in HeldBytes(call.snapshot[i])

\* The array is there while it is written and read, and freed once on every
\* path: behind the submit, a failed check and a field that is refused when
\* others are already written.
ArrayFreed == arrays = IF call.stage \in {"build", "submit"} THEN 1 ELSE 0

\* Building the trailers runs no code of the caller and releases none of its
\* objects but exact bytes: libnghttp2 is on the stack.
CallbackPlain ==
    /\ call.stage # "idle" /\ call.callback => ~CallerRuns
    /\ \A i \in DOMAIN trailers :
          /\ trailers[i].kind \in Plain
          /\ \A b \in HeldBytes(trailers[i]) : b.exact

\* The native array is safe to read for as long as it exists, in calls and in
\* callbacks (_make_headers, _read_body).
BorrowSafe == BorrowsHeld /\ ArrayFreed /\ CallbackPlain

\* libnghttp2 receives the fields as the caller gave them, in order and with
\* their indexing, each read once: a producer may reuse its pair for the next
\* field and trailers may change after send_trailers returned.  Nothing is
\* submitted for a connection the caller's code closed during the conversion.
SubmitsGiven ==
    call.stage = "submit" =>
        /\ active
        /\ Len(call.native) = Len(call.given)
        /\ \A i \in DOMAIN call.native :
              /\ call.native[i].bytes.text = call.given[i].bytes.text
              /\ call.native[i].never = call.given[i].never

=============================================================================
