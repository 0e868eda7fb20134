----------------------------- MODULE OutputBuffer -----------------------------
(***************************************************************************)
(* The bytes object a Connection collects its output in: one data_to_send  *)
(* call grows it, trims it and hands it to the caller.                     *)
(*                                                                         *)
(* Sizes are signed machine integers (Py_ssize_t) in the code.  Here they  *)
(* are integers, and "undefined" records an operation whose result the     *)
(* machine cannot hold.                                                    *)
(***************************************************************************)
EXTENDS Integers

CONSTANTS
    MaxSize,     \* the largest Py_ssize_t, one less than a power of two
    MinCapacity, \* size of a new buffer; 4096 in the code
    HeaderSize   \* size of a frame header; 9 in the code

ASSUME OutputBufferAssumption ==
    /\ {MaxSize, MinCapacity, HeaderSize} \subseteq Nat
    /\ MinCapacity <= MaxSize
    /\ HeaderSize \in 1 .. MaxSize

VARIABLES
    phase,     \* "idle", "driving" (nghttp2_session_send runs), "failed"
    capacity,  \* size of _output, 0 for NULL
    used,      \* _output_size
    remaining, \* _output_remaining; -1 for no limit
    limit,     \* history: the limit of the call
    accepted,  \* history: bytes libnghttp2 was told are taken, in this call
    moved,     \* history: bytes copied by growing the buffer, in this call
    undefined  \* history: an operation overflowed

bufferVars == <<phase, capacity, used, remaining, limit, accepted, moved, undefined>>

NoLimit == -1

BufferInit ==
    /\ phase = "idle"
    /\ capacity = 0 /\ used = 0
    /\ remaining = 0 /\ limit = 0
    /\ accepted = 0 /\ moved = 0
    /\ undefined = FALSE

Largest(a, b) == IF a >= b THEN a ELSE b

Representable(n) == n \in -(MaxSize + 1) .. MaxSize

\* _reserve_output refuses a length it could not add.
RoomFor(length) == length <= MaxSize - used

\* Mutant: every capacity is doubled.
AlwaysDoubles == TRUE

\* A capacity beyond a quarter of the largest size_t is not doubled.
Doubles == capacity < (2 * MaxSize + 1) \div 4

\* Mutant: the buffer grows to what is needed and no further.
GrowExactly(length) == used + length

\* The capacity after a growth.
Grown(length) ==
    IF Doubles THEN Largest(used + length, Largest(2 * capacity, MinCapacity))
    ELSE used + length

\* _reserve_output: room for length bytes is there, and counted as used.
Reserve(length) ==
    LET grows == used + length > capacity
        inRange == /\ Representable(used + length)
                   /\ grows /\ Doubles => Representable(2 * capacity)
    IN  /\ used' = used + length
        /\ capacity' = IF grows THEN Grown(length) ELSE capacity
        /\ moved' = IF grows THEN moved + capacity ELSE moved
        /\ undefined' = IF inRange THEN undefined ELSE TRUE
-----------------------------------------------------------------------------
\* data_to_send(amount) on an active connection; an amount of 0 returns at once.
BeginDrive(amount) ==
    /\ phase = "idle"
    /\ phase' = "driving"
    /\ used' = 0 /\ accepted' = 0 /\ moved' = 0
    /\ remaining' = amount /\ limit' = amount
    /\ UNCHANGED <<capacity, undefined>>

\* An exception, MemoryError among others: the output is lost, so _fail ends
\* the connection.
FailDrive ==
    /\ phase = "driving"
    /\ phase' = "failed"
    /\ capacity' = 0 /\ remaining' = 0
    /\ UNCHANGED <<used, limit, accepted, moved, undefined>>

\* n bytes of the limit are spent.
Take(n) == remaining' = IF remaining < 0 THEN remaining ELSE remaining - n

\* _collect_output: as much of a serialized frame as the limit allows; with the
\* limit spent it returns WOULDBLOCK and changes nothing.
CollectOutput(length) ==
    /\ phase = "driving" /\ remaining # 0
    /\ LET n == IF remaining >= 0 /\ remaining < length THEN remaining ELSE length
       IN  IF RoomFor(n)
           THEN /\ Reserve(n)
                /\ Take(n)
                /\ accepted' = accepted + n
                /\ UNCHANGED <<phase, limit>>
           ELSE FailDrive

\* _send_body: a whole DATA frame, for which _read_body found room in the limit.
SendBody(length) ==
    /\ phase = "driving"
    /\ remaining < 0 \/ length + HeaderSize <= remaining
    /\ IF length <= MaxSize - HeaderSize /\ RoomFor(length + HeaderSize)
       THEN /\ Reserve(length + HeaderSize)
            /\ Take(length + HeaderSize)
            /\ accepted' = accepted + length + HeaderSize
            /\ UNCHANGED <<phase, limit>>
       ELSE FailDrive

\* The buffer, trimmed to the bytes used, becomes the caller's.
EndDrive ==
    /\ phase = "driving"
    /\ phase' = "idle"
    /\ capacity' = 0 /\ remaining' = 0
    /\ UNCHANGED <<used, limit, accepted, moved, undefined>>

BufferNext ==
    \/ \E amount \in {NoLimit} \cup 1 .. MaxSize : BeginDrive(amount)
    \/ \E length \in 1 .. MaxSize : CollectOutput(length)
    \/ \E length \in 0 .. MaxSize : SendBody(length)
    \/ EndDrive
    \/ FailDrive

BufferSpec == BufferInit /\ [][BufferNext]_bufferVars
-----------------------------------------------------------------------------
(* Properties.                                                             *)

\* Every variable stays within its type; used, capacity and remaining within
\* Py_ssize_t.
SizesOK ==
    /\ phase \in {"idle", "driving", "failed"}
    /\ capacity \in 0 .. MaxSize /\ used \in 0 .. MaxSize
    /\ remaining \in -1 .. MaxSize /\ limit \in -1 .. MaxSize
    /\ accepted \in Nat /\ moved \in Nat
    /\ undefined \in BOOLEAN

\* No sum and no product of _reserve_output leaves Py_ssize_t, at whatever size
\* the buffer is and whatever lengths libnghttp2 hands over.
NeverOverflows == ~undefined

\* What was written lies inside the buffer: no memcpy passes its end.
OutputFits == phase = "driving" => used <= capacity

\* The output is what libnghttp2 believes was taken, and no more than asked for:
\* what is left of a limit never falls below 0, which would mean no limit.
OutputExact ==
    phase = "driving" =>
        /\ used = accepted
        /\ limit >= 0 => remaining >= 0 /\ used + remaining = limit

\* No size leaves its type, no output is written outside the buffer, and none
\* but what was accepted.
OutputSafe == SizesOK /\ NeverOverflows /\ OutputFits /\ OutputExact

\* The buffer is less than twice as large as needed, but for a small minimum.
LittleWaste == phase = "driving" /\ capacity > MinCapacity => capacity < 2 * used

\* Growing by doubling copies no more than the buffer holds in all, as long as
\* its size may double: the cost of output is linear in its length.
LinearCost == phase = "driving" /\ Doubles => moved <= capacity

\* The output of a call costs memory and time linear in its length.
GrowthLinear == LittleWaste /\ LinearCost
=============================================================================
