------------------------ MODULE NativeBoundaryProofs ------------------------
(***************************************************************************)
(* Proofs about what passes between Python and libnghttp2.                 *)
(*                                                                         *)
(* HeaderSnapshot: BorrowSafe and SubmitsGiven for any number of pairs and *)
(* fields.  The argument: once unpacked an entry of a snapshot is plain,   *)
(* what a plain entry holds never changes again, and what was recorded or  *)
(* borrowed from an entry was taken from it when it was plain.  That the   *)
(* native array is freed once is an induction of its own (ArrayStep).      *)
(* IntegerArguments: IntegersExact for all widths.                         *)
(* OutputBuffer: OutputSafe and GrowthLinear for integers of every width,  *)
(* every minimum capacity and every size of the frame header.              *)
(* InboundData: no byte and no window credit is lost, for every set of     *)
(* streams, window and number of frames.                                   *)
(***************************************************************************)
EXTENDS HeaderSnapshot, IntegerArguments, OutputBuffer, InboundData, TLAPS

BytesType == [text : Nat, exact : BOOLEAN]
EntryType == [pair : PairObjects \cup {0}, kind : Kinds, bytes : BytesType]
FieldType == [bytes : BytesType, never : BOOLEAN]
Stages == {"idle", "normalize", "allocate", "build", "submit"}
CallType == [stage : Stages, callback : BOOLEAN,
             deferred : BOOLEAN, producer : BOOLEAN, left : Seq(PairObjects),
             snapshot : Seq(EntryType), given : Seq(FieldType),
             native : Seq(FieldType), released : BOOLEAN]

SnapshotTypes ==
    /\ kind \in [PairObjects -> Kinds]
    /\ stored \in [PairObjects -> BytesType]
    /\ texts \in Nat
    /\ active \in BOOLEAN
    /\ body \in {"open", "trailers", "ended"}
    /\ trailers \in Seq(EntryType)
    /\ promised \in Seq(FieldType)
    /\ call \in CallType

\* An entry is a plain pair of the snapshot or has the kind of its pair.
Sound(e) == IF e.pair = 0 THEN e.kind \in Plain ELSE e.kind = kind[e.pair]
SoundAll(entries) == \A i \in 1..Len(entries) : Sound(entries[i])

\* A plain entry without bytes of a subclass.
Quiet(e) == e.kind \in Plain /\ \A b \in HeldBytes(e) : b.exact
QuietAll(entries) == \A i \in 1..Len(entries) : Quiet(entries[i])

\* A field recorded from a plain entry, and one borrowed from it.
Records(e, f) ==
    /\ e.kind \in Plain
    /\ \A b \in HeldBytes(e) : f.bytes.text = b.text
    /\ f.never = Never(e.kind)
RecordsAll(entries, fields) ==
    /\ Len(fields) <= Len(entries)
    /\ \A i \in 1..Len(fields) : Records(entries[i], fields[i])
Borrows(e, f) ==
    /\ e.kind \in Plain
    /\ f.bytes \in HeldBytes(e)
    /\ f.never = Never(e.kind)

TrailersInv ==
    /\ SoundAll(trailers)
    /\ QuietAll(trailers)
    /\ RecordsAll(trailers, promised)
    /\ Len(promised) = Len(trailers)

CallInv ==
    /\ SoundAll(call.snapshot)
    /\ RecordsAll(call.snapshot, call.given)
    /\ call.callback =>
          /\ call.stage \in {"allocate", "build", "submit"}
          /\ ~call.released
          /\ QuietAll(call.snapshot)
    /\ call.stage \in {"idle", "normalize", "allocate"} => call.native = <<>>
    /\ call.stage = "normalize" /\ call.deferred => QuietAll(call.snapshot)
    /\ call.stage = "normalize" /\ (call.deferred \/ call.left # <<>>) =>
          Len(call.given) = Len(call.snapshot)
    /\ Len(call.native) <= Len(call.given)
    /\ \A i \in 1..Len(call.native) : Borrows(call.snapshot[i], call.native[i])
    /\ call.stage = "submit" => active /\ Len(call.native) = Len(call.snapshot)

SnapshotInv == SnapshotTypes /\ TrailersInv /\ CallInv

-----------------------------------------------------------------------------
\* What an entry holds is one bytes object when it is plain.
LEMMA PlainHolds ==
    ASSUME SnapshotTypes, NEW e \in EntryType, Sound(e), e.kind \in Plain
    PROVE  \E b \in BytesType : HeldBytes(e) = {b}
<1>1. CASE e.pair = 0
    BY <1>1 DEF HeldBytes, IsFrozen, EntryType
<1>2. CASE e.pair # 0
    <2>1. e.pair \in PairObjects /\ stored[e.pair] \in BytesType
        BY <1>2 DEF EntryType, SnapshotTypes
    <2>2. e.kind \notin Custom
        BY DEF Plain, Custom
    <2> QED BY <1>2, <2>1, <2>2 DEF HeldBytes, IsFrozen
<1> QED BY <1>1, <1>2

\* The invariant implies the two properties.
LEMMA InvImplies == ASSUME SnapshotInv, ArrayFreed PROVE BorrowSafe /\ SubmitsGiven
<1> USE DEF SnapshotInv, SnapshotTypes, CallType
<1>1. BorrowsHeld
    <2>1. DOMAIN call.native = 1..Len(call.native)
        OBVIOUS
    <2> QED BY <2>1 DEF BorrowsHeld, CallInv, Borrows
<1>2. CallbackPlain
    <2>1. ASSUME call.stage # "idle", call.callback PROVE ~CallerRuns
        <3>1. call.stage \in {"allocate", "build", "submit"} /\ ~call.released
            BY <2>1 DEF CallInv
        <3>2. CASE call.stage = "build"
            <4>1. ASSUME Len(call.native) < Len(call.snapshot)
                  PROVE  ~RunsCaller(call.snapshot[Len(call.native) + 1])
                <5>1. Len(call.native) + 1 \in 1..Len(call.snapshot)
                    BY <4>1
                <5>2. Quiet(call.snapshot[Len(call.native) + 1])
                    BY <2>1, <5>1 DEF CallInv, QuietAll
                <5> QED BY <5>2 DEF RunsCaller, Quiet, Plain, Custom
            <4> QED BY <3>1, <3>2, <4>1 DEF CallerRuns
        <3> QED BY <3>1, <3>2 DEF CallerRuns
    <2>2. ASSUME NEW i \in DOMAIN trailers
          PROVE  Quiet(trailers[i])
        BY <2>2 DEF TrailersInv, QuietAll
    <2> QED BY <2>1, <2>2 DEF CallbackPlain, Quiet
<1>3. SubmitsGiven
    <2> SUFFICES ASSUME call.stage = "submit"
                 PROVE  /\ active
                        /\ Len(call.native) = Len(call.given)
                        /\ \A i \in DOMAIN call.native :
                              /\ call.native[i].bytes.text = call.given[i].bytes.text
                              /\ call.native[i].never = call.given[i].never
        BY DEF SubmitsGiven
    <2>1. active /\ Len(call.native) = Len(call.given)
        BY DEF CallInv, RecordsAll
    <2>2. ASSUME NEW i \in DOMAIN call.native
          PROVE  /\ call.native[i].bytes.text = call.given[i].bytes.text
                 /\ call.native[i].never = call.given[i].never
        <3>1. i \in 1..Len(call.native) /\ i \in 1..Len(call.given)
            BY <2>1, <2>2
        <3>2. Borrows(call.snapshot[i], call.native[i])
            BY <3>1 DEF CallInv
        <3>3. Records(call.snapshot[i], call.given[i])
            BY <3>1 DEF CallInv, RecordsAll
        <3> QED BY <3>2, <3>3 DEF Borrows, Records
    <2> QED BY <2>1, <2>2
<1> QED BY <1>1, <1>2, <1>3 DEF BorrowSafe

\* What a plain entry holds stays as long as the pairs do.
LEMMA Stable ==
    ASSUME SnapshotTypes, kind' = kind,
           \A p \in PairObjects : kind[p] \in Plain => stored'[p] = stored[p],
           NEW e \in EntryType, Sound(e)
    PROVE  /\ Sound(e)'
           /\ e.kind \in Plain => HeldBytes(e)' = HeldBytes(e)
<1>1. Sound(e)'
    BY DEF Sound
<1>2. ASSUME e.kind \in Plain PROVE HeldBytes(e)' = HeldBytes(e)
    <2>1. CASE e.pair = 0
        BY <2>1 DEF HeldBytes, IsFrozen
    <2>2. CASE e.pair # 0
        <3>1. e.pair \in PairObjects /\ kind[e.pair] \in Plain
            BY <1>2, <2>2 DEF EntryType, Sound
        <3> QED BY <2>2, <3>1 DEF HeldBytes, IsFrozen
    <2> QED BY <2>1, <2>2
<1> QED BY <1>1, <1>2

\* An unchanged list of entries keeps what the invariant says of it.
LEMMA StableAll ==
    ASSUME SnapshotTypes, kind' = kind,
           \A p \in PairObjects : kind[p] \in Plain => stored'[p] = stored[p],
           NEW entries \in Seq(EntryType), SoundAll(entries),
           NEW fields \in Seq(FieldType)
    PROVE  /\ SoundAll(entries)'
           /\ QuietAll(entries) => QuietAll(entries)'
           /\ RecordsAll(entries, fields) => RecordsAll(entries, fields)'
           /\ \A i \in 1..Len(entries), f \in FieldType :
                 Borrows(entries[i], f) => Borrows(entries[i], f)'
<1>1. ASSUME NEW i \in 1..Len(entries)
      PROVE  /\ Sound(entries[i])'
             /\ entries[i].kind \in Plain => HeldBytes(entries[i])' = HeldBytes(entries[i])
    <2>1. entries[i] \in EntryType /\ Sound(entries[i])
        BY <1>1 DEF SoundAll
    <2> QED BY <2>1, Stable
<1>2. SoundAll(entries)'
    BY <1>1 DEF SoundAll
<1>3. QuietAll(entries) => QuietAll(entries)'
    BY <1>1 DEF QuietAll, Quiet
<1>4. RecordsAll(entries, fields) => RecordsAll(entries, fields)'
    <2> SUFFICES ASSUME RecordsAll(entries, fields), NEW i \in 1..Len(fields)
                 PROVE  Records(entries[i], fields[i])'
        BY DEF RecordsAll
    <2>1. i \in 1..Len(entries) /\ Records(entries[i], fields[i])
        BY DEF RecordsAll
    <2> QED BY <1>1, <2>1 DEF Records
<1>5. ASSUME NEW i \in 1..Len(entries), NEW f \in FieldType, Borrows(entries[i], f)
      PROVE  Borrows(entries[i], f)'
    BY <1>1, <1>5 DEF Borrows
<1> QED BY <1>2, <1>3, <1>4, <1>5

\* So a step that changes neither the lists nor the plain pairs keeps all of it.
LEMMA TrailersStable ==
    ASSUME SnapshotTypes, TrailersInv, kind' = kind, UNCHANGED <<trailers, promised>>,
           \A p \in PairObjects : kind[p] \in Plain => stored'[p] = stored[p]
    PROVE  TrailersInv'
<1>1. trailers \in Seq(EntryType) /\ promised \in Seq(FieldType)
    BY DEF SnapshotTypes
<1>2. /\ SoundAll(trailers) /\ QuietAll(trailers) /\ RecordsAll(trailers, promised)
      /\ Len(promised) = Len(trailers)
    BY DEF TrailersInv
<1>3. \A entries \in Seq(EntryType), fields \in Seq(FieldType) :
        SoundAll(entries) =>
           /\ SoundAll(entries)'
           /\ QuietAll(entries) => QuietAll(entries)'
           /\ RecordsAll(entries, fields) => RecordsAll(entries, fields)'
    BY StableAll
<1>4. SoundAll(trailers)'
    BY <1>1, <1>2, <1>3 DEF SoundAll, Sound
<1>5. QuietAll(trailers)'
    BY <1>1, <1>2, <1>3 DEF QuietAll, Quiet, HeldBytes
<1>6. RecordsAll(trailers, promised)'
    BY <1>1, <1>2, <1>3 DEF RecordsAll, Records, HeldBytes
<1> QED BY <1>2, <1>4, <1>5, <1>6 DEF TrailersInv

LEMMA CallStable ==
    ASSUME SnapshotTypes, CallInv, kind' = kind, call' = call,
           active' = active \/ call.stage # "submit",
           \A p \in PairObjects : kind[p] \in Plain => stored'[p] = stored[p]
    PROVE  CallInv'
<1> DEFINE entries == call.snapshot
           fields == call.given
<1>1. /\ entries \in Seq(EntryType) /\ fields \in Seq(FieldType)
      /\ call.native \in Seq(FieldType)
    BY DEF SnapshotTypes, CallType
<1>2. /\ SoundAll(entries) /\ RecordsAll(entries, fields)
      /\ Len(call.native) <= Len(fields) /\ Len(fields) <= Len(entries)
    BY DEF CallInv, RecordsAll
<1> HIDE DEF entries, fields
<1>3. \A E \in Seq(EntryType), F \in Seq(FieldType) :
        SoundAll(E) =>
           /\ SoundAll(E)'
           /\ QuietAll(E) => QuietAll(E)'
           /\ RecordsAll(E, F) => RecordsAll(E, F)'
           /\ \A i \in 1..Len(E), f \in FieldType : Borrows(E[i], f) => Borrows(E[i], f)'
    BY StableAll
<1>4. entries' = entries /\ fields' = fields
    BY DEF entries, fields
<1>5. SoundAll(call.snapshot)' /\ RecordsAll(call.snapshot, call.given)'
    <2>1. SoundAll(call.snapshot)'
        BY <1>1, <1>2, <1>3, <1>4 DEF entries, SoundAll, Sound
    <2>2. RecordsAll(call.snapshot, call.given)'
        <3>1. ASSUME NEW i \in 1..Len(fields)
              PROVE  Records(entries[i], fields[i])'
            <4>1. entries[i] \in EntryType /\ Sound(entries[i])
                BY <1>1, <1>2 DEF SoundAll
            <4>2. PICK e \in EntryType : e = entries[i]
                BY <4>1
            <4>3. e.kind \in Plain => HeldBytes(e)' = HeldBytes(e)
                BY <4>1, <4>2, Stable
            <4>4. Records(e, fields[i])
                BY <1>2, <4>2 DEF RecordsAll
            <4>5. Records(e, fields[i])'
                BY <1>4, <4>3, <4>4 DEF Records
            <4> QED BY <1>4, <4>2, <4>5 DEF Records, HeldBytes, IsFrozen
        <3> QED BY <1>2, <1>4, <3>1 DEF entries, fields, RecordsAll
    <2> QED BY <2>1, <2>2
<1>6. QuietAll(call.snapshot) => QuietAll(call.snapshot)'
    BY <1>1, <1>2, <1>3, <1>4 DEF entries, QuietAll, Quiet, HeldBytes
<1>7. (\A i \in 1..Len(call.native) : Borrows(call.snapshot[i], call.native[i]))'
    <2> SUFFICES ASSUME NEW i \in 1..Len(call.native)
                 PROVE  Borrows(call.snapshot[i], call.native[i])'
        OBVIOUS
    <2>1. i \in 1..Len(entries) /\ call.native[i] \in FieldType
        BY <1>1, <1>2
    <2>2. Borrows(entries[i], call.native[i])
        BY DEF CallInv, entries
    <2> QED BY <1>1, <1>2, <1>3, <1>4, <2>1, <2>2 DEF entries, Borrows, HeldBytes
<1>8. QED
    BY <1>5, <1>6, <1>7 DEF CallInv

\* Nothing is asked of no call.
LEMMA IdleInv == ASSUME call' = Idle PROVE CallInv' /\ call' \in CallType
<1>1. <<>> \in Seq(PairObjects) /\ <<>> \in Seq(EntryType) /\ <<>> \in Seq(FieldType)
    OBVIOUS
<1>2. call' = [stage |-> "idle", callback |-> FALSE, deferred |-> FALSE,
               producer |-> FALSE, left |-> <<>>, snapshot |-> <<>>,
               given |-> <<>>, native |-> <<>>, released |-> FALSE]
    BY DEF Idle, NewCall
<1>3. call' \in CallType
    BY <1>1, <1>2 DEF CallType, Stages
<1>4. /\ Len(call'.snapshot) = 0 /\ Len(call'.given) = 0 /\ Len(call'.native) = 0
      /\ call'.native = <<>> /\ call'.stage = "idle" /\ ~call'.callback
    BY <1>2
<1> QED BY <1>3, <1>4 DEF CallInv, SoundAll, RecordsAll

LEMMA InitInv == ASSUME SnapshotAssumption, SnapshotInit PROVE SnapshotInv
<1> USE DEF SnapshotInit
<1>1. <<>> \in Seq(EntryType) /\ <<>> \in Seq(FieldType) /\ <<>> \in Seq(PairObjects)
    OBVIOUS
<1>2. stored \in [PairObjects -> BytesType]
    BY SnapshotAssumption DEF PairObjects, BytesType
<1>3. call = [stage |-> "idle", callback |-> FALSE, deferred |-> FALSE,
              producer |-> FALSE, left |-> <<>>, snapshot |-> <<>>,
              given |-> <<>>, native |-> <<>>, released |-> FALSE]
    BY DEF Idle, NewCall
<1>4. call \in CallType
    BY <1>1, <1>3 DEF CallType, Stages
<1>5. SnapshotTypes
    BY <1>1, <1>2, <1>4, SnapshotAssumption DEF SnapshotTypes
<1>6. Len(trailers) = 0 /\ Len(promised) = 0
    OBVIOUS
<1>7. TrailersInv
    BY <1>6 DEF TrailersInv, SoundAll, QuietAll, RecordsAll
<1>8. /\ Len(call.snapshot) = 0 /\ Len(call.given) = 0 /\ Len(call.native) = 0
      /\ call.native = <<>> /\ call.stage = "idle" /\ ~call.callback
    BY <1>3
<1>9. CallInv
    BY <1>8 DEF CallInv, SoundAll, RecordsAll
<1> QED BY <1>5, <1>7, <1>9 DEF SnapshotInv

-----------------------------------------------------------------------------
\* What unpacking yields is a bytes object.
LEMMA UnpackedType ==
    ASSUME SnapshotTypes, NEW e \in EntryType, NEW b \in Unpacked(e)
    PROVE  b \in BytesType
<1>1. CASE RunsCaller(e)
    <2>1. b \in [text : {texts + 1}, exact : BOOLEAN]
        BY <1>1 DEF Unpacked, NewBytes
    <2> QED BY <2>1 DEF SnapshotTypes, BytesType
<1>2. CASE ~RunsCaller(e)
    <2>1. b \in HeldBytes(e)
        BY <1>2 DEF Unpacked
    <2>2. CASE e.pair = 0
        BY <2>1, <2>2 DEF HeldBytes, IsFrozen, EntryType
    <2>3. CASE e.pair # 0
        <3>1. e.pair \in PairObjects /\ b = stored[e.pair]
            BY <2>1, <2>3 DEF HeldBytes, IsFrozen, EntryType
        <3> QED BY <3>1 DEF SnapshotTypes
    <2> QED BY <2>2, <2>3
<1> QED BY <1>1, <1>2

\* A plain entry of the snapshot's own holds the bytes it was made of.
LEMMA FrozenPlain ==
    ASSUME NEW k \in Kinds, NEW b \in BytesType
    PROVE  /\ Frozen(k, b) \in EntryType
           /\ Sound(Frozen(k, b))
           /\ Frozen(k, b).kind \in Plain
           /\ Never(Frozen(k, b).kind) = Never(k)
           /\ HeldBytes(Frozen(k, b)) = {b}
<1>1. /\ Frozen(k, b).pair = 0 /\ Frozen(k, b).bytes = b
      /\ Frozen(k, b).kind = IF Never(k) THEN "never" ELSE "tuple"
    BY DEF Frozen
<1>2. Frozen(k, b) \in EntryType
    BY DEF Frozen, EntryType, Kinds, Plain
<1>3. Never(Frozen(k, b).kind) = Never(k)
    BY <1>1 DEF Never
<1> QED BY <1>1, <1>2, <1>3 DEF Sound, HeldBytes, IsFrozen, Plain

\* An entry of the native array borrows from the entry kept for it.
LEMMA KeptPlain ==
    ASSUME SnapshotTypes, NEW e \in EntryType, Sound(e), e.kind # "notAPair",
           NEW b \in Unpacked(e)
    PROVE  /\ Kept(e, b) \in EntryType /\ Sound(Kept(e, b))
           /\ Native(e.kind, b) \in FieldType
           /\ Borrows(Kept(e, b), Native(e.kind, b))
           /\ Records(Kept(e, b), Native(e.kind, b))
           /\ e.kind \in Plain => Kept(e, b) = e /\ ~RunsCaller(e)
<1>1. b \in BytesType
    BY UnpackedType
<1>2. /\ Native(e.kind, b) \in FieldType
      /\ Native(e.kind, b).bytes = b /\ Native(e.kind, b).never = Never(e.kind)
    BY <1>1 DEF Native, FieldType, Never
<1>3. CASE e.kind \in Plain
    <2>1. ~RunsCaller(e)
        BY <1>3 DEF RunsCaller, Plain, Custom
    <2>2. b \in HeldBytes(e)
        BY <2>1 DEF Unpacked
    <2>3. HeldBytes(e) = {b}
        BY <1>3, <2>2, PlainHolds
    <2> QED BY <1>2, <1>3, <2>1, <2>3 DEF Kept, Borrows, Records
<1>4. CASE e.kind \notin Plain
    <2>1. e.kind \in Kinds /\ Kept(e, b) = Frozen(e.kind, b)
        BY <1>4 DEF Kept, EntryType
    <2> QED BY <1>1, <1>2, <1>4, <2>1, FrozenPlain DEF Borrows, Records
<1> QED BY <1>3, <1>4

\* _normalize_headers keeps plain entries only, for trailers with exact bytes.
LEMMA EntryPlain ==
    ASSUME SnapshotTypes, NEW p \in PairObjects, NEW b \in Unpacked(Reference(p))
    PROVE  /\ Entry(p, b) \in EntryType /\ Sound(Entry(p, b))
           /\ Native(kind[p], b) \in FieldType
           /\ Records(Entry(p, b), Native(kind[p], b))
           /\ call.deferred => Quiet(Entry(p, b))
<1> DEFINE r == Reference(p)
<1>1. /\ r \in EntryType /\ r.pair = p /\ r.kind = kind[p] /\ p # 0 /\ Sound(r)
    BY DEF Reference, EntryType, SnapshotTypes, PairObjects, NoBytes, BytesType, Sound
<1>2. b \in BytesType
    BY <1>1, UnpackedType
<1>3. /\ OwnBytes(b) \in BytesType /\ OwnBytes(b).text = b.text
      /\ call.deferred => OwnBytes(b).exact
    BY <1>2 DEF OwnBytes, BytesType
<1>4. /\ Native(kind[p], b) \in FieldType
      /\ Native(kind[p], b).bytes = b /\ Native(kind[p], b).never = Never(kind[p])
    BY <1>2 DEF Native, FieldType, Never
<1>5. CASE kind[p] \in Plain /\ OwnBytes(b) = b
    <2>1. Entry(p, b) = r
        BY <1>5 DEF Entry
    <2>2. b \in HeldBytes(r)
        BY <1>1, <1>5 DEF Unpacked, RunsCaller, Plain, Custom
    <2>3. HeldBytes(r) = {b}
        BY <1>1, <1>5, <2>2, PlainHolds
    <2> QED BY <1>1, <1>3, <1>4, <1>5, <2>1, <2>3 DEF Records, Quiet
<1>6. CASE ~(kind[p] \in Plain /\ OwnBytes(b) = b)
    <2>1. kind[p] \in Kinds /\ Entry(p, b) = Frozen(kind[p], OwnBytes(b))
        BY <1>6 DEF Entry, SnapshotTypes
    <2> QED BY <1>3, <1>4, <2>1, FrozenPlain DEF Records, Quiet
<1> QED BY <1>5, <1>6

-----------------------------------------------------------------------------
\* The steps of the caller.
LEMMA MutateStep ==
    ASSUME SnapshotInv, NEW p \in PairObjects, Mutate(p) PROVE SnapshotInv'
<1> USE DEF SnapshotInv, Mutate, source
<1>1. PICK b \in NewBytes : stored' = [stored EXCEPT ![p] = b]
    OBVIOUS
<1>2. b \in BytesType
    BY DEF NewBytes, BytesType, SnapshotTypes
<1>3. SnapshotTypes'
    BY <1>1, <1>2 DEF SnapshotTypes
<1>4. \A q \in PairObjects : kind[q] \in Plain => stored'[q] = stored[q]
    BY <1>1 DEF Plain, SnapshotTypes
<1> QED BY <1>3, <1>4, TrailersStable, CallStable

LEMMA EndBodyStep == ASSUME SnapshotInv, EndBody PROVE SnapshotInv'
<1> USE DEF SnapshotInv, EndBody, caller
<1>1. SnapshotTypes'
    BY DEF SnapshotTypes
<1> QED BY <1>1, TrailersStable, CallStable

LEMMA CloseConnectionStep == ASSUME SnapshotInv, CloseConnection PROVE SnapshotInv'
<1> USE DEF SnapshotInv, CloseConnection, caller, source
<1>1. SnapshotTypes'
    BY DEF SnapshotTypes
<1>2. call.stage # "submit"
    BY DEF CallerRuns
<1> QED BY <1>1, <1>2, TrailersStable, CallStable

\* A call or callback that ends and leaves the body as it is.
LEMMA EndsStep ==
    ASSUME SnapshotInv, call' = Idle, kind' = kind, stored' = stored,
           texts' \in Nat, active' \in BOOLEAN, UNCHANGED source
    PROVE  SnapshotInv'
<1> USE DEF SnapshotInv, source
<1>1. call' \in CallType /\ CallInv'
    BY IdleInv
<1>2. SnapshotTypes'
    BY <1>1 DEF SnapshotTypes
<1> QED BY <1>1, <1>2, TrailersStable

LEMMA NormalizeRaisesStep == ASSUME SnapshotInv, NormalizeRaises PROVE SnapshotInv'
    BY EndsStep DEF NormalizeRaises, caller, SnapshotInv, SnapshotTypes

LEMMA FailStep == ASSUME SnapshotInv, FailCall PROVE SnapshotInv'
<1>1. active' \in BOOLEAN
    BY DEF FailCall, SnapshotInv, SnapshotTypes
<1> QED BY <1>1, EndsStep DEF FailCall, caller, SnapshotInv, SnapshotTypes

LEMMA QueueTrailersStep == ASSUME SnapshotInv, QueueTrailers PROVE SnapshotInv'
<1> USE DEF SnapshotInv, QueueTrailers, caller
<1>1. CASE UNCHANGED source
    <2>1. active' \in BOOLEAN /\ texts' \in Nat
        BY DEF SnapshotTypes
    <2> QED BY <1>1, <2>1, EndsStep
<1>2. CASE body' = "trailers" /\ trailers' = call.snapshot /\ promised' = call.given
    <2>1. call' \in CallType /\ CallInv'
        BY IdleInv
    <2>2. call.snapshot \in Seq(EntryType) /\ call.given \in Seq(FieldType)
        BY DEF SnapshotTypes, CallType
    <2>3. SnapshotTypes'
        BY <1>2, <2>1, <2>2 DEF SnapshotTypes
    <2>4. /\ SoundAll(call.snapshot) /\ RecordsAll(call.snapshot, call.given)
          /\ QuietAll(call.snapshot) /\ Len(call.given) = Len(call.snapshot)
        BY DEF CallInv
    <2>5. TrailersInv'
        BY <1>2, <2>4 DEF TrailersInv, SoundAll, Sound, RecordsAll, Records, QuietAll, Quiet,
                          HeldBytes, IsFrozen
    <2> QED BY <2>1, <2>3, <2>5
<1> QED BY <1>1, <1>2

\* A call that goes on, the pairs and the body as they are.
LEMMA GoesOn ==
    ASSUME SnapshotInv, call' \in CallType, CallInv', kind' = kind, stored' = stored,
           texts' \in Nat, active' = active, UNCHANGED source
    PROVE  SnapshotInv'
<1> USE DEF SnapshotInv, source
<1>1. SnapshotTypes'
    BY DEF SnapshotTypes
<1> QED BY <1>1, TrailersStable

LEMMA BeginStep ==
    ASSUME SnapshotInv, NEW items \in SeqOf(PairObjects, MaxFields),
           NEW producer \in BOOLEAN, NEW deferred \in BOOLEAN,
           SnapshotAssumption, Begin(items, producer, deferred)
    PROVE  SnapshotInv'
<1> DEFINE fast == FastPath(producer, deferred)
           references == [i \in DOMAIN items |-> Reference(items[i])]
<1>1. items \in Seq(PairObjects)
    BY SnapshotAssumption DEF SeqOf, SnapshotAssumption
<1>2. \A i \in 1..Len(items) :
         Reference(items[i]) \in EntryType /\ Sound(Reference(items[i]))
    BY <1>1 DEF Reference, EntryType, SnapshotInv, SnapshotTypes, PairObjects, NoBytes, BytesType,
                Sound
<1>3. references \in Seq(EntryType) /\ Len(references) = Len(items) /\ SoundAll(references)
    BY <1>1, <1>2 DEF SoundAll
<1>4. <<>> \in Seq(PairObjects) /\ <<>> \in Seq(EntryType) /\ <<>> \in Seq(FieldType)
      /\ SoundAll(<<>>)
    BY DEF SoundAll
<1> DEFINE S == IF fast THEN references ELSE <<>>
           L == IF fast THEN <<>> ELSE items
<1>5. S \in Seq(EntryType) /\ SoundAll(S) /\ L \in Seq(PairObjects)
    BY <1>1, <1>3, <1>4
<1>6. fast => ~deferred
    BY DEF FastPath
<1>7. call' = [stage |-> "normalize", callback |-> FALSE,
               deferred |-> deferred, producer |-> producer, left |-> L,
               snapshot |-> S, given |-> <<>>, native |-> <<>>, released |-> FALSE]
    BY DEF Begin, NewCall
<1>8. IF fast THEN L = <<>> ELSE S = <<>> /\ Len(S) = 0
    OBVIOUS
<1> HIDE DEF fast, references, S, L
<1>9. call' \in CallType
    BY <1>4, <1>5, <1>7 DEF CallType, Stages
<1>10. kind' = kind /\ stored' = stored /\ texts' = texts /\ active' = active
       /\ UNCHANGED source
    BY DEF Begin, caller
<1>11. CallInv'
    <2>1. SoundAll(call.snapshot)'
        BY <1>5, <1>7, <1>10 DEF SoundAll, Sound
    <2>2. RecordsAll(call.snapshot, call.given)'
        BY <1>5, <1>7 DEF RecordsAll
    <2>3. /\ deferred => QuietAll(call.snapshot)'
          /\ deferred \/ call'.left # <<>> => Len(call.given)' = Len(call.snapshot)'
        BY <1>6, <1>7, <1>8 DEF QuietAll
    <2>4. /\ call'.stage = "normalize" /\ ~call'.callback
          /\ call'.native = <<>> /\ call'.given = <<>> /\ call'.deferred = deferred
        BY <1>7
    <2> QED BY <2>1, <2>2, <2>3, <2>4 DEF CallInv
<1>12. texts' \in Nat
    BY <1>10 DEF SnapshotInv, SnapshotTypes
<1> QED BY <1>9, <1>10, <1>11, <1>12, GoesOn

LEMMA NormalizeStep == ASSUME SnapshotInv, Normalize PROVE SnapshotInv'
<1> USE DEF SnapshotInv
<1> DEFINE p == Head(call.left)
           S == call.snapshot
           G == call.given
<1>1. p \in PairObjects /\ Tail(call.left) \in Seq(PairObjects)
    BY DEF Normalize, SnapshotTypes, CallType
<1>2. PICK b \in Unpacked(Reference(p)) :
         call' = [call EXCEPT !.left = Tail(@), !.snapshot = Append(@, Entry(p, b)),
                              !.given = Append(@, Native(kind[p], b))]
    BY DEF Normalize
<1> DEFINE e == Entry(p, b)
           f == Native(kind[p], b)
<1>3. /\ e \in EntryType /\ Sound(e) /\ f \in FieldType /\ Records(e, f)
      /\ call.deferred => Quiet(e)
    BY <1>1, EntryPlain
<1>4. /\ kind' = kind /\ stored' = stored /\ active' = active
      /\ UNCHANGED source /\ texts' \in Nat
    BY DEF Normalize, TextsAfter, SnapshotTypes
<1>5. S \in Seq(EntryType) /\ G \in Seq(FieldType)
    BY DEF SnapshotTypes, CallType
<1>6. /\ call' \in CallType
      /\ call'.snapshot = Append(S, e) /\ call'.given = Append(G, f)
      /\ call'.stage = "normalize"
      /\ call'.callback = call.callback /\ call'.native = call.native
      /\ call'.deferred = call.deferred
    <2>1. Append(S, e) \in Seq(EntryType) /\ Append(G, f) \in Seq(FieldType)
        BY <1>3, <1>5
    <2> HIDE DEF e, f
    <2>2. call \in CallType /\ call.stage = "normalize"
        BY DEF SnapshotTypes, Normalize
    <2>3. call' = [call EXCEPT !.left = Tail(call.left), !.snapshot = Append(S, e),
                               !.given = Append(G, f)]
        BY <1>2 DEF e, f
    <2> QED BY <1>1, <2>1, <2>2, <2>3 DEF CallType
<1>7. /\ SoundAll(S) /\ RecordsAll(S, G) /\ ~call.callback
      /\ call.native = <<>> /\ Len(G) = Len(S)
      /\ call.deferred => QuietAll(S)
    BY DEF CallInv, Normalize
<1> HIDE DEF S, G, e, f
<1>8. \A c \in EntryType : /\ Sound(c)' = Sound(c)
                           /\ HeldBytes(c)' = HeldBytes(c)
    BY <1>4 DEF Sound, HeldBytes, IsFrozen
<1>9. /\ Len(Append(S, e)) = Len(S) + 1 /\ Len(Append(G, f)) = Len(S) + 1
      /\ Append(S, e)[Len(S) + 1] = e /\ Append(G, f)[Len(S) + 1] = f
      /\ \A i \in 1..Len(S) : Append(S, e)[i] = S[i] /\ Append(G, f)[i] = G[i]
    BY <1>3, <1>5, <1>7
<1>10. SoundAll(Append(S, e))
    BY <1>3, <1>5, <1>7, <1>9 DEF SoundAll
<1>11. RecordsAll(Append(S, e), Append(G, f))
    <2> SUFFICES ASSUME NEW i \in 1..(Len(S) + 1)
                 PROVE  Records(Append(S, e)[i], Append(G, f)[i])
        BY <1>5, <1>9 DEF RecordsAll
    <2>1. CASE i \in 1..Len(S)
        <3>1. Records(S[i], G[i])
            BY <1>7, <2>1 DEF RecordsAll
        <3> QED BY <1>9, <2>1, <3>1
    <2>2. CASE i = Len(S) + 1
        BY <1>3, <1>9, <2>2
    <2>3. Len(S) \in Nat
        BY <1>5
    <2>4. i \in 1..Len(S) \/ i = Len(S) + 1
        BY <2>3
    <2> QED BY <2>1, <2>2, <2>4
<1>12. call.deferred => QuietAll(Append(S, e))
    BY <1>3, <1>5, <1>7, <1>9 DEF QuietAll
<1>13. CallInv'
    <2>1. SoundAll(call.snapshot)'
        BY <1>4, <1>6, <1>10 DEF SoundAll, Sound
    <2>2. RecordsAll(call.snapshot, call.given)'
        BY <1>4, <1>6, <1>11 DEF RecordsAll, Records, HeldBytes, IsFrozen
    <2>3. call.deferred => QuietAll(call.snapshot)'
        BY <1>4, <1>6, <1>12 DEF QuietAll, Quiet, HeldBytes, IsFrozen
    <2> QED BY <1>6, <1>7, <1>9, <2>1, <2>2, <2>3 DEF CallInv
<1> QED BY <1>4, <1>6, <1>13, GoesOn

\* Steps that only move the call to its next stage.
LEMMA StageStep ==
    ASSUME SnapshotInv, NEW stage \in Stages,
           call' = [call EXCEPT !.stage = stage],
           UNCHANGED <<caller, active, source>>,
           call.callback => stage \in {"allocate", "build", "submit"},
           stage # "normalize", stage # "build" => call.native = <<>> \/ stage = "submit",
           stage = "submit" => active /\ Len(call.native) = Len(call.snapshot)
    PROVE  SnapshotInv'
<1> USE DEF SnapshotInv, caller, source
<1>1. /\ call' \in CallType
      /\ call'.stage = stage
      /\ call'.callback = call.callback /\ call'.released = call.released
      /\ call'.snapshot = call.snapshot /\ call'.given = call.given
      /\ call'.native = call.native
    BY DEF SnapshotTypes, CallType
<1>2. CallInv'
    <2>1. SoundAll(call.snapshot)' /\ RecordsAll(call.snapshot, call.given)'
        BY <1>1 DEF CallInv, SoundAll, Sound, RecordsAll, Records, HeldBytes, IsFrozen
    <2>2. call.callback => QuietAll(call.snapshot)'
        BY <1>1 DEF CallInv, QuietAll, Quiet, HeldBytes, IsFrozen
    <2>3. ASSUME NEW i \in 1..Len(call.native)
          PROVE  Borrows(call.snapshot[i], call.native[i])'
        <3>1. Borrows(call.snapshot[i], call.native[i])
            BY DEF CallInv
        <3> QED BY <1>1, <3>1 DEF Borrows, HeldBytes, IsFrozen
    <2> QED BY <1>1, <2>1, <2>2, <2>3 DEF CallInv
<1> QED BY <1>1, <1>2, GoesOn DEF SnapshotTypes

LEMMA NormalizedStep == ASSUME SnapshotInv, Normalized PROVE SnapshotInv'
<1>1. call \in CallType /\ call.stage = "normalize"
    BY DEF SnapshotInv, SnapshotTypes, Normalized
<1>2. ~call.callback /\ call.native = <<>>
    BY <1>1 DEF SnapshotInv, CallInv
<1>3. call' = [call EXCEPT !.stage = "allocate"]
    BY <1>1, <1>2 DEF Normalized, CallType
<1> QED BY <1>2, <1>3, StageStep DEF Normalized, Stages

LEMMA AllocateStep == ASSUME SnapshotInv, Allocate PROVE SnapshotInv'
<1>1. CASE FailCall
    BY <1>1, FailStep
<1>2. CASE call' = [call EXCEPT !.stage = "build"]
           /\ UNCHANGED <<caller, active, source>>
    BY <1>2, StageStep DEF Stages
<1> QED BY <1>1, <1>2 DEF Allocate

LEMMA CheckStep == ASSUME SnapshotInv, Check PROVE SnapshotInv'
<1> USE DEF Check
<1>1. call \in CallType /\ active \in BOOLEAN /\ call.stage = "build"
    BY DEF SnapshotInv, SnapshotTypes, CallInv
<1>2. CASE active
    <2>1. call' = [call EXCEPT !.stage = "submit"]
        BY <1>1, <1>2 DEF CallType
    <2> QED BY <1>2, <2>1, StageStep DEF Stages
<1>3. CASE ~active
    <2>1. call' = Idle
        BY <1>1, <1>3
    <2> QED BY <2>1, EndsStep DEF caller, SnapshotInv, SnapshotTypes
<1> QED BY <1>2, <1>3

LEMMA ReadTrailersStep == ASSUME SnapshotInv, ReadTrailers PROVE SnapshotInv'
<1> USE DEF SnapshotInv
<1>1. /\ kind' = kind /\ stored' = stored /\ texts' = texts /\ active' = active
      /\ UNCHANGED source
    BY DEF ReadTrailers, caller
<1>2. call' = [stage |-> "allocate", callback |-> TRUE, deferred |-> FALSE,
               producer |-> FALSE, left |-> <<>>, snapshot |-> trailers,
               given |-> promised, native |-> <<>>, released |-> FALSE]
    BY DEF ReadTrailers, NewCall
<1>3. call' \in CallType
    BY <1>2 DEF SnapshotTypes, CallType, Stages
<1>4. CallInv'
    <2>1. SoundAll(call.snapshot)' /\ RecordsAll(call.snapshot, call.given)'
        BY <1>1, <1>2 DEF TrailersInv, SoundAll, Sound, RecordsAll, Records, HeldBytes,
                          IsFrozen
    <2>2. QuietAll(call.snapshot)'
        BY <1>1, <1>2 DEF TrailersInv, QuietAll, Quiet, HeldBytes, IsFrozen
    <2>3. /\ call'.stage = "allocate" /\ call'.native = <<>>
          /\ ~call'.released /\ call'.callback /\ Len(call'.native) = 0
          /\ call'.given = promised /\ promised \in Seq(FieldType)
        BY <1>2 DEF SnapshotTypes
    <2> QED BY <2>1, <2>2, <2>3 DEF CallInv
<1> QED BY <1>1, <1>3, <1>4, GoesOn DEF SnapshotTypes

LEMMA SubmitStep == ASSUME SnapshotInv, Submit PROVE SnapshotInv'
<1> USE DEF SnapshotInv
<1>1. CASE FailCall
    BY <1>1, FailStep
<1>2. CASE ~FailCall
    <2>1. /\ call' = Idle /\ kind' = kind /\ stored' = stored /\ texts' = texts
          /\ active' = active
          /\ body' = IF call.callback THEN "ended" ELSE body
          /\ trailers' = IF call.callback THEN <<>> ELSE trailers
          /\ promised' = IF call.callback THEN <<>> ELSE promised
        BY <1>2 DEF Submit, caller
    <2>2. CASE ~call.callback
        <3>1. UNCHANGED source
            BY <2>1, <2>2 DEF source
        <3> QED BY <2>1, <3>1, EndsStep DEF SnapshotTypes
    <2>3. CASE call.callback
        <3>1. call' \in CallType /\ CallInv'
            BY <2>1, IdleInv
        <3>2. trailers' = <<>> /\ promised' = <<>> /\ body' = "ended"
            BY <2>1, <2>3
        <3>3. SnapshotTypes'
            BY <2>1, <3>1, <3>2 DEF SnapshotTypes
        <3>4. TrailersInv'
            BY <3>2 DEF TrailersInv, SoundAll, QuietAll, RecordsAll
        <3> QED BY <3>1, <3>3, <3>4
    <2> QED BY <2>2, <2>3 DEF SnapshotTypes, CallType
<1> QED BY <1>1, <1>2

LEMMA BuildStep == ASSUME SnapshotInv, Build PROVE SnapshotInv'
<1> USE DEF SnapshotInv
<1> DEFINE i == Len(call.native) + 1
           e == call.snapshot[i]
           S == call.snapshot
           G == call.given
           N == call.native
<1>1. /\ call \in CallType /\ call.stage = "build" /\ Len(N) < Len(S)
      /\ e.kind # "notAPair"
      /\ S \in Seq(EntryType) /\ G \in Seq(FieldType) /\ N \in Seq(FieldType)
    BY DEF Build, SnapshotTypes, CallType
<1>2. i \in 1..Len(S) /\ e \in EntryType /\ Len(N) \in Nat /\ Len(G) \in Nat
    BY <1>1
<1>3. /\ SoundAll(S) /\ RecordsAll(S, G) /\ Len(N) <= Len(G) /\ Len(G) <= Len(S)
      /\ \A j \in 1..Len(N) : Borrows(S[j], N[j])
    BY DEF CallInv, RecordsAll
<1>4. Sound(e)
    BY <1>2, <1>3 DEF SoundAll
<1>5. PICK b \in Unpacked(e) :
         call' = [call EXCEPT !.snapshot[i] = Kept(e, b),
                              !.native = Append(@, Native(e.kind, b)),
                              !.given = IF i > Len(@) THEN Append(@, Native(e.kind, b)) ELSE @,
                              !.released = RunsCaller(e)]
    BY DEF Build
<1> DEFINE k == Kept(e, b)
           f == Native(e.kind, b)
           T == [S EXCEPT ![i] = k]
           H == IF i > Len(G) THEN Append(G, f) ELSE G
<1>6. /\ k \in EntryType /\ Sound(k) /\ f \in FieldType /\ Borrows(k, f) /\ Records(k, f)
      /\ e.kind \in Plain => k = e /\ ~RunsCaller(e)
    BY <1>1, <1>2, <1>4, KeptPlain
<1>7. /\ kind' = kind /\ stored' = stored /\ active' = active
      /\ UNCHANGED source /\ texts' \in Nat
    BY DEF Build, TextsAfter, SnapshotTypes
<1>8. /\ T \in Seq(EntryType) /\ Len(T) = Len(S) /\ T[i] = k
      /\ \A j \in 1..Len(S) : j # i => T[j] = S[j]
    BY <1>1, <1>2, <1>6
<1>9. /\ Append(N, f) \in Seq(FieldType) /\ Len(Append(N, f)) = i /\ Append(N, f)[i] = f
      /\ \A j \in 1..Len(N) : Append(N, f)[j] = N[j]
    BY <1>1, <1>6
<1>10. /\ H \in Seq(FieldType) /\ i <= Len(H) /\ Len(H) <= Len(S)
       /\ \A j \in 1..Len(G) : H[j] = G[j]
       /\ \A j \in 1..Len(H) : j \in 1..Len(G) \/ (j = i /\ H[i] = f)
    <2>1. CASE i > Len(G)
        <3>1. Len(G) + 1 = i /\ H = Append(G, f)
            BY <1>1, <1>3, <2>1
        <3> HIDE DEF i, e, S, N, G, H, f
        <3>2. /\ H \in Seq(FieldType) /\ Len(H) = i /\ H[i] = f
              /\ \A j \in 1..Len(G) : H[j] = G[j]
            BY <1>1, <1>6, <3>1
        <3>3. i \in Nat /\ i <= Len(S) /\ Len(G) = i - 1
            BY <1>1, <1>2, <3>1
        <3> QED BY <3>2, <3>3
    <2>2. CASE ~(i > Len(G))
        <3>1. H = G
            BY <2>2
        <3>2. i <= Len(G) /\ Len(G) <= Len(S)
            BY <1>2, <1>3, <2>2
        <3> HIDE DEF i, e, S, N, G, H, f
        <3>3. H \in Seq(FieldType) /\ i <= Len(H) /\ Len(H) <= Len(S)
            BY <1>1, <3>1, <3>2
        <3>4. \A j \in 1..Len(G) : H[j] = G[j]
            BY <3>1
        <3>5. \A j \in 1..Len(H) : j \in 1..Len(G)
            BY <3>1
        <3> QED BY <3>3, <3>4, <3>5
    <2> QED BY <2>1, <2>2
<1>11. /\ call' \in CallType
       /\ call'.snapshot = T /\ call'.given = H /\ call'.native = Append(N, f)
       /\ call'.stage = "build"
       /\ call'.callback = call.callback /\ call'.released = RunsCaller(e)
    <2>1. call' = [call EXCEPT !.snapshot = T, !.native = Append(N, f), !.given = H,
                               !.released = RunsCaller(e)]
        BY <1>5
    <2>2. RunsCaller(e) \in BOOLEAN
        BY DEF RunsCaller, IsFrozen
    <2> HIDE DEF T, H, N, f, e
    <2> QED BY <1>1, <1>8, <1>9, <1>10, <2>1, <2>2 DEF CallType
<1> HIDE DEF T, H, S, G, f, k, e
<1>12. SoundAll(T)
    BY <1>2, <1>3, <1>6, <1>8 DEF SoundAll
<1>13. RecordsAll(T, H)
    <2> SUFFICES ASSUME NEW j \in 1..Len(H) PROVE Records(T[j], H[j])
        BY <1>8, <1>10 DEF RecordsAll
    <2>1. CASE j \in 1..Len(G)
        <3>1. Records(S[j], G[j]) /\ H[j] = G[j] /\ j \in 1..Len(S)
            BY <1>2, <1>3, <1>10, <2>1 DEF RecordsAll
        <3>2. CASE j = i
            <4>1. e.kind \in Plain
                BY <3>1, <3>2 DEF Records, e, S
            <4> QED BY <1>6, <1>8, <3>1, <3>2, <4>1 DEF e, S
        <3>3. CASE j # i
            BY <1>8, <3>1, <3>3
        <3> QED BY <3>2, <3>3
    <2>2. CASE j = i /\ H[i] = f
        BY <1>6, <1>8, <2>2
    <2> QED BY <1>10, <2>1, <2>2
<1>14. \A j \in 1..Len(Append(N, f)) : Borrows(T[j], Append(N, f)[j])
    <2> SUFFICES ASSUME NEW j \in 1..i PROVE Borrows(T[j], Append(N, f)[j])
        BY <1>9
    <2>1. CASE j = i
        BY <1>6, <1>8, <1>9, <2>1
    <2>2. CASE j # i
        <3>1. j \in 1..Len(N) /\ j \in 1..Len(S)
            BY <1>2, <2>2
        <3> QED BY <1>3, <1>8, <1>9, <2>2, <3>1
    <2> QED BY <2>1, <2>2
<1>15. call.callback => QuietAll(T) /\ ~RunsCaller(e)
    <2> SUFFICES ASSUME call.callback PROVE QuietAll(T) /\ ~RunsCaller(e)
        OBVIOUS
    <2>1. QuietAll(S)
        BY DEF CallInv, S
    <2>2. e.kind \in Plain
        BY <1>2, <2>1 DEF QuietAll, Quiet, e, S
    <2>3. k = S[i] /\ ~RunsCaller(e)
        BY <1>6, <2>2 DEF e, S
    <2> QED BY <1>8, <2>1, <2>3 DEF QuietAll
<1>16. CallInv'
    <2>1. SoundAll(call.snapshot)'
        BY <1>7, <1>11, <1>12 DEF SoundAll, Sound
    <2>2. RecordsAll(call.snapshot, call.given)'
        BY <1>7, <1>11, <1>13 DEF RecordsAll, Records, HeldBytes, IsFrozen
    <2>3. (\A j \in 1..Len(call.native) : Borrows(call.snapshot[j], call.native[j]))'
        BY <1>7, <1>11, <1>14 DEF Borrows, HeldBytes, IsFrozen
    <2>4. call.callback => QuietAll(call.snapshot)'
        BY <1>7, <1>11, <1>15 DEF QuietAll, Quiet, HeldBytes, IsFrozen
    <2> QED BY <1>9, <1>10, <1>11, <1>15, <2>1, <2>2, <2>3, <2>4 DEF CallInv
<1> QED BY <1>7, <1>11, <1>16, GoesOn

LEMMA NextStep ==
    ASSUME SnapshotAssumption, SnapshotInv, [SnapshotNext]_snapshotVars PROVE SnapshotInv'
<1>1. CASE SnapshotNext
    <2>1. ASSUME NEW p \in PairObjects, Mutate(p) PROVE SnapshotInv'
        BY <2>1, MutateStep
    <2>2. ASSUME NEW items \in SeqOf(PairObjects, MaxFields),
                 NEW producer \in BOOLEAN, NEW deferred \in BOOLEAN,
                 Begin(items, producer, deferred)
          PROVE  SnapshotInv'
        BY <2>2, BeginStep
    <2>3. ASSUME BuildRaises PROVE SnapshotInv'
        BY <2>3, FailStep DEF BuildRaises
    <2> QED
        BY <1>1, <2>1, <2>2, <2>3, EndBodyStep, CloseConnectionStep, NormalizeStep,
           NormalizeRaisesStep, NormalizedStep, QueueTrailersStep, ReadTrailersStep,
           AllocateStep, BuildStep, CheckStep, SubmitStep DEF SnapshotNext
<1>2. CASE UNCHANGED snapshotVars
    <2>1. SnapshotTypes'
        BY <1>2 DEF snapshotVars, SnapshotInv, SnapshotTypes
    <2> QED BY <1>2, <2>1, TrailersStable, CallStable DEF snapshotVars, SnapshotInv
<1> QED BY <1>1, <1>2

\* Every way from the allocation out of the build and the submit frees once.
LEMMA ArrayStep ==
    ASSUME SnapshotInv, ArrayFreed, [SnapshotNext]_snapshotVars PROVE ArrayFreed'
<1>1. call \in CallType
    BY DEF SnapshotInv, SnapshotTypes
<1>2. Idle.stage = "idle"
    BY DEF Idle, NewCall
<1>3. ASSUME NEW s \in STRING, call' = [call EXCEPT !.stage = s] PROVE call'.stage = s
    BY <1>1, <1>3 DEF CallType
<1>4. CASE \/ UNCHANGED snapshotVars \/ EndBody \/ CloseConnection
           \/ \E p \in PairObjects : Mutate(p)
    BY <1>4 DEF ArrayFreed, snapshotVars, EndBody, CloseConnection, Mutate
<1>5. CASE \E items \in SeqOf(PairObjects, MaxFields), producer, deferred \in BOOLEAN :
             Begin(items, producer, deferred)
    <2>1. PICK producer \in BOOLEAN, deferred \in BOOLEAN,
               items \in SeqOf(PairObjects, MaxFields) : Begin(items, producer, deferred)
        BY <1>5
    <2>2. call.stage = "idle" /\ call'.stage = "normalize" /\ arrays' = arrays
        BY <1>2, <2>1 DEF Begin, NewCall
    <2> QED BY <2>2 DEF ArrayFreed
<1>6. CASE Normalize \/ Build
    <2>1. call'.stage = call.stage /\ arrays' = arrays
        BY <1>1, <1>6 DEF Normalize, Build, CallType
    <2> QED BY <2>1 DEF ArrayFreed
<1>7. CASE NormalizeRaises \/ QueueTrailers
    BY <1>2, <1>7 DEF ArrayFreed, NormalizeRaises, QueueTrailers
<1>8. CASE Normalized
    BY <1>3, <1>8 DEF ArrayFreed, Normalized
<1>9. CASE ReadTrailers
    <2>1. call'.stage = "allocate"
        BY <1>9 DEF ReadTrailers, NewCall
    <2> QED BY <1>2, <1>9, <2>1 DEF ArrayFreed, ReadTrailers
<1>10. CASE Allocate
    <2>1. arrays = 0
        BY <1>10 DEF ArrayFreed, Allocate
    <2>2. CASE call' = [call EXCEPT !.stage = "build"] /\ arrays' = arrays + 1
        <3>1. call'.stage = "build"
            BY <1>3, <2>2
        <3> QED BY <2>1, <2>2, <3>1 DEF ArrayFreed
    <2>3. CASE call' = Idle /\ arrays' = arrays
        BY <1>2, <2>1, <2>3 DEF ArrayFreed
    <2> QED BY <1>10, <2>2, <2>3 DEF Allocate, FailCall
<1>11. CASE BuildRaises \/ Submit
    BY <1>2, <1>11 DEF ArrayFreed, BuildRaises, Submit, FailCall, Freed
<1>12. CASE Check
    <2>1. arrays = 1
        BY <1>12 DEF ArrayFreed, Check
    <2>2. CASE call' = [call EXCEPT !.stage = "submit"] /\ arrays' = arrays
        <3>1. call'.stage = "submit"
            BY <1>3, <2>2
        <3> QED BY <2>1, <2>2, <3>1 DEF ArrayFreed
    <2>3. CASE call' = Idle /\ Freed
        BY <1>2, <2>1, <2>3 DEF ArrayFreed, Freed
    <2> QED BY <1>12, <2>2, <2>3 DEF Check
<1> QED BY <1>4, <1>5, <1>6, <1>7, <1>8, <1>9, <1>10, <1>11, <1>12 DEF SnapshotNext

LEMMA SnapshotInvariant == SnapshotSpec => [](SnapshotInv /\ ArrayFreed)
<1>1. SnapshotInit => SnapshotInv /\ ArrayFreed
    <2>1. SnapshotInit => ArrayFreed
        BY DEF SnapshotInit, Idle, NewCall, ArrayFreed
    <2> QED BY SnapshotAssumption, InitInv, <2>1
<1>2. SnapshotInv /\ ArrayFreed /\ [SnapshotNext]_snapshotVars
      => (SnapshotInv /\ ArrayFreed)'
    BY SnapshotAssumption, NextStep, ArrayStep
<1> QED BY <1>1, <1>2, PTL DEF SnapshotSpec

(***************************************************************************)
(* The native array never points at bytes that may be gone, is freed on    *)
(* every path, and building trailers inside a callback runs no code of the *)
(* caller, for any number of pairs and fields (see BorrowSafe).            *)
(***************************************************************************)
THEOREM BorrowsAreSafe == SnapshotSpec => []BorrowSafe
<1>1. SnapshotInv /\ ArrayFreed => BorrowSafe
    BY InvImplies
<1> QED BY <1>1, SnapshotInvariant, PTL

(***************************************************************************)
(* libnghttp2 receives the fields as the caller gave them, for any number  *)
(* of pairs and fields (see SubmitsGiven).                                 *)
(***************************************************************************)
THEOREM GivenIsSubmitted == SnapshotSpec => []SubmitsGiven
<1>1. SnapshotInv /\ ArrayFreed => SubmitsGiven
    BY InvImplies
<1> QED BY <1>1, SnapshotInvariant, PTL
-----------------------------------------------------------------------------
(***************************************************************************)
(* The conversion of integer arguments changes no value, for integers of   *)
(* any size and any widths that satisfy the assumption (see IntegersExact).*)
(***************************************************************************)
THEOREM ConversionsExact == argument \in PythonInts => IntegersExact
<1> SUFFICES ASSUME NEW v \in Int PROVE ExactFor(v)
    BY PythonIntsAssumption DEF IntegersExact
<1> USE Widths DEF Rejected, Accepted, Exact
<1>1. /\ Overflow(v) \in {-1, 0, 1} /\ LongLong(v) \in Int
      /\ v \in (-LongMax - 1)..LongMax => Overflow(v) = 0 /\ LongLong(v) = v
      /\ v > LongMax => Overflow(v) = 1
      /\ v < -LongMax - 1 => Overflow(v) = -1
    BY DEF Overflow, LongLong
<1>2. ASSUME NEW max \in Nat, NEW x \in 0..max
      PROVE  Signed(x, max) = x /\ Unsigned(x, max) = x
    <2>1. x \in (-max - 1)..max
        OBVIOUS
    <2> QED BY <2>1 DEF Signed, Unsigned
<1>3. Exact(Stream_id(v), v, 1, IntMax)
    <2>1. StreamIdRefuses(v) <=> v \notin 1..IntMax
        BY <1>1 DEF StreamIdRefuses
    <2>2. v \in 1..IntMax => Signed(LongLong(v), IntMax) = v
        BY <1>1, <1>2
    <2> QED BY <2>1, <2>2 DEF Stream_id
<1>4. Exact(Uint31(v), v, 0, IntMax)
    <2>1. Uint31Refuses(v) <=> v \notin 0..IntMax
        BY <1>1 DEF Uint31Refuses
    <2>2. v \in 0..IntMax => Signed(LongLong(v), IntMax) = v
        BY <1>1, <1>2
    <2> QED BY <2>1, <2>2 DEF Uint31
<1>5. Exact(Uint32(v), v, 0, UIntMax)
    <2>1. Uint32Refuses(v) <=> v \notin 0..UIntMax
        BY <1>1 DEF Uint32Refuses
    <2>2. v \in 0..UIntMax => Unsigned(LongLong(v), UIntMax) = v
        BY <1>1, <1>2
    <2> QED BY <2>1, <2>2 DEF Uint32
<1>6. Exact(Uint64(v), v, 0, ULongMax)
    BY DEF Uint64
<1>7. Exact(Size(v), v, 0, SizeMax) /\ Exact(PositiveSize(v), v, 1, SizeMax)
    BY DEF Size, PositiveSize
<1>8. Exact(NonnegativeSize(v), v, 0, SsizeMax)
    \* A long long that is not negative fits a size_t: the cast keeps it.
    <2>1. v \in 0..LongMax => Unsigned(LongLong(v), SizeMax) = v
        BY <1>1, <1>2
    <2>2. v \in 0..LongMax => (NonnegativeRefuses(v) <=> v > SsizeMax)
        BY <1>1, <2>1 DEF NonnegativeRefuses
    <2>3. v \notin 0..LongMax => NonnegativeRefuses(v)
        BY <1>1 DEF NonnegativeRefuses
    <2>4. v \in 0..SsizeMax => Signed(LongLong(v), SsizeMax) = v
        BY <1>1, <1>2
    <2>5. NonnegativeRefuses(v) <=> v \notin 0..SsizeMax
        <3>1. CASE v \in 0..LongMax
            BY <2>2, <3>1
        <3>2. CASE v \notin 0..LongMax
            BY <2>3, <3>2
        <3> QED BY <3>1, <3>2
    <2> QED BY <2>4, <2>5 DEF NonnegativeSize
<1>9. ASSUME NEW k \in {v, 0}
      PROVE  SettingEntry(k, v) = IF k \in 0..SettingMax /\ v \in 0..UIntMax
                                  THEN <<Accepted(k), Accepted(v)>>
                                  ELSE <<Rejected, Rejected>>
    <2>1. k \in 0..SettingMax => Signed(k, IntMax) = k
        <3>1. k \in 0..SettingMax => k \in 0..IntMax
            OBVIOUS
        <3> QED BY <1>2, <3>1
    <2>2. v \in 0..UIntMax => Unsigned(v, UIntMax) = v
        BY <1>2
    <2> QED BY <2>1, <2>2 DEF SettingEntry, SettingRefuses
<1> QED BY <1>3, <1>4, <1>5, <1>6, <1>7, <1>8, <1>9 DEF ExactFor
-----------------------------------------------------------------------------
(* The output buffer.                                                      *)

\* The inductive invariant: the properties, and that a drive starts from no
\* buffer.  LinearCost holds from step to step because a buffer that doubles is
\* at least as large as it and all its predecessors were together.
BufferInv ==
    /\ SizesOK
    /\ NeverOverflows
    /\ OutputFits
    /\ OutputExact
    /\ LittleWaste
    /\ LinearCost
    /\ phase # "driving" => capacity = 0

\* The threshold of _reserve_output keeps a doubled capacity in range.
LEMMA DoubledInRange ==
    ASSUME Doubles, capacity \in Nat
    PROVE  2 * capacity <= MaxSize
  BY OutputBufferAssumption DEF Doubles

\* A growth makes room for what is asked for, stays in range, and less than
\* doubles what is needed; the old buffer fits into it twice if it was doubled.
LEMMA GrownSuffices ==
    ASSUME SizesOK, NEW length \in 1 .. MaxSize, RoomFor(length), used + length > capacity
    PROVE  /\ Grown(length) \in used + length .. MaxSize
           /\ Doubles => 2 * capacity <= Grown(length)
           /\ Grown(length) > MinCapacity => Grown(length) < 2 * (used + length)
<1>1. /\ used \in Nat /\ capacity \in Nat /\ MaxSize \in Nat /\ MinCapacity \in Nat
      /\ MinCapacity <= MaxSize /\ used + length <= MaxSize
  BY OutputBufferAssumption DEF SizesOK, RoomFor
<1>2. CASE Doubles
  <2>1. 2 * capacity <= MaxSize
    BY <1>1, <1>2, DoubledInRange
  <2>2. Grown(length) = Largest(used + length, Largest(2 * capacity, MinCapacity))
    BY <1>2 DEF Grown
  <2> QED BY <1>1, <2>1, <2>2 DEF Largest
<1>3. CASE ~Doubles
  <2>1. Grown(length) = used + length
    BY <1>3 DEF Grown
  <2> QED BY <1>1, <1>3, <2>1
<1> QED BY <1>2, <1>3

\* Appending length bytes to the buffer keeps all that concerns the buffer.
LEMMA ReserveKeeps ==
    ASSUME BufferInv, phase = "driving", phase' = "driving",
           NEW length \in 1 .. MaxSize, RoomFor(length), Reserve(length)
    PROVE  /\ capacity' \in 0 .. MaxSize /\ used' \in 0 .. MaxSize /\ moved' \in Nat
           /\ used' = used + length
           /\ undefined' = FALSE
           /\ OutputFits' /\ LittleWaste' /\ LinearCost'
<1>1. /\ used \in Nat /\ capacity \in Nat /\ moved \in Nat /\ MaxSize \in Nat
      /\ used + length \in 0 .. MaxSize /\ used <= capacity /\ capacity <= MaxSize
      /\ used' = used + length /\ undefined = FALSE
  BY OutputBufferAssumption DEF BufferInv, SizesOK, RoomFor, Reserve, OutputFits, NeverOverflows
<1>2. Representable(used + length)
  BY <1>1 DEF Representable
<1>3. CASE used + length <= capacity
  <2>1. capacity' = capacity /\ moved' = moved /\ undefined' = FALSE
    BY <1>1, <1>2, <1>3 DEF Reserve
  <2>2. LittleWaste' /\ OutputFits'
    BY <1>1, <1>3, <2>1, OutputBufferAssumption DEF BufferInv, LittleWaste, OutputFits
  <2>3. LinearCost'
    BY <2>1 DEF BufferInv, LinearCost, Doubles
  <2> QED BY <1>1, <2>1, <2>2, <2>3
<1>4. CASE used + length > capacity
  <2>1. capacity' = Grown(length) /\ moved' = moved + capacity
    BY <1>1, <1>4 DEF Reserve
  <2>2. /\ Grown(length) \in used + length .. MaxSize
        /\ Doubles => 2 * capacity <= Grown(length)
        /\ Grown(length) > MinCapacity => Grown(length) < 2 * (used + length)
    BY <1>4, GrownSuffices DEF BufferInv
  <2>3. undefined' = FALSE
    <3>1. Doubles => Representable(2 * capacity)
      BY <1>1, DoubledInRange DEF Representable
    <3>2. /\ Representable(used + length)
          /\ used + length > capacity /\ Doubles => Representable(2 * capacity)
      BY <1>2, <3>1
    <3>3. undefined' = undefined
      BY <3>2 DEF Reserve
    <3> QED BY <1>1, <3>3
  <2>4. LittleWaste' /\ OutputFits'
    BY <1>1, <2>1, <2>2 DEF LittleWaste, OutputFits
  <2>5. LinearCost'
    <3>1. SUFFICES ASSUME Doubles' PROVE moved' <= capacity'
      BY DEF LinearCost
    <3>2. capacity <= capacity' /\ capacity' \in Nat
      BY <1>1, <1>4, <2>1, <2>2
    <3>3. Doubles
      BY <1>1, <3>1, <3>2, OutputBufferAssumption DEF Doubles
    <3>4. moved <= capacity
      BY <3>3 DEF BufferInv, LinearCost
    <3>5. 2 * capacity <= capacity'
      BY <2>1, <2>2, <3>3
    <3> QED BY <1>1, <2>1, <3>2, <3>4, <3>5
  <2> QED BY <1>1, <2>1, <2>2, <2>3, <2>4, <2>5
<1>5. used + length <= capacity \/ used + length > capacity
  BY <1>1
<1> QED BY <1>3, <1>4, <1>5, Zenon

\* So does an append together with the accounting of its caller.
LEMMA AppendKeeps ==
    ASSUME BufferInv, phase = "driving", NEW length \in 1 .. MaxSize, RoomFor(length),
           remaining < 0 \/ length <= remaining,
           Reserve(length), Take(length), accepted' = accepted + length,
           UNCHANGED <<phase, limit>>
    PROVE  BufferInv'
<1>1. /\ capacity' \in 0 .. MaxSize /\ used' \in 0 .. MaxSize /\ moved' \in Nat
      /\ used' = used + length
      /\ undefined' = FALSE
      /\ OutputFits' /\ LittleWaste' /\ LinearCost'
  BY ReserveKeeps
<1>2. /\ remaining \in -1 .. MaxSize /\ limit \in -1 .. MaxSize /\ used \in 0 .. MaxSize
      /\ accepted \in Nat /\ MaxSize \in Nat /\ used = accepted
      /\ limit >= 0 => remaining >= 0 /\ used + remaining = limit
  BY OutputBufferAssumption DEF BufferInv, SizesOK, OutputExact
<1>3. remaining' \in -1 .. MaxSize
  BY <1>2 DEF Take
<1>4. OutputExact'
  <2>1. used' = accepted'
    BY <1>1, <1>2
  <2>2. CASE limit >= 0
    <3>1. remaining >= 0
      BY <1>2, <2>2
    <3> QED BY <1>1, <1>2, <2>1, <2>2, <3>1 DEF Take, OutputExact
  <2>3. CASE limit < 0
    BY <1>2, <2>1, <2>3 DEF OutputExact
  <2> QED BY <1>2, <2>2, <2>3
<1>5. SizesOK'
  <2>1. undefined' \in BOOLEAN
    BY <1>1, Zenon
  <2> QED BY <1>1, <1>2, <1>3, <2>1 DEF SizesOK, BufferInv
<1>6. NeverOverflows'
  BY <1>1 DEF NeverOverflows
<1> QED BY <1>1, <1>4, <1>5, <1>6 DEF BufferInv

\* A failed connection holds no buffer.
LEMMA FailKeeps ==
    ASSUME BufferInv, FailDrive
    PROVE  BufferInv'
  BY OutputBufferAssumption
  DEF BufferInv, FailDrive, SizesOK, NeverOverflows, OutputFits, OutputExact, LittleWaste, LinearCost
-----------------------------------------------------------------------------
\* The invariant holds in every state.
THEOREM BufferInvariance == BufferSpec => []BufferInv
<1>1. BufferInit => BufferInv
  <2> SUFFICES ASSUME BufferInit PROVE BufferInv
    OBVIOUS
  <2>1. SizesOK
    <3>1. undefined \in BOOLEAN
      BY Zenon DEF BufferInit
    <3> QED BY <3>1, OutputBufferAssumption DEF BufferInit, SizesOK
  <2> QED BY <2>1
          DEF BufferInit, BufferInv, NeverOverflows, OutputFits, OutputExact, LittleWaste, LinearCost
<1>2. BufferInv /\ [BufferNext]_bufferVars => BufferInv'
  <2> SUFFICES ASSUME BufferInv, [BufferNext]_bufferVars PROVE BufferInv'
    OBVIOUS
  <2>1. ASSUME NEW amount \in {NoLimit} \cup 1 .. MaxSize, BeginDrive(amount)
        PROVE  BufferInv'
    BY <2>1, OutputBufferAssumption
    DEF BufferInv, BeginDrive, NoLimit, SizesOK, NeverOverflows, OutputFits, OutputExact,
        LittleWaste, LinearCost
  <2>2. ASSUME NEW length \in 1 .. MaxSize, CollectOutput(length)
        PROVE  BufferInv'
    <3> DEFINE n == IF remaining >= 0 /\ remaining < length THEN remaining ELSE length
    <3>1. /\ n \in 1 .. MaxSize
          /\ remaining < 0 \/ n <= remaining
      BY <2>2, OutputBufferAssumption DEF BufferInv, SizesOK, CollectOutput
    <3>2. CASE RoomFor(n)
      <4>1. /\ phase = "driving" /\ Reserve(n) /\ Take(n)
            /\ accepted' = accepted + n /\ UNCHANGED <<phase, limit>>
        BY <2>2, <3>2 DEF CollectOutput
      <4> HIDE DEF n
      <4> QED BY <3>1, <3>2, <4>1, AppendKeeps
    <3>3. CASE ~RoomFor(n)
      BY <2>2, <3>3, FailKeeps DEF CollectOutput
    <3> QED BY <3>2, <3>3
  <2>3. ASSUME NEW length \in 0 .. MaxSize, SendBody(length)
        PROVE  BufferInv'
    <3> DEFINE n == length + HeaderSize
    <3>1. CASE length <= MaxSize - HeaderSize /\ RoomFor(n)
      <4>1. /\ phase = "driving" /\ Reserve(n) /\ Take(n)
            /\ remaining < 0 \/ n <= remaining
            /\ accepted' = accepted + n /\ UNCHANGED <<phase, limit>>
        BY <2>3, <3>1, OutputBufferAssumption DEF SendBody, BufferInv, SizesOK
      <4>2. n \in 1 .. MaxSize
        BY <3>1, OutputBufferAssumption
      <4> HIDE DEF n
      <4> QED BY <3>1, <4>1, <4>2, AppendKeeps
    <3>2. CASE ~(length <= MaxSize - HeaderSize /\ RoomFor(n))
      BY <2>3, <3>2, FailKeeps DEF SendBody
    <3> QED BY <3>1, <3>2
  <2>4. CASE EndDrive
    BY <2>4, OutputBufferAssumption
    DEF BufferInv, EndDrive, SizesOK, NeverOverflows, OutputFits, OutputExact, LittleWaste,
        LinearCost
  <2>5. CASE FailDrive
    BY <2>5, FailKeeps
  <2>6. CASE UNCHANGED bufferVars
    BY <2>6
    DEF bufferVars, BufferInv, SizesOK, NeverOverflows, OutputFits, OutputExact, LittleWaste, LinearCost,
        Doubles
  <2> QED BY <2>1, <2>2, <2>3, <2>4, <2>5, <2>6 DEF BufferNext
<1> QED BY <1>1, <1>2, PTL DEF BufferSpec

\* Every size stays within Py_ssize_t.
THEOREM SizesInRange == BufferSpec => []SizesOK
<1>1. BufferInv => SizesOK
  BY DEF BufferInv
<1> QED BY <1>1, BufferInvariance, PTL

\* _reserve_output computes no sum and no product the machine cannot hold; the
\* bytes written lie inside the buffer, and are those libnghttp2 was told are
\* taken, with a limit no more than the limit.
THEOREM BytesInBuffer == BufferSpec => []OutputSafe
<1>1. BufferInv => OutputSafe
  BY DEF BufferInv, OutputSafe
<1> QED BY <1>1, BufferInvariance, PTL

\* Output costs time and memory linear in its length.
THEOREM Linear == BufferSpec => []GrowthLinear
<1>1. BufferInv => GrowthLinear
  BY DEF BufferInv, GrowthLinear
<1> QED BY <1>1, BufferInvariance, PTL
-----------------------------------------------------------------------------
(* InboundData.  Its properties are not inductive: they do not say which    *)
(* payload may be left behind by a frame that was cut off, nor how the      *)
(* window of a stream stands while its reset is queued; IInv adds both.     *)

\* A frame that is still delivered has its payload, with room for the rest.
PayloadReady ==
    conn = "active" /\ frame # NoFrame /\ ~Skipping =>
        /\ payload = frame /\ dataStream = frame
        /\ dataSize + left <= payloadSize

\* The stream of a frame whose payload is ignored is closing or closed.
IgnoredIsOver ==
    conn = "active" /\ frame # NoFrame /\ ignored => state[frame] # "open"

\* Bytes handed over but not published are of the frame being delivered, or of
\* a stream that is closing.
LeftBehind ==
    conn = "active" /\ dataSize > 0 =>
        /\ dataStream \in Streams
        /\ state[dataStream] = "open" => frame = dataStream

\* The bytes of s whose consumption returns credit of the stream's own window.
Returnable(s) ==
    unconsumed[s] + (IF dataStream = s THEN dataSize ELSE 0)
                  + (IF frame = s /\ ~ignored THEN left + padding ELSE 0)

\* The window of a stream that is not closed covers them.
WindowCovers ==
    conn = "active" /\ ~auto =>
        \A s \in Streams : state[s] # "closed" => streamCredit[s] >= Returnable(s)

\* The two halves of CreditConserved: the window of the connection, and the
\* window of an open stream.
ConnectionConserved ==
    conn = "active" /\ ~auto => \A s \in Streams : credit[s] = Holding(s)

StreamConserved ==
    conn = "active" /\ ~auto =>
        \A s \in Streams : state[s] = "open" => streamCredit[s] = Holding(s)

\* The inductive invariant.
IInv ==
    /\ TypeOK
    /\ ConnectionConserved
    /\ StreamConserved
    /\ NothingLost
    /\ PayloadReady
    /\ IgnoredIsOver
    /\ LeftBehind
    /\ WindowCovers
-----------------------------------------------------------------------------
(* One lemma for each action.                                             *)

\* A new frame: what an unfinished one left behind is returned, the new one charged.
LEMMA BeginFrameKeeps ==
    ASSUME IInv, NEW s \in Streams, NEW data \in 0 .. WindowSize,
           NEW pad \in 0 .. 1, BeginFrame(s, data, pad)
    PROVE  IInv'
<1> USE InboundDataAssumption
    DEF IInv, TypeOK, BeginFrame, Waiting, SetPayload, Charge, Returned, payloadVars
<1>1. TypeOK'
  BY DEF ConnectionConserved, Holding, LeftBehind
<1>2. ConnectionConserved'
  BY DEF ConnectionConserved, Holding, LeftBehind
<1>3. StreamConserved'
  BY DEF StreamConserved, Holding, LeftBehind, IgnoredIsOver
<1>4. NothingLost'
  BY DEF NothingLost, LeftBehind
<1>5. PayloadReady'
  <2>1. CASE state[s] = "open"
    BY <2>1 DEF PayloadReady, Skipping
  <2>2. CASE state[s] # "open"
    <3>1. ignored'
      BY <2>2
    <3> QED BY <3>1 DEF PayloadReady, Skipping
  <2> QED BY <2>1, <2>2
<1>6. IgnoredIsOver'
  BY DEF IgnoredIsOver
<1>7. LeftBehind'
  BY DEF LeftBehind
<1>8. WindowCovers'
  <2>1. CASE state[s] = "open"
    BY <2>1 DEF WindowCovers, Returnable, LeftBehind
  <2>2. CASE state[s] # "open"
    <3>1. ignored'
      BY <2>2
    <3> QED BY <2>2, <3>1 DEF WindowCovers, Returnable
  <2> QED BY <2>1, <2>2
<1> QED BY <1>1, <1>2, <1>3, <1>4, <1>5, <1>6, <1>7, <1>8

\* A fragment moves bytes from those to come to those handed over.
LEMMA DataChunkKeeps ==
    ASSUME IInv, NEW n \in 1 .. left, DataChunk(n)
    PROVE  IInv'
<1> USE InboundDataAssumption
    DEF IInv, TypeOK, DataChunk, Fail, DiscardPendingState, SetPayload, Zero, history,
        creditVars, frameVars
<1>1. TypeOK'
  OBVIOUS
<1>2. ConnectionConserved'
  BY DEF ConnectionConserved, Holding
<1>3. StreamConserved'
  BY DEF StreamConserved, Holding
<1>4. NothingLost'
  BY DEF NothingLost
<1>5. PayloadReady'
  BY DEF PayloadReady, Skipping
<1>6. IgnoredIsOver'
  BY DEF IgnoredIsOver
<1>7. LeftBehind'
  BY DEF LeftBehind, PayloadReady, Skipping, IgnoredIsOver
<1>8. WindowCovers'
  BY DEF WindowCovers, Returnable, Skipping
<1> QED BY <1>1, <1>2, <1>3, <1>4, <1>5, <1>6, <1>7, <1>8

\* Padding is returned to both windows.
LEMMA SkipPaddingKeeps ==
    ASSUME IInv, SkipPadding
    PROVE  IInv'
<1> USE InboundDataAssumption
    DEF IInv, TypeOK, SkipPadding, Consume, Skipping, history, creditVars, payloadVars
<1>1. TypeOK'
  BY DEF ConnectionConserved, Holding, WindowCovers, Returnable
<1>2. ConnectionConserved'
  BY DEF ConnectionConserved, Holding
<1>3. StreamConserved'
  BY DEF StreamConserved, Holding
<1>4. NothingLost'
  BY DEF NothingLost
<1>5. PayloadReady'
  BY DEF PayloadReady, Skipping
<1>6. IgnoredIsOver'
  BY DEF IgnoredIsOver
<1>7. LeftBehind'
  BY DEF LeftBehind
<1>8. WindowCovers'
  BY DEF WindowCovers, Returnable
<1> QED BY <1>1, <1>2, <1>3, <1>4, <1>5, <1>6, <1>7, <1>8

\* Ignored payload is returned to the connection window only; its stream is not open.
LEMMA SkipRestKeeps ==
    ASSUME IInv, SkipRest
    PROVE  IInv'
<1> USE InboundDataAssumption
    DEF IInv, TypeOK, SkipRest, Charge, Skipping, history, payloadVars
<1>1. TypeOK'
  BY DEF ConnectionConserved, Holding
<1>2. ConnectionConserved'
  BY DEF ConnectionConserved, Holding
<1>3. StreamConserved'
  BY DEF StreamConserved, Holding, IgnoredIsOver
<1>4. NothingLost'
  BY DEF NothingLost
<1>5. PayloadReady'
  BY DEF PayloadReady, Skipping
<1>6. IgnoredIsOver'
  BY DEF IgnoredIsOver
<1>7. LeftBehind'
  BY DEF LeftBehind
<1>8. WindowCovers'
  BY DEF WindowCovers, Returnable
<1> QED BY <1>1, <1>2, <1>3, <1>4, <1>5, <1>6, <1>7, <1>8

\* The payload is published, or stays behind for a stream that is closing.
LEMMA EndFrameKeeps ==
    ASSUME IInv, EndFrame
    PROVE  IInv'
<1> USE InboundDataAssumption DEF IInv, TypeOK, EndFrame, Recorded, SetPayload,
        creditVars
<1>1. TypeOK'
  OBVIOUS
<1>2. ConnectionConserved'
  BY DEF ConnectionConserved, Holding, PayloadReady, Skipping
<1>3. StreamConserved'
  BY DEF StreamConserved, Holding, PayloadReady, Skipping, IgnoredIsOver
<1>4. NothingLost'
  BY DEF NothingLost, PayloadReady, Skipping
<1>5. PayloadReady'
  BY DEF PayloadReady, Skipping
<1>6. IgnoredIsOver'
  BY DEF IgnoredIsOver
<1>7. LeftBehind'
  BY DEF LeftBehind, PayloadReady, IgnoredIsOver, Skipping
<1>8. WindowCovers'
  BY DEF WindowCovers, Returnable, PayloadReady, Skipping
<1> QED BY <1>1, <1>2, <1>3, <1>4, <1>5, <1>6, <1>7, <1>8

\* Published bytes are returned to the windows that are left.
LEMMA ConsumeKeeps ==
    ASSUME IInv, NEW s \in Streams, NEW n \in 1 .. unconsumed[s], ConsumeReceivedData(s, n)
    PROVE  IInv'
<1> USE InboundDataAssumption
    DEF IInv, TypeOK, ConsumeReceivedData, Consume, Waiting, history, frameVars,
        payloadVars
<1>1. TypeOK'
  BY DEF ConnectionConserved, Holding, WindowCovers, Returnable
<1>2. ConnectionConserved'
  BY DEF ConnectionConserved, Holding
<1>3. StreamConserved'
  BY DEF StreamConserved, Holding
<1>4. NothingLost'
  BY DEF NothingLost
<1>5. PayloadReady'
  BY DEF PayloadReady, Skipping
<1>6. IgnoredIsOver'
  BY DEF IgnoredIsOver
<1>7. LeftBehind'
  BY DEF LeftBehind
<1>8. WindowCovers'
  BY DEF WindowCovers, Returnable
<1> QED BY <1>1, <1>2, <1>3, <1>4, <1>5, <1>6, <1>7, <1>8

\* A closed stream keeps no payload; what it held is returned.
LEMMA StreamClosedKeeps ==
    ASSUME IInv, NEW s \in Streams, StreamClosed(s)
    PROVE  IInv'
<1> USE InboundDataAssumption
    DEF IInv, TypeOK, StreamClosed, HoldsPayload, SetPayload, Returned, Waiting,
        history, frameVars
<1>1. TypeOK'
  BY DEF ConnectionConserved, Holding
<1>2. ConnectionConserved'
  BY DEF ConnectionConserved, Holding
<1>3. StreamConserved'
  BY DEF StreamConserved, Holding
<1>4. NothingLost'
  BY DEF NothingLost
<1>5. PayloadReady'
  BY DEF PayloadReady, Skipping
<1>6. IgnoredIsOver'
  BY DEF IgnoredIsOver
<1>7. LeftBehind'
  BY DEF LeftBehind
<1>8. WindowCovers'
  BY DEF WindowCovers, Returnable
<1> QED BY <1>1, <1>2, <1>3, <1>4, <1>5, <1>6, <1>7, <1>8

\* A reset only takes its stream out of what is promised.
LEMMA ResetKeeps ==
    ASSUME IInv, NEW s \in Streams, ResetStream(s)
    PROVE  IInv'
<1> USE InboundDataAssumption
    DEF IInv, TypeOK, ResetStream, history, creditVars, frameVars, payloadVars
<1>1. TypeOK'
  OBVIOUS
<1>2. ConnectionConserved'
  BY DEF ConnectionConserved, Holding
<1>3. StreamConserved'
  BY DEF StreamConserved, Holding
<1>4. NothingLost'
  BY DEF NothingLost
<1>5. PayloadReady'
  BY DEF PayloadReady, Skipping
<1>6. IgnoredIsOver'
  BY DEF IgnoredIsOver
<1>7. LeftBehind'
  BY DEF LeftBehind
<1>8. WindowCovers'
  BY DEF WindowCovers, Returnable
<1> QED BY <1>1, <1>2, <1>3, <1>4, <1>5, <1>6, <1>7, <1>8

\* So does a rejected frame, whose rest is ignored.
LEMMA RejectKeeps ==
    ASSUME IInv, RejectFragment
    PROVE  IInv'
<1> USE InboundDataAssumption
    DEF IInv, TypeOK, RejectFragment, history, creditVars, payloadVars
<1>1. TypeOK'
  OBVIOUS
<1>2. ConnectionConserved'
  BY DEF ConnectionConserved, Holding
<1>3. StreamConserved'
  BY DEF StreamConserved, Holding
<1>4. NothingLost'
  BY DEF NothingLost
<1>5. PayloadReady'
  BY DEF PayloadReady, Skipping
<1>6. IgnoredIsOver'
  BY DEF IgnoredIsOver
<1>7. LeftBehind'
  BY DEF LeftBehind
<1>8. WindowCovers'
  BY DEF WindowCovers, Returnable
<1> QED BY <1>1, <1>2, <1>3, <1>4, <1>5, <1>6, <1>7, <1>8

\* A connection that is over promises nothing.
LEMMA StopKeeps ==
    ASSUME IInv, Terminate \/ Fail
    PROVE  IInv'
<1> USE InboundDataAssumption
    DEF IInv, TypeOK, Terminate, Fail, DiscardPendingState, SetPayload, Zero, history,
        creditVars, frameVars
<1>1. TypeOK'
  OBVIOUS
<1>2. ConnectionConserved'
  BY DEF ConnectionConserved, Holding
<1>3. StreamConserved'
  BY DEF StreamConserved, Holding
<1>4. NothingLost'
  BY DEF NothingLost
<1>5. PayloadReady'
  BY DEF PayloadReady, Skipping
<1>6. IgnoredIsOver'
  BY DEF IgnoredIsOver
<1>7. LeftBehind'
  BY DEF LeftBehind
<1>8. WindowCovers'
  BY DEF WindowCovers, Returnable
<1> QED BY <1>1, <1>2, <1>3, <1>4, <1>5, <1>6, <1>7, <1>8

\* Steps that change nothing.
LEMMA StutterKeeps ==
    ASSUME IInv, UNCHANGED vars
    PROVE  IInv'
<1> USE DEF vars, payloadVars, frameVars, creditVars, history
<1> QED BY DEF IInv, TypeOK, ConnectionConserved, StreamConserved, Holding, NothingLost,
               PayloadReady, Skipping, IgnoredIsOver, LeftBehind, WindowCovers, Returnable
-----------------------------------------------------------------------------
\* The invariant holds in every state.
THEOREM Invariance == Spec => []IInv
<1>1. Init => IInv
  <2> SUFFICES ASSUME Init PROVE IInv
    OBVIOUS
  <2> USE InboundDataAssumption DEF Init, Zero
  <2>1. TypeOK
    BY DEF TypeOK
  <2>2. ConnectionConserved /\ StreamConserved /\ NothingLost /\ WindowCovers
    BY DEF ConnectionConserved, StreamConserved, Holding, NothingLost, WindowCovers, Returnable
  <2>3. PayloadReady /\ IgnoredIsOver /\ LeftBehind
    BY DEF PayloadReady, IgnoredIsOver, LeftBehind
  <2> QED BY <2>1, <2>2, <2>3 DEF IInv
<1>2. IInv /\ [Next]_vars => IInv'
  <2> SUFFICES ASSUME IInv, [Next]_vars PROVE IInv'
    OBVIOUS
  <2>1. CASE Receive
    BY <2>1, DataChunkKeeps, SkipPaddingKeeps, SkipRestKeeps, EndFrameKeeps DEF Receive
  <2>2. ASSUME NEW s \in Streams, NEW data \in 0 .. WindowSize, NEW pad \in 0 .. 1,
               BeginFrame(s, data, pad)
        PROVE  IInv'
    BY <2>2, BeginFrameKeeps
  <2>3. ASSUME NEW s \in Streams, NEW n \in 1 .. unconsumed[s], ConsumeReceivedData(s, n)
        PROVE  IInv'
    BY <2>3, ConsumeKeeps
  <2>4. ASSUME NEW s \in Streams, ResetStream(s) \/ StreamClosed(s)
        PROVE  IInv'
    BY <2>4, ResetKeeps, StreamClosedKeeps
  <2>5. CASE RejectFragment
    BY <2>5, RejectKeeps
  <2>6. CASE Terminate \/ Fail
    BY <2>6, StopKeeps
  <2>7. CASE UNCHANGED vars
    BY <2>7, StutterKeeps
  <2> QED BY <2>1, <2>2, <2>3, <2>4, <2>5, <2>6, <2>7 DEF Next
<1> QED BY <1>1, <1>2, PTL DEF Spec

\* Every variable keeps its type; above all no counter of used window falls
\* below zero, that is no credit is returned twice.
THEOREM TypeCorrect == Spec => []TypeOK
<1>1. IInv => TypeOK
  BY DEF IInv
<1> QED BY <1>1, Invariance, PTL

\* Both windows are charged exactly for the bytes that can still be consumed,
\* whatever frames were cut off by resets, errors and closures.
THEOREM Credit == Spec => []CreditConserved
<1>1. IInv => CreditConserved
  BY DEF IInv, CreditConserved, ConnectionConserved, StreamConserved
<1> QED BY <1>1, Invariance, PTL

\* _data_chunk always finds the payload of its frame, with room for the
\* fragment, so that it never raises its InternalError.
THEOREM FragmentFits == Spec => []ChunkFits
<1>1. IInv => ChunkFits
  BY DEF IInv, PayloadReady, ChunkFits
<1> QED BY <1>1, Invariance, PTL

\* What _data_chunk took of an open stream is published, or is in the payload.
THEOREM EverythingPublished == Spec => []NothingLost
<1>1. IInv => NothingLost
  BY DEF IInv
<1> QED BY <1>1, Invariance, PTL
=============================================================================
