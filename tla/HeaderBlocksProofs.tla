-------------------------- MODULE HeaderBlocksProofs --------------------------
(***************************************************************************)
(* Proofs about HeaderBlocks, for every set of streams, field sizes and    *)
(* limits: an event holds the fields of its own block, and the events of a *)
(* stream come in the order of an HTTP message.                            *)
(*                                                                         *)
(* The events of a stream are followed through what libnghttp2 remembers   *)
(* of it, "headed" and "ended", which hold as long as the stream is open.  *)
(***************************************************************************)
EXTENDS HeaderBlocks, SequenceTheorems, FiniteSetTheorems, TLAPS

Kinds == {"request", "interim", "response", "trailers", "push"}
Events == [kind : Kinds, stream : Streams, headers : Seq(Fields)]

\* An event of one of these kinds was published for s.
Had(s, kinds) ==
    \E i \in 1 .. Len(events) : events[i].stream = s /\ events[i].kind \in kinds

\* The block being received may begin or follow its message here.
BlockInv ==
    conn = "active" /\ block # NoBlock =>
        /\ ignored => push \/ state[block] # "open"
        /\ Delivered => current = fields
        /\ push => ~server
        /\ block \notin ended
        /\ \A i \in 1 .. Len(fields) :
            fields[i].kind = "field"
            <=> ~(i = 1 /\ ~server /\ ~push /\ block \notin headed)

\* What was published for a stream, and what libnghttp2 remembers of it.
StreamInv ==
    \A s \in Streams :
        /\ Had(s, {"request", "response", "trailers"}) => s \in headed
        /\ Had(s, {"trailers"}) => s \in ended
        /\ server /\ Had(s, Kinds) => s \in headed
        /\ state[s] = "open" /\ s \in headed => Had(s, {"request", "response"})

\* The inductive invariant.
IInv == TypeOK /\ BlockInv /\ StreamInv /\ MessageOrder
-----------------------------------------------------------------------------
(* Facts about the fields and the events.                                  *)

\* The limits are numbers.
LEMMA Limits == Overhead \in Nat /\ MaxSize \in Nat /\ MaxBlocks \in Nat /\ Sizes \subseteq Nat
BY HeaderBlocksAssumption

\* Nothing received is a sequence of fields, and of events.
LEMMA Nothing == <<>> \in Seq(Fields) /\ <<>> \in Seq(Events) /\ Len(<<>>) = 0
BY EmptySeq

\* The kinds of the events before the j-th of es, on its stream.
Before(es, j) == {es[i].kind : i \in {i \in 1 .. j - 1 : es[i].stream = es[j].stream}}

\* What MessageOrder asks of the j-th event.
InOrder(es, j) ==
    CASE es[j].kind = "push" -> TRUE
      [] es[j].kind = "request" -> Before(es, j) = {}
      [] es[j].kind \in {"interim", "response"} -> Before(es, j) \subseteq {"interim", "push"}
      [] es[j].kind = "trailers" ->
            /\ "trailers" \notin Before(es, j)
            /\ Before(es, j) \cap {"request", "response"} # {}

\* MessageOrder is InOrder at every event, now and in the next state.
LEMMA OrderAt ==
    /\ MessageOrder <=> TypeOK /\ \A j \in DOMAIN events : InOrder(events, j)
    /\ MessageOrder' <=> TypeOK' /\ \A j \in DOMAIN events' : InOrder(events', j)
BY Zenon DEF MessageOrder, InOrder, Before

\* The event a block makes, by what its stream received before.
LEMMA KindOfBlock ==
    ASSUME IInv, conn = "active", block # NoBlock, Delivered,
           fields # <<>> \/ (~push /\ block \in headed)
    PROVE  /\ current = fields /\ block \in Streams /\ block \notin ended
           /\ push => Kind = "push" /\ ~server
           /\ ~push /\ block \in headed => Kind = "trailers"
           /\ ~push /\ block \notin headed /\ server => Kind = "request"
           /\ ~push /\ block \notin headed /\ ~server =>
                Kind = IF fields[1].kind = "interim" THEN "interim" ELSE "response"
           /\ fields # <<>> /\ fields[1].kind = "interim" => ~server /\ block \notin headed
<1>1. /\ current = fields /\ block \in Streams /\ block \notin ended /\ fields \in Seq(Fields)
      /\ push => ~server
      /\ \A i \in 1 .. Len(fields) :
            fields[i].kind = "field" <=> ~(i = 1 /\ ~server /\ ~push /\ block \notin headed)
  BY DEF IInv, TypeOK, BlockInv
<1>2. /\ DOMAIN fields = 1 .. Len(fields) /\ (fields # <<>> => 1 \in 1 .. Len(fields))
      /\ \A i \in 1 .. Len(fields) : fields[i].kind \in {"interim", "final", "field"}
  <2>1. /\ Len(fields) \in Nat /\ DOMAIN fields = 1 .. Len(fields)
        /\ \A i \in 1 .. Len(fields) : fields[i] \in Fields
    BY <1>1, LenProperties, ElementOfSeq
  <2>2. fields # <<>> => Len(fields) # 0
    BY <1>1, EmptySeq
  <2> QED BY <2>1, <2>2 DEF Fields
<1>3. CASE server \/ push \/ block \in headed
  <2>1. \A i \in DOMAIN fields : fields[i].kind = "field"
    BY <1>1, <1>2, <1>3
  <2> QED BY <1>1, <1>2, <1>3, <2>1 DEF Kind, IsRequest, ResponseKind
<1>4. CASE ~server /\ ~push /\ block \notin headed
  <2>1. /\ fields[1].kind \in {"interim", "final"}
        /\ \A i \in DOMAIN fields : fields[i].kind # "field" => i = 1
    BY <1>1, <1>2, <1>4
  <2>2. ResponseKind(fields) = IF fields[1].kind = "interim" THEN "interim" ELSE "response"
    BY <1>2, <1>4, <2>1 DEF ResponseKind
  <2> QED BY <1>1, <1>2, <1>4, <2>1, <2>2 DEF Kind, IsRequest
<1> QED BY <1>3, <1>4
-----------------------------------------------------------------------------
(* Every step keeps the invariant.                                         *)

\* A new connection has received nothing (Connection.__init__).
LEMMA InitInv == Init => IInv
<1> SUFFICES ASSUME Init PROVE IInv
  OBVIOUS
<1>1. TypeOK /\ Len(events) = 0
  <2>1. events \in Seq(Events) /\ Len(events) = 0 /\ current \in Seq(Fields) /\ fields \in Seq(Fields)
    BY Nothing DEF Init
  <2>2. size \in 0 .. MaxSize /\ blocks \in 0 .. MaxBlocks
    BY Limits DEF Init
  <2>3. /\ server \in BOOLEAN /\ push \in BOOLEAN /\ ignored \in BOOLEAN
        /\ conn \in {"active", "terminating", "failed"}
        /\ state \in [Streams -> {"open", "closing", "closed"}]
        /\ headed \subseteq Streams /\ ended \subseteq Streams
        /\ block \in Streams \cup {NoBlock}
    BY DEF Init
  <2> QED BY <2>1, <2>2, <2>3 DEF TypeOK, Events, Kinds
<1>2. BlockInv /\ StreamInv
  BY <1>1 DEF Init, BlockInv, StreamInv, Had
<1>3. MessageOrder
  <2>1. DOMAIN events = {}
    BY LenProperties, <1>1 DEF TypeOK
  <2> QED BY <1>1, <2>1, OrderAt
<1> QED BY <1>1, <1>2, <1>3 DEF IInv

\* Steps that publish nothing.
LEMMA NoEvent ==
    ASSUME IInv, TypeOK', UNCHANGED events
    PROVE  MessageOrder'
BY OrderAt DEF IInv

\* A block that begins is empty; its stream has not ended.
LEMMA BeginBlockKeeps ==
    ASSUME IInv, NEW s \in Streams, NEW promise \in BOOLEAN, BeginBlock(s, promise)
    PROVE  IInv'
<1>1. TypeOK'
  <2>1. ignored' \in BOOLEAN
    BY DEF BeginBlock
  <2>2. current' \in Seq(Fields) /\ size' \in 0 .. MaxSize /\ fields' \in Seq(Fields)
    <3>1. /\ (current' = <<>> /\ size' = 0) \/ UNCHANGED <<current, size>>
          /\ fields' = <<>>
      BY DEF BeginBlock, BeginHeaders
    <3>2. current \in Seq(Fields) /\ size \in 0 .. MaxSize /\ 0 \in 0 .. MaxSize
      BY Limits DEF IInv, TypeOK
    <3> QED BY <3>1, <3>2, Nothing
  <2>3. blocks' \in 0 .. MaxBlocks
    BY Limits DEF IInv, TypeOK, BeginBlock
  <2> QED BY <2>1, <2>2, <2>3 DEF IInv, TypeOK, BeginBlock
<1>2. BlockInv'
  <2>1. /\ IF ignored' THEN state'[s] # "open" ELSE current' = <<>>
        /\ fields' = <<>> /\ block' = s /\ push' = promise /\ s \notin ended
        /\ promise => ~server
        /\ UNCHANGED <<server, ended, headed>>
    <3>1. ignored' <=> state[s] # "open"
      BY Zenon DEF BeginBlock
    <3> QED BY <3>1 DEF BeginBlock, BeginHeaders
  <2> QED BY <2>1, Nothing DEF BlockInv, Delivered
<1>3. StreamInv'
  BY DEF IInv, StreamInv, Had, BeginBlock
<1>4. MessageOrder'
  BY <1>1, NoEvent DEF BeginBlock
<1> QED BY <1>1, <1>2, <1>3, <1>4 DEF IInv

\* A failed connection keeps no fields.
LEMMA FailKeeps ==
    ASSUME IInv, Fail, fields' \in Seq(Fields)
    PROVE  IInv'
<1>1. TypeOK'
  BY Limits, Nothing DEF IInv, TypeOK, Fail, DiscardPendingState
<1>2. BlockInv' /\ StreamInv'
  BY DEF IInv, BlockInv, StreamInv, Had, Fail
<1>3. MessageOrder'
  BY <1>1, NoEvent DEF Fail
<1> QED BY <1>1, <1>2, <1>3 DEF IInv

\* A field that is kept is the next one of its block.
LEMMA HeaderKeeps ==
    ASSUME IInv, NEW f \in Fields, Header(f)
    PROVE  IInv'
<1>1. /\ fields' \in Seq(Fields) /\ Len(fields') = Len(fields) + 1 /\ Len(fields) \in Nat
      /\ \A i \in 1 .. Len(fields) : fields'[i] = fields[i]
      /\ fields'[Len(fields) + 1] = f
  BY AppendProperties, LenProperties DEF IInv, TypeOK, Header
<1>2. CASE Fail
  BY <1>1, <1>2, FailKeeps
<1>3. CASE ~Fail
  <2>1. UNCHANGED <<server, conn, events, state, headed, ended, block, push, ignored, blocks>>
    BY <1>3 DEF Header, binding
  <2>2. \/ ~Delivered /\ UNCHANGED <<current, size>>
        \/ /\ Delivered /\ ~SizeExceeded(f)
           /\ current' = Append(current, f) /\ size' = size + f.size + Overhead
    BY <1>3 DEF Header, binding
  <2>3. current' \in Seq(Fields) /\ size' \in 0 .. MaxSize
    <3>1. f.size \in Nat
      BY Limits DEF Fields
    <3>2. current' \in Seq(Fields)
      <4>1. current \in Seq(Fields) /\ Append(current, f) \in Seq(Fields)
        BY AppendProperties DEF IInv, TypeOK
      <4> QED BY <2>2, <4>1
    <3>3. size' \in 0 .. MaxSize
      BY <2>2, <3>1, Limits DEF IInv, TypeOK, SizeExceeded
    <3> QED BY <3>2, <3>3
  <2>4. TypeOK'
    BY <1>1, <2>1, <2>3 DEF IInv, TypeOK
  <2>5. /\ ignored' => push' \/ state'[block'] # "open"
        /\ Delivered' => current' = fields'
    BY <2>1, <2>2 DEF IInv, BlockInv, Header, Delivered
  <2>6. f.kind = "field" <=> ~(fields = <<>> /\ ~server /\ ~push /\ block \notin headed)
    BY DEF Header, Valid
  <2>7. fields = <<>> <=> Len(fields) = 0
    BY <1>1, EmptySeq DEF IInv, TypeOK
  <2>8. BlockInv'
    BY <1>1, <2>1, <2>5, <2>6, <2>7 DEF IInv, BlockInv, Header
  <2>9. StreamInv'
    BY <2>1 DEF IInv, StreamInv, Had
  <2>10. MessageOrder'
    BY <2>1, <2>4, NoEvent
  <2> QED BY <2>4, <2>8, <2>9, <2>10 DEF IInv
<1> QED BY <1>2, <1>3

\* Resets leave a stream that is not open any more, whose block is ignored or
\* not published.
LEMMA ResetKeeps ==
    ASSUME IInv, \/ RejectHeader
                 \/ \E s \in Streams : ResetStream(s) \/ StreamClosed(s)
                 \/ Terminate
    PROVE  IInv'
<1>1. TypeOK'
  <2>1. CASE RejectHeader \/ \E s \in Streams : ResetStream(s) \/ StreamClosed(s)
    BY <2>1 DEF IInv, TypeOK, RejectHeader, ResetStream, StreamClosed, binding
  <2>2. CASE Terminate
    BY <2>2, Limits, Nothing DEF IInv, TypeOK, Terminate, DiscardPendingState, native
  <2> QED BY <2>1, <2>2
<1>2. UNCHANGED <<server, events, headed, ended, block, push, fields>>
  BY DEF RejectHeader, ResetStream, StreamClosed, Terminate, binding, native
<1>3. \A s \in Streams : state'[s] = "open" => state[s] = "open"
  BY DEF IInv, TypeOK, RejectHeader, ResetStream, StreamClosed, Terminate, native
<1>4. /\ conn' = "active" /\ ~ignored' => ~ignored /\ UNCHANGED current
      /\ conn' = "active" => conn = "active"
      /\ \A s \in Streams : state[s] = "closed" => state'[s] = "closed"
  BY DEF IInv, TypeOK, RejectHeader, ResetStream, StreamClosed, Terminate, binding, native
<1>5. BlockInv'
  <2>1. ignored' /\ conn' = "active" /\ block # NoBlock => push \/ state'[block] # "open"
    BY <1>3 DEF IInv, BlockInv, TypeOK, RejectHeader, ResetStream, StreamClosed, Terminate, native
  <2>2. block' # NoBlock => block \in Streams /\ block' = block
    BY DEF IInv, TypeOK, RejectHeader, ResetStream, StreamClosed, Terminate, native
  <2> QED BY <1>2, <1>4, <2>1, <2>2 DEF IInv, BlockInv, Delivered
<1>6. StreamInv'
  BY <1>2, <1>3 DEF IInv, StreamInv, Had
<1>7. MessageOrder'
  BY <1>1, <1>2, NoEvent
<1> QED BY <1>1, <1>5, <1>6, <1>7 DEF IInv

\* A block that ends without an event was ignored, or its stream is not open.
LEMMA EndSilentKeeps ==
    ASSUME IInv, EndBlock, ignored \/ state[block] # "open"
    PROVE  IInv'
<1>1. /\ conn = "active" /\ block \in Streams /\ block' = NoBlock
      /\ UNCHANGED <<server, conn, state, push, ignored, fields, blocks, current, size, events>>
  BY DEF EndBlock, IInv, TypeOK
<1>2. TypeOK'
  BY <1>1 DEF EndBlock, IInv, TypeOK
<1>3. BlockInv'
  BY <1>1 DEF BlockInv
<1>4. StreamInv'
  <2>1. push \/ state[block] # "open"
    BY DEF IInv, BlockInv, EndBlock
  <2> QED BY <1>1, <2>1 DEF EndBlock, IInv, StreamInv, Had
<1>5. MessageOrder'
  BY <1>1, <1>2, NoEvent
<1> QED BY <1>2, <1>3, <1>4, <1>5 DEF IInv

\* The event of a block, and what it makes of its stream.
LEMMA EndPublishes ==
    ASSUME IInv, EndBlock, ~ignored, state[block] = "open"
    PROVE  IInv'
<1> DEFINE kind == Kind
           L == Len(events)
<1>1. /\ conn = "active" /\ block \in Streams /\ block' = NoBlock
      /\ fields # <<>> \/ (~push /\ block \in headed)
      /\ events' = Append(events, Event(kind, block, current))
      /\ current' = <<>>
      /\ headed' = IF push \/ fields = <<>> \/ fields[1].kind = "interim" THEN headed
                   ELSE headed \cup {block}
      /\ ended' = IF ~push /\ block \in headed THEN ended \cup {block} ELSE ended
      /\ UNCHANGED <<server, conn, state, push, ignored, fields, blocks, size>>
  BY DEF EndBlock, FrameReceived, IInv, TypeOK
<1>2. /\ current = fields /\ block \notin ended
      /\ push => kind = "push" /\ ~server
      /\ ~push /\ block \in headed => kind = "trailers"
      /\ ~push /\ block \notin headed /\ server => kind = "request"
      /\ ~push /\ block \notin headed /\ ~server =>
            kind = IF fields[1].kind = "interim" THEN "interim" ELSE "response"
      /\ fields # <<>> /\ fields[1].kind = "interim" => ~server /\ block \notin headed
  <2>1. Delivered
    BY DEF Delivered
  <2> QED BY <1>1, <2>1, KindOfBlock DEF EndBlock
<1> HIDE DEF kind
<1>3. kind \in Kinds
  BY <1>2 DEF Kinds
<1>4. /\ Event(kind, block, current) \in Events /\ events \in Seq(Events)
      /\ Event(kind, block, current).kind = kind /\ Event(kind, block, current).stream = block
  BY <1>1, <1>3 DEF Event, Events, Kinds, IInv, TypeOK
<1>5. /\ events' \in Seq(Events) /\ Len(events') = L + 1 /\ L \in Nat
      /\ \A i \in 1 .. L : events'[i] = events[i]
      /\ events'[L + 1].kind = kind /\ events'[L + 1].stream = block
  BY <1>1, <1>4, AppendProperties
<1>6. TypeOK'
  BY <1>1, <1>5, Nothing DEF IInv, TypeOK, Events, Kinds
<1>7. BlockInv'
  BY <1>1 DEF BlockInv
<1> HIDE DEF L
<1>8. StreamInv'
  <2>1. \A s \in Streams, K \in SUBSET Kinds : Had(s, K)' <=> Had(s, K) \/ (s = block /\ kind \in K)
    BY <1>5 DEF Had, L
  <2>2. /\ {"request", "response", "trailers"} \in SUBSET Kinds /\ Kinds \in SUBSET Kinds
        /\ {"trailers"} \in SUBSET Kinds /\ {"request", "response"} \in SUBSET Kinds
    BY DEF Kinds
  <2> QED BY <1>1, <1>2, <1>3, <2>1, <2>2 DEF IInv, StreamInv
<1>9. MessageOrder'
  <2>1. \A j \in 1 .. L : InOrder(events', j)
    <3> SUFFICES ASSUME NEW j \in 1 .. L PROVE InOrder(events', j)
      OBVIOUS
    <3>1. DOMAIN events = 1 .. L
      BY <1>4, LenProperties DEF L
    <3>2. InOrder(events, j)
      BY <3>1, OrderAt DEF IInv
    <3>3. \A i \in 1 .. j : events'[i] = events[i]
      BY <1>5
    <3>4. Before(events', j) = Before(events, j)
      BY <1>5, <3>3 DEF Before
    <3> QED BY <1>5, <3>2, <3>4 DEF InOrder
  <2>2. InOrder(events', L + 1)
    <3>1. \A k : k \in Before(events', L + 1) <=> Had(block, {k})
      BY <1>5 DEF Before, Had, L
    <3>2. events'[L + 1].kind = kind
      BY <1>5
    <3>3. \A i \in 1 .. Len(events) : events[i].kind \in Kinds
      <4>1. \A i \in 1 .. Len(events) : events[i] \in Events
        BY <1>4, ElementOfSeq
      <4> QED BY <4>1 DEF Events
    <3>4. CASE kind = "push"
      BY <3>2, <3>4 DEF InOrder
    <3>5. CASE kind = "request"
      <4>1. server /\ block \notin headed
        BY <1>2, <3>5
      <4>2. ~Had(block, Kinds)
        BY <1>1, <4>1 DEF IInv, StreamInv
      <4>3. \A k : Had(block, {k}) => Had(block, Kinds)
        BY <3>3 DEF Had
      <4> QED BY <3>1, <3>2, <3>5, <4>2, <4>3 DEF InOrder
    <3>6. CASE kind \in {"interim", "response"}
      <4>1. ~server /\ block \notin headed
        BY <1>2, <3>6
      <4>2. ~Had(block, {"request", "response", "trailers"})
        BY <1>1, <4>1 DEF IInv, StreamInv
      <4>3. \A k : Had(block, {k}) => k \in {"interim", "push"}
        BY <3>3, <4>2 DEF Had, Kinds
      <4> QED BY <3>1, <3>2, <3>6, <4>3 DEF InOrder
    <3>7. CASE kind = "trailers"
      <4>1. block \in headed
        BY <1>2, <3>7
      <4>2. ~Had(block, {"trailers"}) /\ Had(block, {"request", "response"})
        BY <1>1, <1>2, <4>1 DEF IInv, StreamInv
      <4>3. PICK k \in {"request", "response"} : Had(block, {k})
        BY <4>2 DEF Had
      <4> QED BY <3>1, <3>2, <3>7, <4>2, <4>3 DEF InOrder
    <3> QED BY <1>3, <3>4, <3>5, <3>6, <3>7 DEF Kinds
  <2>3. DOMAIN events' = 1 .. L + 1
    BY <1>5, LenProperties
  <2> QED BY <1>5, <1>6, <2>1, <2>2, <2>3, OrderAt
<1> QED BY <1>6, <1>7, <1>8, <1>9 DEF IInv

\* Every callback and call keeps the inductive invariant.
THEOREM NextPreservesInv == IInv /\ [Next]_vars => IInv'
<1> SUFFICES ASSUME IInv, [Next]_vars PROVE IInv'
  OBVIOUS
<1>1. CASE EndBlock
  BY <1>1, EndSilentKeeps, EndPublishes
<1>2. CASE Fail /\ UNCHANGED fields
  BY <1>2, FailKeeps DEF IInv, TypeOK
<1>3. CASE UNCHANGED vars
  <2>1. TypeOK' /\ UNCHANGED events
    BY <1>3 DEF IInv, TypeOK, vars, binding, native
  <2>2. BlockInv' /\ StreamInv'
    BY <1>3 DEF IInv, BlockInv, Delivered, StreamInv, Had, vars, binding, native
  <2> QED BY <2>1, <2>2, NoEvent DEF IInv
<1> QED BY <1>1, <1>2, <1>3, BeginBlockKeeps, HeaderKeeps, ResetKeeps DEF Next

\* The inductive invariant holds in every reachable state.
LEMMA Invariance == Spec => []IInv
BY InitInv, NextPreservesInv, PTL DEF Spec
-----------------------------------------------------------------------------
(* The size of a block is compared with the set of its octets: a field adds *)
(* its own octets to the set.                                              *)

\* The octets of the i-th field, of size n.
FieldOctets(i, n) == {i} \X (1 .. n + Overhead)

\* There are n + Overhead of them.
LEMMA CountField ==
    ASSUME NEW i, NEW n \in Nat
    PROVE  /\ IsFiniteSet(FieldOctets(i, n))
           /\ Cardinality(FieldOctets(i, n)) = n + Overhead
<1> DEFINE m == n + Overhead
           I == 1 .. n + Overhead
           f == [k \in I |-> <<i, k>>]
<1>1. IsFiniteSet(I) /\ Cardinality(I) = n + Overhead
  <2>1. m \in Nat
    BY Limits
  <2> HIDE DEF m
  <2>2. IsFiniteSet(1 .. m)
    BY <2>1, FS_Interval
  <2>3. Cardinality(1 .. m) = m
    <3>1. Cardinality(1 .. m) = IF 1 > m THEN 0 ELSE m - 1 + 1
      BY <2>1, FS_Interval
    <3> QED BY <2>1, <3>1
  <2> QED BY <2>2, <2>3 DEF m
<1>2. f \in Bijection(I, FieldOctets(i, n))
  <2>1. f \in [I -> FieldOctets(i, n)] /\ \A j, k \in I : f[j] = f[k] => j = k
    BY DEF FieldOctets
  <2>2. \A x \in FieldOctets(i, n) : \E k \in I : f[k] = x
    BY DEF FieldOctets
  <2> HIDE DEF f, I
  <2> QED BY <2>1, <2>2 DEF Bijection, Injection, Surjection, IsInjective
<1>3. ExistsBijection(I, FieldOctets(i, n))
  BY <1>2 DEF ExistsBijection
<1> HIDE DEF I
<1> QED BY <1>1, <1>3, FS_Bijection

\* One more field adds its octets.
LEMMA SizeGrows ==
    ASSUME NEW headers \in Seq(Fields), IsFiniteSet(Octets(headers)), NEW f \in Fields
    PROVE  /\ IsFiniteSet(Octets(Append(headers, f)))
           /\ SizeOf(Append(headers, f)) = SizeOf(headers) + f.size + Overhead
<1> DEFINE longer == Append(headers, f)
           L == Len(headers)
           new == FieldOctets(L + 1, f.size)
<1>1. /\ L \in Nat /\ DOMAIN headers = 1 .. L /\ DOMAIN longer = 1 .. L + 1
      /\ \A i \in 1 .. L : longer[i] = headers[i]
      /\ longer[L + 1] = f
  BY AppendProperties, LenProperties
<1>2. f.size \in Nat
  BY Limits DEF Fields
<1>3. \A h, x : x \in Octets(h) <=> \E i \in DOMAIN h : x \in FieldOctets(i, h[i].size)
  BY DEF Octets, FieldOctets
<1> HIDE DEF longer, L
<1>4. Octets(longer) = Octets(headers) \cup new
  <2> SUFFICES ASSUME NEW x
               PROVE  x \in Octets(longer) <=> x \in Octets(headers) \/ x \in new
    OBVIOUS
  <2> QED BY <1>1, <1>3
<1>5. Octets(headers) \cap new = {}
  <2> SUFFICES ASSUME NEW x \in Octets(headers), x \in new PROVE FALSE
    OBVIOUS
  <2>1. PICK i \in 1 .. L : x \in FieldOctets(i, headers[i].size)
    BY <1>1, <1>3
  <2>2. i # L + 1
    BY <1>1
  <2> QED BY <2>1, <2>2 DEF FieldOctets
<1>6. IsFiniteSet(new) /\ Cardinality(new) = f.size + Overhead
  BY <1>2, CountField
<1> HIDE DEF new
<1>7. /\ IsFiniteSet(Octets(longer)) /\ Cardinality(Octets(headers)) \in Nat
      /\ Cardinality(Octets(longer))
         = Cardinality(Octets(headers)) + Cardinality(new) - Cardinality(Octets(headers) \cap new)
  BY <1>4, <1>6, FS_Union, FS_CardinalityType
<1>8. Cardinality(Octets(headers) \cap new) = 0
  BY <1>5, FS_EmptySet, Zenon
<1> QED BY <1>2, <1>6, <1>7, <1>8, Limits DEF SizeOf, longer

\* Of a block that is delivered, what _header has counted is its size.
SizeInv ==
    conn = "active" /\ block # NoBlock /\ Delivered =>
        IsFiniteSet(Octets(fields)) /\ size = SizeOf(fields)

\* No field has no octets.
LEMMA NoOctets == IsFiniteSet(Octets(<<>>)) /\ SizeOf(<<>>) = 0
<1>1. DOMAIN <<>> = {}
  OBVIOUS
<1>2. Octets(<<>>) = {}
  BY <1>1 DEF Octets
<1> QED BY <1>2, FS_EmptySet DEF SizeOf

\* Every callback and call keeps the count.
LEMMA NextPreservesSize == IInv /\ SizeInv /\ [Next]_vars => SizeInv'
<1> SUFFICES ASSUME IInv, SizeInv, [Next]_vars PROVE SizeInv'
  OBVIOUS
<1>1. ASSUME NEW s \in Streams, NEW promise \in BOOLEAN, BeginBlock(s, promise) PROVE SizeInv'
  <2>1. fields' = <<>> /\ (Delivered' => size' = 0)
    BY <1>1 DEF BeginBlock, BeginHeaders, Delivered
  <2> QED BY <2>1, NoOctets DEF SizeInv
<1>2. ASSUME NEW f \in Fields, Header(f) PROVE SizeInv'
  <2>1. CASE Fail
    BY <2>1 DEF Fail, SizeInv
  <2>2. CASE ~Fail
    <3>1. /\ conn = "active" /\ block # NoBlock /\ fields' = Append(fields, f)
          /\ Delivered' = Delivered
          /\ Delivered => size' = size + f.size + Overhead
      BY <1>2, <2>2 DEF Header, binding, Delivered
    <3>2. fields \in Seq(Fields)
      BY DEF IInv, TypeOK
    <3> QED BY <3>1, <3>2, SizeGrows DEF SizeInv
  <2> QED BY <2>1, <2>2
<1>3. ASSUME conn' = "active" /\ block' # NoBlock /\ Delivered' =>
                /\ conn = "active" /\ block # NoBlock /\ Delivered
                /\ UNCHANGED <<fields, size>>
      PROVE  SizeInv'
  BY <1>3 DEF SizeInv
<1>4. CASE EndBlock
  BY <1>4 DEF EndBlock, SizeInv
<1>5. CASE RejectHeader \/ \E s \in Streams : ResetStream(s) \/ StreamClosed(s)
  <2>1. \A s \in Streams : state[s] = "closed" => state'[s] = "closed"
    BY <1>5 DEF IInv, TypeOK, RejectHeader, ResetStream, StreamClosed
  <2>2. block # NoBlock => block \in Streams
    BY DEF IInv, TypeOK
  <2>3. UNCHANGED <<conn, block, push, fields, size>> /\ (ignored => ignored')
    BY <1>5 DEF RejectHeader, ResetStream, StreamClosed, binding
  <2> QED BY <1>3, <2>1, <2>2, <2>3 DEF Delivered
<1>6. CASE Terminate \/ Fail
  BY <1>6 DEF Terminate, Fail, SizeInv
<1>7. CASE UNCHANGED vars
  BY <1>3, <1>7 DEF vars, binding, native, Delivered
<1> QED BY <1>1, <1>2, <1>4, <1>5, <1>6, <1>7 DEF Next

\* The count is right in every reachable state.
LEMMA SizeCounted == Spec => []SizeInv
<1>1. Init => SizeInv
  BY DEF Init, SizeInv
<1> QED BY <1>1, Invariance, NextPreservesSize, PTL DEF Spec

-----------------------------------------------------------------------------
(* What callers see.                                                       *)

\* A stream has one request or final response, behind interim responses only
\* and before trailers only, also when blocks were rejected or their stream was
\* reset (_headers_received, _push_promise_received).
THEOREM Ordered == Spec => []MessageOrder
BY Invariance, PTL DEF IInv

\* An event holds the fields of its block and no others, whatever was left of
\* blocks before it (_begin_headers, _header, _discard_pending_state).
THEOREM Intact == Spec => BlockIntact
<1>1. IInv /\ [Next]_vars => [events' # events =>
        Last(events').headers = fields /\ Last(events').stream = block]_vars
  <2> SUFFICES ASSUME IInv, Next, events' # events
               PROVE  Last(events').headers = fields /\ Last(events').stream = block
    OBVIOUS
  <2>1. /\ EndBlock /\ ~ignored /\ state[block] = "open"
        /\ events' = Append(events, Event(Kind, block, current))
    BY DEF Next, BeginBlock, ResetStream, StreamClosed, Header, RejectHeader, EndBlock, Terminate,
           Fail, FrameReceived, binding, native
  <2>2. current = fields
    BY <2>1 DEF EndBlock, IInv, BlockInv, Delivered
  <2>3. Last(events') = Event(Kind, block, current)
    BY <2>1, AppendProperties DEF Last, IInv, TypeOK
  <2> QED BY <2>2, <2>3 DEF Event
<1> QED BY <1>1, Invariance, PTL DEF Spec, BlockIntact

\* A field of a delivered block is kept if and only if its block, with it, is
\* within both limits, whatever blocks came before (_header, _begin_headers).
THEOREM Limited == Spec => LimitsExact
<1>1. IInv /\ SizeInv /\ [Next]_vars => [fields' # fields /\ fields' # <<>> /\ Delivered =>
        (conn' = "active" <=> Len(fields') <= MaxCount /\ SizeOf(fields') <= MaxSize)]_vars
  <2> SUFFICES ASSUME IInv, SizeInv, Next, fields' # fields, fields' # <<>>, Delivered
               PROVE  conn' = "active" <=> Len(fields') <= MaxCount /\ SizeOf(fields') <= MaxSize
    OBVIOUS
  <2>1. PICK f \in Fields : Header(f)
    BY DEF Next, BeginBlock, ResetStream, StreamClosed, RejectHeader, EndBlock, Terminate, native
  <2>2. /\ conn = "active" /\ block # NoBlock /\ fields' = Append(fields, f)
        /\ IF SizeExceeded(f) \/ CountExceeded THEN conn' = "failed" ELSE conn' = conn
    BY <2>1 DEF Header, Fail
  <2>3. fields \in Seq(Fields) /\ current = fields /\ size \in Nat /\ f.size \in Nat
    <3>1. fields \in Seq(Fields) /\ size \in Nat
      BY Limits DEF IInv, TypeOK
    <3>2. current = fields
      BY <2>2 DEF IInv, BlockInv
    <3>3. f.size \in Nat
      BY Limits DEF Fields
    <3> QED BY <3>1, <3>2, <3>3
  <2>4. Len(fields') = Len(fields) + 1 /\ Len(fields) \in Nat
    BY <2>2, <2>3, AppendProperties, LenProperties
  <2>5. SizeOf(fields') = size + f.size + Overhead
    BY <2>2, <2>3, SizeGrows DEF SizeInv
  <2>6. CountExceeded <=> ~(Len(fields') <= MaxCount)
    BY <2>3, <2>4, HeaderBlocksAssumption DEF CountExceeded
  <2>7. SizeExceeded(f) <=> ~(SizeOf(fields') <= MaxSize)
    BY <2>3, <2>5, Limits DEF SizeExceeded
  <2> QED BY <2>2, <2>6, <2>7
<1> QED BY <1>1, Invariance, SizeCounted, PTL DEF Spec, LimitsExact
=============================================================================
