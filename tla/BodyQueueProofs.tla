--------------------------- MODULE BodyQueueProofs ---------------------------
(***************************************************************************)
(* Proofs about BodyQueue for every set of streams, every compaction       *)
(* threshold and every frame size.                                         *)
(***************************************************************************)
EXTENDS BodyQueue, SequenceTheorems, FiniteSetTheorems, TLAPS

(***************************************************************************)
(* What the operations do to one queue that holds the positions from ..    *)
(* to - 1.                                                                 *)
(***************************************************************************)

\* send_data() extends the range the queue holds by the bytes it was given.
LEMMA PutExtends ==
  ASSUME NEW b \in BodySource, NEW from \in Nat, NEW to \in Nat, Holds(b, from, to),
         NEW n \in Nat, NEW last \in BOOLEAN
  PROVE  /\ Put(b, to, n, last) \in BodySource
         /\ Holds(Put(b, to, n, last), from, to + n)
         /\ Put(b, to, n, last).queued = b.queued + n
         /\ Put(b, to, n, last).head = b.head
<1> DEFINE c == [lo |-> to, hi |-> to + n]
           p == Put(b, to, n, last)
<1>1. /\ b.chunks \in Seq(Chunk \cup {None})
      /\ b.head \in Nat /\ b.offset \in Nat /\ b.queued \in Nat
  BY DEF BodySource
<1>2. c \in Chunk
  BY DEF Chunk
<1>3. CASE n = 0
  <2>1. /\ p.chunks = b.chunks /\ p.head = b.head /\ p.offset = b.offset
        /\ p.queued = b.queued /\ p.ended = last
    BY <1>1, <1>3 DEF Put, Source, BodySource
  <2>2. p \in BodySource
    BY <1>1, <1>3 DEF Put, Source, BodySource
  <2>3. Holds(p, from, to + n)
    <3>1. to + n = to
      BY <1>3
    <3> HIDE DEF p
    <3> QED BY <2>1, <3>1 DEF Holds, Drained
  <2> QED BY <1>1, <1>3, <2>1, <2>2, <2>3
<1>4. CASE n # 0
  <2>1. /\ p.chunks = Append(b.chunks, c) /\ p.head = b.head /\ p.offset = b.offset
        /\ p.queued = b.queued + n /\ p.ended = last
    BY <1>4 DEF Put, Source, BodySource
  <2>2. Append(b.chunks, c) \in Seq(Chunk \cup {None})
    BY <1>1, <1>2
  <2>3. p \in BodySource
    BY <1>1, <1>4, <2>2 DEF Put, Source, BodySource
  <2>4. /\ Len(p.chunks) = Len(b.chunks) + 1
        /\ p.chunks[Len(b.chunks) + 1] = c
        /\ \A i \in 1 .. Len(b.chunks) : p.chunks[i] = b.chunks[i]
    <3> HIDE DEF p, c
    <3> QED BY <1>1, <1>2, <2>1
  <2>5. p.head = b.head /\ p.offset = b.offset /\ p.queued = b.queued + n
    BY <2>1
  <2>6. Holds(p, from, to + n)
    <3>1. b.head <= Len(b.chunks) /\ Len(b.chunks) \in Nat
      BY <1>1 DEF Holds
    <3>2. c.lo = to /\ c.hi = to + n /\ c.lo < c.hi
      BY <1>4
    <3> HIDE DEF p, c
    <3>3. ASSUME NEW i \in p.head + 1 .. Len(p.chunks)
          PROVE  /\ p.chunks[i] \in Chunk
                 /\ p.chunks[i].lo < p.chunks[i].hi
                 /\ p.chunks[i].hi <= to + n
                 /\ i < Len(p.chunks) => p.chunks[i].hi = p.chunks[i + 1].lo
      <4>1. CASE i = Len(b.chunks) + 1
        BY <4>1, <1>2, <2>4, <3>1, <3>2
      <4>2. CASE i = Len(b.chunks)
        <5>1. i \in b.head + 1 .. Len(b.chunks) /\ ~Drained(b)
          BY <4>2, <2>5, <3>1, <1>1 DEF Drained
        <5>2. b.chunks[i] \in Chunk /\ b.chunks[i].lo < b.chunks[i].hi
              /\ b.chunks[i].hi = to
          BY <5>1, <4>2 DEF Holds
        <5>3. i \in 1 .. Len(b.chunks) /\ i + 1 = Len(b.chunks) + 1
          BY <4>2, <5>1, <3>1, <1>1
        <5>4. p.chunks[i] = b.chunks[i] /\ p.chunks[i + 1] = c
          BY <5>3, <2>4
        <5> QED BY <5>2, <5>4, <3>2
      <4>3. CASE i < Len(b.chunks)
        <5>1. i \in b.head + 1 .. Len(b.chunks) /\ i \in 1 .. Len(b.chunks)
              /\ i + 1 \in 1 .. Len(b.chunks)
          BY <4>3, <2>5, <3>1, <1>1
        <5>2. /\ b.chunks[i] \in Chunk /\ b.chunks[i].lo < b.chunks[i].hi
              /\ b.chunks[i].hi <= to /\ b.chunks[i].hi = b.chunks[i + 1].lo
          BY <5>1, <4>3 DEF Holds
        <5>3. b.chunks[i].hi \in Nat
          BY <5>2 DEF Chunk
        <5>4. p.chunks[i] = b.chunks[i] /\ p.chunks[i + 1] = b.chunks[i + 1]
          BY <5>1, <2>4
        <5> QED BY <5>2, <5>3, <5>4
      <4> QED BY <4>1, <4>2, <4>3, <2>4, <2>5, <3>1, <1>1
    <3>4. ~Drained(p)
      BY <1>1, <2>4, <2>5, <3>1 DEF Drained
    <3>5. /\ p.chunks[p.head + 1].lo + p.offset = from
          /\ from < p.chunks[p.head + 1].hi
      <4>1. CASE Drained(b)
        BY <4>1, <2>4, <2>5, <3>2, <1>1, <1>4 DEF Holds, Drained
      <4>2. CASE ~Drained(b)
        <5>1. p.head + 1 \in 1 .. Len(b.chunks)
          BY <4>2, <2>5, <3>1, <1>1 DEF Drained
        <5> QED BY <4>2, <5>1, <2>4, <2>5 DEF Holds
      <4> QED BY <4>1, <4>2
    <3>6. p.chunks[Len(p.chunks)].hi = to + n
      BY <2>4, <3>2
    <3>7. p.head <= Len(p.chunks)
      BY <1>1, <2>4, <2>5, <3>1
    <3> QED BY <3>3, <3>4, <3>5, <3>6, <3>7 DEF Holds
  <2> QED BY <2>3, <2>5, <2>6
<1> QED BY <1>1, <1>3, <1>4 DEF BodySource

\* An iteration of the copy loop takes at least one byte, at most what the
\* caller asked for and never more than is queued.
LEMMA TakeBounds ==
  ASSUME NEW b \in BodySource, NEW from \in Nat, NEW to \in Nat, Holds(b, from, to),
         ~Drained(b), NEW length \in Nat, length > 0
  PROVE  /\ Take(b, length) \in 1 .. length
         /\ from + Take(b, length) <= to
         /\ b.offset + Take(b, length) <= b.chunks[b.head + 1].hi - b.chunks[b.head + 1].lo
         /\ b.head + 1 \in 1 .. Len(b.chunks)
         /\ b.chunks[b.head + 1] \in Chunk
<1> DEFINE c == b.chunks[b.head + 1]
<1>1. b.chunks \in Seq(Chunk \cup {None}) /\ b.head \in Nat /\ b.offset \in Nat
  BY DEF BodySource
<1>2. b.head + 1 \in 1 .. Len(b.chunks) /\ b.head + 1 \in b.head + 1 .. Len(b.chunks)
  BY <1>1 DEF Holds, Drained
<1>3. c \in Chunk /\ c.hi <= to /\ c.lo + b.offset = from /\ from < c.hi
  BY <1>2 DEF Holds
<1>4. c.lo \in Nat /\ c.hi \in Nat
  BY <1>3 DEF Chunk
<1>5. Take(b, length) = Least(c.hi - c.lo - b.offset, length)
  BY DEF Take
<1> HIDE DEF c
<1>6. /\ Take(b, length) \in 1 .. length
      /\ from + Take(b, length) <= to
      /\ b.offset + Take(b, length) <= c.hi - c.lo
  <2> DEFINE room == c.hi - c.lo - b.offset
             t == Take(b, length)
  <2>1. b.offset \in Nat
    BY <1>1
  <2>2. room \in Nat /\ room >= 1 /\ from + room = c.hi /\ b.offset + room = c.hi - c.lo
    BY <1>3, <1>4, <2>1
  <2>3. t = IF room <= length THEN room ELSE length
    BY <1>5 DEF Least
  <2>4. c.hi <= to
    BY <1>3
  <2> HIDE DEF room, t
  <2>5. t \in 1 .. length /\ t <= room
    BY <2>2, <2>3
  <2>6. from + t <= from + room /\ b.offset + t <= b.offset + room
    BY <2>1, <2>2, <2>5
  <2>7. from + t <= to
    BY <1>4, <2>2, <2>4, <2>5, <2>6
  <2> QED BY <2>2, <2>5, <2>6, <2>7 DEF t
<1> QED BY <1>2, <1>3, <1>6 DEF c

\* An iteration takes the first "take" positions the queue holds, whether it
\* splits the chunk or releases its slot.
LEMMA StepAdvances ==
  ASSUME NEW b \in BodySource, NEW from \in Nat, NEW to \in Nat, Holds(b, from, to),
         ~Drained(b), b.queued = to - from,
         NEW length \in Nat, length > 0,
         NEW take, take = Take(b, length)
  PROVE  /\ CopyStep(b, take) \in BodySource
         /\ Holds(CopyStep(b, take), from + take, to)
         /\ CopyStep(b, take).queued = b.queued - take
         /\ CopyStep(b, take).ended = b.ended
<1> DEFINE c == b.chunks[b.head + 1]
           p == CopyStep(b, take)
<1>1. /\ b.chunks \in Seq(Chunk \cup {None}) /\ b.head \in Nat /\ b.offset \in Nat
      /\ b.queued \in Nat /\ b.ended \in BOOLEAN /\ Len(b.chunks) \in Nat
  BY DEF BodySource
<1>2. /\ take \in 1 .. length /\ from + take <= to /\ b.offset + take <= c.hi - c.lo
      /\ b.head + 1 \in 1 .. Len(b.chunks) /\ c \in Chunk
  BY TakeBounds
<1>3. c.lo \in Nat /\ c.hi \in Nat /\ take \in Nat
  BY <1>2 DEF Chunk
<1>4. c.lo + b.offset = from /\ from < c.hi /\ b.head <= Len(b.chunks)
  BY DEF Holds
<1>5. b.queued - take \in Nat
  <2>1. take \in Nat /\ from + take <= to
    BY <1>2, <1>3
  <2> QED BY <2>1
<1>6. CASE b.offset + take = c.hi - c.lo
  <2> DEFINE q == [b.chunks EXCEPT ![b.head + 1] = None]
  <2>1. p = Source(q, b.head + 1, 0, b.queued - take, b.ended)
    BY <1>6 DEF CopyStep
  <2>2. /\ p.chunks = q /\ p.head = b.head + 1
        /\ p.offset = 0 /\ p.queued = b.queued - take /\ p.ended = b.ended
    BY <2>1 DEF Source
  <2>3. /\ q \in Seq(Chunk \cup {None}) /\ Len(q) = Len(b.chunks)
        /\ \A i \in 1 .. Len(b.chunks) : q[i] = IF i = b.head + 1 THEN None ELSE b.chunks[i]
    <3>1. b.chunks \in Seq(Chunk \cup {None}) /\ b.head + 1 \in 1 .. Len(b.chunks)
      BY <1>1, <1>2
    <3>2. None \in Chunk \cup {None}
      OBVIOUS
    <3> QED BY <3>1, <3>2, ExceptSeq
  <2> HIDE DEF q
  <2>4. p \in BodySource
    BY <1>1, <1>5, <2>1, <2>3 DEF Source, BodySource
  <2>5. \A i \in b.head + 2 .. Len(b.chunks) : p.chunks[i] = b.chunks[i]
    <3>1. b.head \in Nat /\ Len(b.chunks) \in Nat
      BY <1>1
    <3>2. ASSUME NEW i \in b.head + 2 .. Len(b.chunks)
          PROVE  i \in 1 .. Len(b.chunks) /\ i # b.head + 1
      BY <3>1
    <3> QED BY <2>2, <2>3, <3>2
  <2> HIDE DEF p, c
  <2>6. from + take = c.hi
    <3>1. b.offset \in Nat /\ c.lo \in Nat /\ c.hi \in Nat /\ take \in Nat
      BY <1>1, <1>3
    <3>2. from = c.lo + b.offset
      BY <1>4
    <3>3. c.lo + b.offset + take = c.hi
      BY <1>6, <3>1
    <3> QED BY <3>2, <3>3
  <2>7. p.head <= Len(p.chunks)
    BY <1>1, <1>2, <2>2, <2>3
  <2>8. ASSUME NEW i \in p.head + 1 .. Len(p.chunks)
        PROVE  /\ p.chunks[i] \in Chunk
               /\ p.chunks[i].lo < p.chunks[i].hi
               /\ p.chunks[i].hi <= to
               /\ i < Len(p.chunks) => p.chunks[i].hi = p.chunks[i + 1].lo
    <3>1. i \in b.head + 2 .. Len(b.chunks) /\ i \in b.head + 1 .. Len(b.chunks)
          /\ (i < Len(p.chunks) => i + 1 \in b.head + 2 .. Len(b.chunks))
      <4>1. b.head \in Nat /\ Len(b.chunks) \in Nat
        BY <1>1
      <4>2. p.head = b.head + 1 /\ Len(p.chunks) = Len(b.chunks)
        BY <2>2, <2>3
      <4> DEFINE h == b.head
                 n == Len(b.chunks)
      <4>3. h \in Nat /\ n \in Nat /\ i \in h + 1 + 1 .. n
        BY <4>1, <4>2
      <4> HIDE DEF h, n
      <4>4. i \in h + 2 .. n /\ i \in h + 1 .. n /\ (i < n => i + 1 \in h + 2 .. n)
        BY <4>3
      <4> QED BY <4>2, <4>4 DEF h, n
    <3>2. /\ b.chunks[i] \in Chunk /\ b.chunks[i].lo < b.chunks[i].hi
          /\ b.chunks[i].hi <= to
          /\ (i < Len(b.chunks) => b.chunks[i].hi = b.chunks[i + 1].lo)
      BY <3>1 DEF Holds
    <3> QED BY <3>1, <3>2, <2>2, <2>3, <2>5
  <2>9. CASE b.head + 1 = Len(b.chunks)
    <3>1. Drained(p)
      BY <2>2, <2>3, <2>9 DEF Drained
    <3>2. c.hi = to
      BY <2>9 DEF Holds, c
    <3>3. Holds(p, from + take, to)
      BY <2>2, <2>6, <2>7, <2>8, <3>1, <3>2 DEF Holds
    <3> QED BY <2>2, <2>4, <3>3 DEF p
  <2>10. CASE b.head + 1 # Len(b.chunks)
    <3> DEFINE d == b.chunks[b.head + 2]
    <3>0. b.head \in Nat /\ Len(b.chunks) \in Nat /\ b.head + 1 < Len(b.chunks)
      BY <1>1, <1>2, <2>10
    <3>1. /\ b.head + 1 < Len(b.chunks) /\ b.head + 2 \in b.head + 2 .. Len(b.chunks)
          /\ b.head + 1 \in b.head + 1 .. Len(b.chunks)
          /\ b.head + 2 \in b.head + 1 .. Len(b.chunks)
          /\ Len(b.chunks) \in b.head + 2 .. Len(b.chunks)
          /\ b.head + 1 + 1 = b.head + 2
      <4> DEFINE h == b.head
                 n == Len(b.chunks)
      <4>1. h \in Nat /\ n \in Nat /\ h + 1 < n
        BY <3>0
      <4> HIDE DEF h, n
      <4>2. /\ h + 1 < n /\ h + 2 \in h + 2 .. n /\ h + 1 \in h + 1 .. n
            /\ h + 2 \in h + 1 .. n /\ n \in h + 2 .. n /\ h + 1 + 1 = h + 2
        BY <4>1
      <4> QED BY <4>2 DEF h, n
    <3>2. c.hi = d.lo /\ d.lo < d.hi /\ d \in Chunk
      BY <3>1 DEF Holds, c
    <3>3. ~Drained(p)
      BY <1>1, <2>2, <2>3, <3>1 DEF Drained
    <3>4. b.chunks[Len(b.chunks)].hi = to
      BY DEF Holds
    <3>5. p.chunks[p.head + 1] = d /\ p.chunks[Len(p.chunks)].hi = to
      BY <2>2, <2>3, <2>5, <3>1, <3>4
    <3> HIDE DEF d
    <3>6. d.lo \in Nat /\ d.lo + p.offset = from + take /\ from + take < d.hi
      BY <2>2, <2>6, <3>2 DEF Chunk
    <3>7. Holds(p, from + take, to)
      BY <2>7, <2>8, <3>3, <3>5, <3>6 DEF Holds
    <3> QED BY <2>2, <2>4, <3>7 DEF p
  <2> QED BY <2>9, <2>10
<1>7. CASE b.offset + take # c.hi - c.lo
  <2>1. p = Source(b.chunks, b.head, b.offset + take, b.queued - take, b.ended)
    BY <1>7 DEF CopyStep
  <2>2. /\ p.chunks = b.chunks /\ p.head = b.head /\ p.offset = b.offset + take
        /\ p.queued = b.queued - take /\ p.ended = b.ended
    BY <2>1 DEF Source
  <2>3. p \in BodySource
    <3>1. b.offset + take \in Nat
      BY <1>1, <1>3
    <3> HIDE DEF p, c
    <3> QED BY <1>1, <1>5, <2>1, <3>1 DEF Source, BodySource
  <2> HIDE DEF p, c
  <2>4. c.lo + p.offset = from + take /\ from + take < c.hi
    <3>1. b.offset \in Nat /\ b.offset + take <= c.hi - c.lo
      BY <1>1, <1>2
    <3>2. b.offset + take < c.hi - c.lo
      BY <1>3, <1>7, <3>1
    <3>3. p.offset = b.offset + take
      BY <2>2
    <3>4. c.lo + b.offset = from /\ c.lo + (b.offset + take) = from + take
      BY <1>3, <1>4, <3>1
    <3> QED BY <1>3, <3>1, <3>2, <3>3, <3>4
  <2>5. ~Drained(p)
    BY <2>2 DEF Drained
  <2>6. p.chunks[p.head + 1] = c
    BY <2>2 DEF c
  <2>7. Holds(p, from + take, to)
    BY <2>2, <2>4, <2>5, <2>6 DEF Holds
  <2> QED BY <2>2, <2>3, <2>7 DEF p
<1> QED BY <1>6, <1>7

\* Clearing or compacting the list keeps what it holds, and leaves fewer dead
\* slots than the threshold or than half the list.
LEMMA ReclaimKeeps ==
  ASSUME NEW b \in BodySource, NEW from \in Nat, NEW to \in Nat, Holds(b, from, to)
  PROVE  /\ Reclaim(b) \in BodySource
         /\ Holds(Reclaim(b), from, to)
         /\ Reclaim(b).queued = b.queued
         /\ Reclaim(b).ended = b.ended
         /\ Drained(Reclaim(b)) <=> Drained(b)
         /\ \/ Reclaim(b).head = 0
            \/ Reclaim(b) = b /\ (b.head < CompactAt \/ 2 * b.head < Len(b.chunks))
<1> DEFINE r == Reclaim(b)
<1>1. /\ b.chunks \in Seq(Chunk \cup {None}) /\ b.head \in Nat /\ b.offset \in Nat
      /\ b.queued \in Nat /\ b.ended \in BOOLEAN /\ Len(b.chunks) \in Nat
      /\ CompactAt \in Nat
  BY BodyQueueAssumption DEF BodySource
<1>2. CASE Drained(b)
  <2>1. r = Source(<<>>, 0, b.offset, b.queued, b.ended)
    BY <1>2 DEF Reclaim
  <2>2. /\ r.chunks = <<>> /\ r.head = 0 /\ r.offset = b.offset
        /\ r.queued = b.queued /\ r.ended = b.ended
    BY <2>1 DEF Source
  <2>3. r \in BodySource
    BY <1>1, <2>1 DEF Source, BodySource
  <2> HIDE DEF r
  <2>4. Len(r.chunks) = 0 /\ Drained(r)
    BY <2>2 DEF Drained
  <2>5. from = to /\ b.offset = 0
    BY <1>2 DEF Holds
  <2>6. Holds(r, from, to)
    BY <2>2, <2>4, <2>5 DEF Holds
  <2> QED BY <1>2, <2>2, <2>3, <2>4, <2>6 DEF r
<1>3. CASE ~Drained(b) /\ b.head >= CompactAt /\ 2 * b.head >= Len(b.chunks)
  <2> DEFINE q == SubSeq(b.chunks, b.head + 1, Len(b.chunks))
  <2>1. r = Source(q, 0, b.offset, b.queued, b.ended)
    BY <1>3 DEF Reclaim
  <2>2. /\ r.chunks = q /\ r.head = 0 /\ r.offset = b.offset
        /\ r.queued = b.queued /\ r.ended = b.ended
    <3> HIDE DEF q, r
    <3> QED BY <2>1 DEF Source
  <2>3. b.head < Len(b.chunks)
    BY <1>1, <1>3 DEF Holds, Drained
  <2>4. /\ q \in Seq(Chunk \cup {None})
        /\ Len(q) = Len(b.chunks) - b.head
        /\ \A i \in 1 .. Len(b.chunks) - b.head : q[i] = b.chunks[i + b.head]
    <3>1. /\ b.head + 1 \in Int /\ Len(b.chunks) \in Int
          /\ \A i \in b.head + 1 .. Len(b.chunks) : b.chunks[i] \in Chunk \cup {None}
      BY <1>1
    <3>2. /\ q \in Seq(Chunk \cup {None})
          /\ Len(q) = IF b.head + 1 <= Len(b.chunks) THEN Len(b.chunks) - (b.head + 1) + 1 ELSE 0
          /\ \A i \in 1 .. Len(b.chunks) - (b.head + 1) + 1 : q[i] = b.chunks[b.head + 1 + i - 1]
      <4> DEFINE S == Chunk \cup {None}
                 u == b.chunks
                 h == b.head + 1
                 n == Len(b.chunks)
      <4>1. u \in Seq(S) /\ h \in Int /\ n \in Int /\ \A i \in h .. n : u[i] \in S
        BY <1>1, <3>1
      <4>2. q = SubSeq(u, h, n)
        OBVIOUS
      <4> HIDE DEF q, S, u, h, n
      <4>3. /\ q \in Seq(S) /\ Len(q) = IF h <= n THEN n - h + 1 ELSE 0
            /\ \A i \in 1 .. n - h + 1 : q[i] = u[h + i - 1]
        BY <4>1, <4>2, SubSeqProperties
      <4> QED BY <4>3 DEF S, u, h, n
    <3> HIDE DEF q
    <3>3. ASSUME NEW i \in 1 .. Len(b.chunks) - b.head
          PROVE  q[i] = b.chunks[i + b.head]
      <4>1. i \in 1 .. Len(b.chunks) - (b.head + 1) + 1 /\ b.head + 1 + i - 1 = i + b.head
        BY <1>1
      <4> QED BY <3>2, <4>1
    <3> QED BY <1>1, <2>3, <3>2, <3>3
  <2>5. r \in BodySource
    BY <1>1, <2>1, <2>4 DEF Source, BodySource
  <2> HIDE DEF r, q
  <2>6. ~Drained(r)
    BY <1>1, <2>2, <2>3, <2>4 DEF Drained
  <2>7. ASSUME NEW i \in r.head + 1 .. Len(r.chunks)
        PROVE  /\ r.chunks[i] \in Chunk
               /\ r.chunks[i].lo < r.chunks[i].hi
               /\ r.chunks[i].hi <= to
               /\ i < Len(r.chunks) => r.chunks[i].hi = r.chunks[i + 1].lo
    <3> DEFINE j == i + b.head
    <3>0. /\ b.head \in Nat /\ Len(b.chunks) \in Nat /\ b.head < Len(b.chunks)
          /\ r.head = 0 /\ Len(r.chunks) = Len(b.chunks) - b.head
      BY <1>1, <2>2, <2>3, <2>4
    <3>1. /\ i \in 1 .. Len(b.chunks) - b.head /\ j \in b.head + 1 .. Len(b.chunks)
          /\ (i < Len(r.chunks) => i + 1 \in 1 .. Len(b.chunks) - b.head /\ j < Len(b.chunks))
          /\ i + 1 + b.head = j + 1
      <4> DEFINE h == b.head
                 n == Len(b.chunks)
                 m == Len(r.chunks)
      <4>1. h \in Nat /\ n \in Nat /\ h < n /\ m = n - h /\ i \in 1 .. m
        BY <3>0
      <4> HIDE DEF h, n, m
      <4>2. /\ i \in 1 .. n - h /\ i + h \in h + 1 .. n /\ i + 1 + h = i + h + 1
            /\ (i < m => i + 1 \in 1 .. n - h /\ i + h < n)
        BY <4>1
      <4> QED BY <4>2 DEF h, n, m
    <3>2. r.chunks[i] = b.chunks[j] /\ (i < Len(r.chunks) => r.chunks[i + 1] = b.chunks[j + 1])
      BY <2>2, <2>4, <3>1
    <3>3. /\ b.chunks[j] \in Chunk /\ b.chunks[j].lo < b.chunks[j].hi
          /\ b.chunks[j].hi <= to
          /\ (j < Len(b.chunks) => b.chunks[j].hi = b.chunks[j + 1].lo)
      BY <3>1 DEF Holds
    <3> HIDE DEF j
    <3> QED BY <3>1, <3>2, <3>3
  <2>8. /\ r.chunks[r.head + 1] = b.chunks[b.head + 1]
        /\ r.chunks[Len(r.chunks)] = b.chunks[Len(b.chunks)]
    <3> DEFINE n == Len(b.chunks) - b.head
    <3>0. b.head \in Nat /\ Len(b.chunks) \in Nat /\ b.head < Len(b.chunks)
      BY <1>1, <2>3
    <3>1. 1 \in 1 .. n /\ n \in 1 .. n /\ 1 + b.head = b.head + 1 /\ n + b.head = Len(b.chunks)
      BY <3>0
    <3>2. Len(q) = n /\ \A i \in 1 .. n : q[i] = b.chunks[i + b.head]
      BY <2>4
    <3>3. r.chunks = q /\ r.head + 1 = 1
      BY <2>2
    <3> HIDE DEF n
    <3>4. q[1] = b.chunks[1 + b.head] /\ q[n] = b.chunks[n + b.head]
      BY <3>1, <3>2
    <3> QED BY <3>1, <3>2, <3>3, <3>4
  <2>9. /\ b.chunks[b.head + 1].lo + b.offset = from /\ from < b.chunks[b.head + 1].hi
        /\ b.chunks[Len(b.chunks)].hi = to
    BY <1>3 DEF Holds
  <2>10. r.head <= Len(r.chunks)
    BY <1>1, <2>2, <2>3, <2>4
  <2>11. Holds(r, from, to)
    BY <2>2, <2>6, <2>7, <2>8, <2>9, <2>10 DEF Holds
  <2> QED BY <1>3, <2>2, <2>5, <2>6, <2>11 DEF r
<1>4. CASE ~Drained(b) /\ ~(b.head >= CompactAt /\ 2 * b.head >= Len(b.chunks))
  <2>1. r = b
    BY <1>4 DEF Reclaim
  <2>2. b.head < CompactAt \/ 2 * b.head < Len(b.chunks)
    BY <1>1, <1>4
  <2> QED BY <2>1, <2>2
<1> QED BY <1>2, <1>3, <1>4

\* A queue whose chunks agree with its counter is drained when the counter is 0.
LEMMA DrainedIsEmpty ==
  ASSUME NEW b \in BodySource, NEW from \in Nat, NEW to \in Nat, Holds(b, from, to),
         b.queued = to - from
  PROVE  Drained(b) <=> b.queued = 0
<1>1. CASE Drained(b)
  BY <1>1 DEF Holds
<1>2. CASE ~Drained(b)
  <2>1. b.head \in Nat /\ Len(b.chunks) \in Nat /\ b.head < Len(b.chunks)
    BY <1>2 DEF BodySource, Holds, Drained
  <2>2. b.head + 1 \in b.head + 1 .. Len(b.chunks)
    BY <2>1
  <2>3. /\ b.chunks[b.head + 1] \in Chunk /\ b.chunks[b.head + 1].hi <= to
        /\ from < b.chunks[b.head + 1].hi
    BY <1>2, <2>2 DEF Holds
  <2>4. b.chunks[b.head + 1].hi \in Nat
    BY <2>3 DEF Chunk
  <2> QED BY <1>2, <2>3, <2>4
<1> QED BY <1>1, <1>2

\* Storing a chunk, taking bytes and reclaiming keep consumed slots empty; a
\* reclaimed list has few dead slots.
LEMMA PutReleased ==
  ASSUME NEW b \in BodySource, NEW to \in Nat, NEW n \in Nat, NEW last \in BOOLEAN,
         b.head <= Len(b.chunks), Released(b)
  PROVE  /\ Released(Put(b, to, n, last))
         /\ FewDead(b) => FewDead(Put(b, to, n, last))
<1> DEFINE c == [lo |-> to, hi |-> to + n]
           p == Put(b, to, n, last)
<1>1. b.chunks \in Seq(Chunk \cup {None}) /\ b.head \in Nat /\ Len(b.chunks) \in Nat
      /\ CompactAt \in Nat
  BY BodyQueueAssumption DEF BodySource
<1>2. p.head = b.head /\ p.chunks = IF n = 0 THEN b.chunks ELSE Append(b.chunks, c)
  BY DEF Put, Source
<1>3. CASE n = 0
  BY <1>2, <1>3 DEF Released, FewDead
<1>4. CASE n # 0
  <2>1. c \in Chunk
    BY DEF Chunk
  <2> HIDE DEF c, p
  <2>2. /\ Len(p.chunks) = Len(b.chunks) + 1
        /\ \A i \in 1 .. Len(b.chunks) : p.chunks[i] = b.chunks[i]
    BY <1>1, <1>2, <1>4, <2>1
  <2>3. \A i \in 1 .. b.head : i \in 1 .. Len(b.chunks)
    BY <1>1
  <2>4. Released(p)
    BY <1>2, <2>2, <2>3 DEF Released
  <2>5. FewDead(b) => FewDead(p)
    BY <1>1, <1>2, <2>2 DEF FewDead
  <2> QED BY <2>4, <2>5 DEF p
<1> QED BY <1>3, <1>4

\* An iteration of the copy loop empties the slot it moves past.
LEMMA StepReleased ==
  ASSUME NEW b \in BodySource, NEW take, b.head + 1 \in 1 .. Len(b.chunks), Released(b)
  PROVE  Released(CopyStep(b, take))
<1> DEFINE q == [b.chunks EXCEPT ![b.head + 1] = None]
           p == CopyStep(b, take)
<1>1. b.chunks \in Seq(Chunk \cup {None}) /\ b.head \in Nat /\ Len(b.chunks) \in Nat
  BY DEF BodySource
<1>2. \/ p.chunks = b.chunks /\ p.head = b.head
      \/ p.chunks = q /\ p.head = b.head + 1
  BY DEF CopyStep, Source
<1>3. \A i \in 1 .. Len(b.chunks) : q[i] = IF i = b.head + 1 THEN None ELSE b.chunks[i]
  BY <1>1, ExceptSeq
<1> HIDE DEF p, q
<1>4. ASSUME p.chunks = q, p.head = b.head + 1, NEW i \in 1 .. p.head
      PROVE  p.chunks[i] = None
  <2>1. i \in 1 .. Len(b.chunks) /\ (i = b.head + 1 \/ i \in 1 .. b.head)
    BY <1>1, <1>4
  <2> QED BY <1>3, <1>4, <2>1 DEF Released
<1>5. Released(p)
  BY <1>2, <1>4 DEF Released
<1> QED BY <1>5 DEF p

\* Reclaiming leaves only empty slots in front of head, and few of them.
LEMMA ReclaimReleased ==
  ASSUME NEW b \in BodySource, NEW from \in Nat, NEW to \in Nat, Holds(b, from, to),
         Released(b)
  PROVE  Released(Reclaim(b)) /\ FewDead(Reclaim(b))
<1>1. CASE Reclaim(b).head = 0
  <2>1. \A i \in 1 .. 0 : Reclaim(b).chunks[i] = None
    OBVIOUS
  <2> QED BY <1>1, <2>1, BodyQueueAssumption DEF Released, FewDead
<1>2. CASE Reclaim(b) = b /\ (b.head < CompactAt \/ 2 * b.head < Len(b.chunks))
  BY <1>2 DEF FewDead
<1> QED BY <1>1, <1>2, ReclaimKeeps

(***************************************************************************)
(* The inductive invariant.  The properties of BodyQueue speak of a queue  *)
(* at rest; the induction also needs what the copy loop still owes the     *)
(* frame it is filling, and how the flags of a queue match its history.    *)
(***************************************************************************)
QueueInv ==
    \A s \in bodies :
        /\ Holds(body[s], sent[s], accepted[s])
        /\ body[s].queued = accepted[s] - sent[s]

ReadInv ==
    reading # None =>
        /\ phase[reading] # "finished"
        /\ copied <= wanted
        /\ noCopy => /\ wanted - copied <= body[reading].queued
                     /\ eof <=> /\ body[reading].ended
                                /\ wanted - copied = body[reading].queued

PhaseInv ==
    \A s \in Streams :
        /\ s \in bodies => /\ phase[s] \in {"open", "ended", "finished"}
                           /\ body[s].ended <=> phase[s] # "open"
                           /\ phase[s] = "finished" => sent[s] = accepted[s]
        /\ phase[s] = "none" => s \notin bodies /\ accepted[s] = 0 /\ sent[s] = 0

IInv == TypeOK /\ QueueInv /\ ReadInv /\ PhaseInv /\ SentReleased

\* A new connection, without any queue, satisfies the inductive invariant.
THEOREM InitInv == Init => IInv
<1> SUFFICES ASSUME Init PROVE IInv
  OBVIOUS
<1>1. EmptyBody \in BodySource
  BY DEF EmptyBody, Source, BodySource
<1>2. TypeOK
  <2>1. /\ bodies \in SUBSET Streams /\ reading \in bodies \cup {None}
        /\ body \in [Streams -> BodySource]
    BY <1>1 DEF Init
  <2>2. phase \in [Streams -> {"none", "open", "ended", "finished", "cut"}]
    BY DEF Init
  <2>3. active \in BOOLEAN /\ noCopy \in BOOLEAN /\ eof \in BOOLEAN
    BY Zenon DEF Init
  <2> QED BY <2>1, <2>2, <2>3 DEF Init, TypeOK
<1>3. QueueInv /\ ReadInv /\ SentReleased
  BY DEF Init, QueueInv, ReadInv, SentReleased
<1>4. PhaseInv
  BY DEF Init, PhaseInv
<1> QED BY <1>2, <1>3, <1>4 DEF IInv

\* send_request() or send_response() with a body.
LEMMA NewBodyInv == ASSUME IInv, NEW s \in Streams, NewBody(s) PROVE IInv'
<1> USE DEF IInv
<1>1. EmptyBody \in BodySource /\ Holds(EmptyBody, 0, 0) /\ EmptyBody.queued = 0
      /\ EmptyBody.ended = FALSE /\ EmptyBody.head = 0
  BY DEF EmptyBody, Source, BodySource, Holds, Drained
<1>2. accepted[s] = 0 /\ sent[s] = 0 /\ s \notin bodies
  BY DEF NewBody, PhaseInv
<1>3. TypeOK'
  BY <1>1 DEF NewBody, TypeOK, read
<1>4. QueueInv'
  BY <1>1, <1>2 DEF NewBody, TypeOK, QueueInv
<1>5. ReadInv'
  BY DEF NewBody, ReadInv, read
<1>6. PhaseInv'
  BY <1>1, <1>2 DEF NewBody, TypeOK, PhaseInv
<1>7. Released(EmptyBody) /\ FewDead(EmptyBody)
  BY <1>1, BodyQueueAssumption DEF Released, FewDead
<1>8. SentReleased'
  BY <1>7 DEF NewBody, TypeOK, SentReleased, read
<1> QED BY <1>3, <1>4, <1>5, <1>6, <1>8

\* send_data() and end_stream().
LEMMA SendDataInv ==
  ASSUME IInv, NEW s \in Streams, NEW n \in 0 .. MaxBytes - accepted[s],
         NEW last \in BOOLEAN, SendData(s, n, last)
  PROVE  IInv'
<1> DEFINE b == body[s]
           p == Put(body[s], accepted[s], n, last)
<1>1. TypeOK /\ s \in bodies /\ ~b.ended /\ reading = None
  BY DEF IInv, SendData
<1>2. /\ b \in BodySource /\ n \in Nat /\ accepted[s] \in Nat /\ sent[s] \in Nat
      /\ MaxBytes \in Nat
  BY BodyQueueAssumption DEF IInv, TypeOK
<1>3. Holds(b, sent[s], accepted[s]) /\ b.queued = accepted[s] - sent[s]
  BY <1>1 DEF IInv, QueueInv
<1>4. /\ p \in BodySource /\ Holds(p, sent[s], accepted[s] + n)
      /\ p.queued = b.queued + n /\ p.head = b.head
  BY <1>2, <1>3, PutExtends
<1>5. p.ended = last
  BY DEF Put, Source
<1>6. Released(p) /\ FewDead(p)
  <2>1. Released(b) /\ FewDead(b)
    BY <1>1, BodyQueueAssumption DEF IInv, SentReleased, TypeOK
  <2>2. b.head <= Len(b.chunks)
    BY <1>3 DEF Holds
  <2> QED BY <1>2, <2>1, <2>2, PutReleased
<1>7. /\ body' = [body EXCEPT ![s] = p] /\ bodies' = bodies
      /\ accepted' = [accepted EXCEPT ![s] = @ + n]
      /\ phase' = [phase EXCEPT ![s] = IF last THEN "ended" ELSE @]
      /\ total' = total + n /\ UNCHANGED <<active, read, sent>>
  BY DEF SendData
<1>8. phase[s] = "open"
  BY <1>1 DEF IInv, PhaseInv
<1> HIDE DEF p
<1>9. TypeOK'
  BY <1>1, <1>2, <1>4, <1>7 DEF TypeOK, read
<1>10. QueueInv'
  BY <1>1, <1>2, <1>3, <1>4, <1>7 DEF IInv, TypeOK, QueueInv
<1>11. ReadInv'
  BY <1>1, <1>7 DEF ReadInv, read
<1>12. PhaseInv'
  BY <1>1, <1>2, <1>5, <1>7, <1>8 DEF IInv, TypeOK, PhaseInv
<1>13. SentReleased'
  BY <1>1, <1>6, <1>7 DEF IInv, TypeOK, SentReleased, read
<1> QED BY <1>9, <1>10, <1>11, <1>12, <1>13 DEF IInv

\* _read_body up to the copy, within _data_frame_length.
LEMMA ReadBodyInv ==
  ASSUME IInv, NEW s \in Streams, NEW length \in 1 .. MaxFrame, NEW whole \in BOOLEAN,
         ReadBody(s, length, whole)
  PROVE  IInv'
<1> DEFINE b == body[s]
<1>1. /\ TypeOK /\ s \in bodies /\ reading = None /\ phase[s] # "finished"
      /\ reading' = s /\ copied' = 0 /\ noCopy' = whole
      /\ wanted' = IF whole THEN Least(length, b.queued) ELSE length
      /\ eof' = (whole /\ b.ended /\ wanted' = b.queued)
      /\ UNCHANGED <<active, bodies, body, total, accepted, sent, phase>>
  BY DEF IInv, ReadBody
<1>2. b \in BodySource /\ b.queued \in Nat /\ length \in Nat
  BY <1>1, BodyQueueAssumption DEF TypeOK, BodySource
<1>3. wanted' \in Nat /\ (whole => wanted' <= b.queued)
  BY <1>1, <1>2 DEF Least
<1> HIDE DEF b
<1>4. TypeOK'
  BY <1>1, <1>3 DEF TypeOK
<1>5. ReadInv'
  <2>1. wanted' - copied' = wanted' /\ copied' <= wanted'
    BY <1>1, <1>3
  <2>2. whole => (eof' <=> b.ended /\ wanted' = b.queued)
    BY <1>1
  <2> QED BY <1>1, <1>3, <2>1, <2>2 DEF ReadInv, b
<1>6. QueueInv' /\ PhaseInv'
  BY <1>1 DEF IInv, QueueInv, PhaseInv
<1>7. SentReleased'
  BY <1>1, BodyQueueAssumption DEF IInv, SentReleased, TypeOK
<1> QED BY <1>4, <1>5, <1>6, <1>7 DEF IInv

\* One iteration of the loop of _copy_body.
LEMMA CopyChunkInv == ASSUME IInv, CopyChunk PROVE IInv'
<1> DEFINE s == reading
           b == body[reading]
           take == Take(body[reading], wanted - copied)
           p == CopyStep(body[reading], take)
<1>1. /\ TypeOK /\ s # None /\ s \in bodies /\ s \in Streams
      /\ ~Drained(b) /\ copied < wanted
  BY DEF IInv, TypeOK, CopyChunk, Copying
<1>2. /\ body' = [body EXCEPT ![s] = p] /\ total' = total - take
      /\ copied' = copied + take /\ sent' = [sent EXCEPT ![s] = @ + take]
      /\ UNCHANGED <<active, bodies, reading, noCopy, wanted, eof, accepted, phase>>
  BY DEF CopyChunk
<1>3. /\ b \in BodySource /\ accepted[s] \in Nat /\ sent[s] \in Nat
      /\ copied \in Nat /\ wanted \in Nat /\ b.queued \in Nat
  BY <1>1 DEF TypeOK, BodySource
<1>4. Holds(b, sent[s], accepted[s]) /\ b.queued = accepted[s] - sent[s]
  BY <1>1 DEF IInv, QueueInv
<1>5. wanted - copied \in Nat /\ wanted - copied > 0
  BY <1>1, <1>3
<1>6. /\ take \in 1 .. wanted - copied /\ sent[s] + take <= accepted[s]
      /\ b.head + 1 \in 1 .. Len(b.chunks)
  BY <1>1, <1>3, <1>4, <1>5, TakeBounds
<1>7. /\ p \in BodySource /\ Holds(p, sent[s] + take, accepted[s])
      /\ p.queued = b.queued - take /\ p.ended = b.ended
  BY <1>1, <1>3, <1>4, <1>5, StepAdvances
<1>8. Released(p)
  BY <1>1, <1>3, <1>6, StepReleased DEF IInv, SentReleased
<1> HIDE DEF p, take, b
<1>9. TypeOK'
  BY <1>1, <1>2, <1>3, <1>6, <1>7 DEF TypeOK
<1>10. QueueInv'
  BY <1>1, <1>2, <1>3, <1>4, <1>6, <1>7 DEF IInv, TypeOK, QueueInv
<1>11. ReadInv'
  <2>1. body'[s] = p
    BY <1>1, <1>2 DEF TypeOK
  <2>2. /\ phase[s] # "finished" /\ copied <= wanted
        /\ noCopy => /\ wanted - copied <= b.queued
                     /\ eof <=> b.ended /\ wanted - copied = b.queued
    BY <1>1 DEF IInv, ReadInv, b
  <2>3. copied' <= wanted /\ wanted - copied' = wanted - copied - take
    BY <1>2, <1>3, <1>6
  <2>4. /\ wanted - copied <= b.queued => wanted - copied' <= p.queued
        /\ wanted - copied = b.queued <=> wanted - copied' = p.queued
    <3> DEFINE rest == wanted - copied
               q == b.queued
    <3>1. rest \in Int /\ q \in Int /\ take \in Int
      BY <1>3, <1>6
    <3>2. wanted - copied' = rest - take /\ p.queued = q - take
      BY <1>7, <2>3
    <3> HIDE DEF rest, q
    <3>3. /\ rest <= q => rest - take <= q - take
          /\ rest = q <=> rest - take = q - take
      BY <3>1
    <3> QED BY <3>2, <3>3 DEF rest, q
  <2>5. noCopy => /\ wanted - copied' <= p.queued
                  /\ eof <=> p.ended /\ wanted - copied' = p.queued
    BY <1>7, <2>2, <2>4
  <2> QED BY <1>2, <2>1, <2>2, <2>3, <2>5 DEF ReadInv
<1>12. PhaseInv'
  BY <1>1, <1>2, <1>3, <1>6, <1>7 DEF IInv, TypeOK, ReadInv, PhaseInv, b
<1>13. SentReleased'
  BY <1>1, <1>2, <1>8 DEF IInv, TypeOK, SentReleased
<1> QED BY <1>9, <1>10, <1>11, <1>12, <1>13 DEF IInv

\* _discard_pending_state, even in the middle of a copy.
LEMMA DiscardInv == ASSUME IInv, Discard PROVE IInv'
<1>1. TypeOK'
  <2>1. /\ bodies' \in SUBSET Streams /\ reading' \in bodies' \cup {None}
        /\ total' \in Int
    BY DEF Discard
  <2>2. phase' \in [Streams -> {"none", "open", "ended", "finished", "cut"}]
    BY DEF IInv, Discard, TypeOK
  <2>3. active' \in BOOLEAN
    BY Zenon DEF Discard
  <2> QED BY <2>1, <2>2, <2>3 DEF IInv, Discard, TypeOK
<1>2. QueueInv' /\ ReadInv' /\ SentReleased'
  BY DEF Discard, QueueInv, ReadInv, SentReleased
<1>3. PhaseInv'
  BY DEF IInv, Discard, PhaseInv, TypeOK
<1> QED BY <1>1, <1>2, <1>3 DEF IInv

\* While the loop runs the frame is owed no more than is queued, so it can only
\* end with the frame full.
LEMMA LoopEnd ==
  ASSUME IInv, reading # None, ~Copying
  PROVE  /\ noCopy => copied = wanted
         /\ noCopy => (eof <=> Complete(body[reading]))
<1> DEFINE b == body[reading]
<1>1. /\ TypeOK /\ reading \in bodies /\ reading \in Streams
      /\ (Drained(b) \/ ~(copied < wanted))
  BY DEF IInv, TypeOK, Copying
<1>2. /\ b \in BodySource /\ accepted[reading] \in Nat /\ sent[reading] \in Nat
      /\ copied \in Nat /\ wanted \in Nat /\ b.queued \in Nat
  BY <1>1 DEF TypeOK, BodySource
<1>3. Holds(b, sent[reading], accepted[reading]) /\ b.queued = accepted[reading] - sent[reading]
  BY <1>1 DEF IInv, QueueInv
<1>4. Drained(b) <=> b.queued = 0
  BY <1>2, <1>3, DrainedIsEmpty
<1>5. /\ copied <= wanted
      /\ noCopy => /\ wanted - copied <= b.queued
                   /\ eof <=> b.ended /\ wanted - copied = b.queued
  BY DEF IInv, ReadInv
<1> HIDE DEF b
<1>6. copied = wanted \/ Drained(b)
  BY <1>1, <1>2, <1>5
<1>7. noCopy => copied = wanted
  BY <1>2, <1>4, <1>5, <1>6
<1>8. ASSUME noCopy PROVE eof <=> b.ended /\ b.queued = 0
  BY <1>2, <1>5, <1>7, <1>8
<1> QED BY <1>4, <1>7, <1>8 DEF Complete, b

\* The end of _copy_body and of _read_body or _send_body.
LEMMA CopyEndInv == ASSUME IInv, CopyEnd PROVE IInv'
<1> DEFINE s == reading
           b == body[reading]
           r == Reclaim(body[reading])
           fin == (noCopy /\ eof) \/ (~noCopy /\ Complete(r))
<1>1. /\ TypeOK /\ s # None /\ s \in bodies /\ s \in Streams /\ ~Copying
  BY DEF IInv, TypeOK, CopyEnd
<1>2. /\ b \in BodySource /\ accepted[s] \in Nat /\ sent[s] \in Nat
  BY <1>1 DEF TypeOK
<1>3. Holds(b, sent[s], accepted[s]) /\ b.queued = accepted[s] - sent[s]
  BY <1>1 DEF IInv, QueueInv
<1>4. /\ r \in BodySource /\ Holds(r, sent[s], accepted[s]) /\ r.queued = b.queued
      /\ r.ended = b.ended /\ (Drained(r) <=> Drained(b))
  BY <1>2, <1>3, ReclaimKeeps
<1>5. Released(r) /\ FewDead(r)
  BY <1>1, <1>2, <1>3, ReclaimReleased DEF IInv, SentReleased
<1>6. /\ body' = [body EXCEPT ![s] = r]
      /\ phase' = [phase EXCEPT ![s] = IF fin THEN "finished" ELSE @]
      /\ reading' = None
      /\ UNCHANGED <<active, bodies, total, noCopy, wanted, copied, eof, accepted, sent>>
  BY <1>1, LoopEnd DEF CopyEnd
<1>7. fin => b.ended /\ sent[s] = accepted[s]
  <2>1. fin => Complete(b)
    BY <1>1, <1>4, LoopEnd DEF Complete
  <2>2. Complete(b) => b.ended /\ b.queued = 0
    BY <1>2, <1>3, DrainedIsEmpty DEF Complete
  <2> HIDE DEF fin, b
  <2> QED BY <1>2, <1>3, <2>1, <2>2
<1> HIDE DEF r, fin
<1>8. TypeOK'
  BY <1>1, <1>4, <1>6 DEF TypeOK
<1>9. QueueInv'
  BY <1>1, <1>3, <1>4, <1>6 DEF IInv, TypeOK, QueueInv
<1>10. ReadInv'
  BY <1>6 DEF ReadInv
<1>11. PhaseInv'
  BY <1>1, <1>4, <1>6, <1>7 DEF IInv, TypeOK, PhaseInv
<1>12. SentReleased'
  BY <1>1, <1>5, <1>6 DEF IInv, TypeOK, SentReleased
<1> QED BY <1>8, <1>9, <1>10, <1>11, <1>12 DEF IInv

\* _stream_closed drops the queue of its stream.
LEMMA StreamClosedInv == ASSUME IInv, NEW s \in Streams, StreamClosed(s) PROVE IInv'
<1>1. TypeOK /\ body[s].queued \in Nat
  BY DEF IInv, TypeOK, BodySource
<1>2. TypeOK'
  BY <1>1 DEF StreamClosed, TypeOK, read
<1>3. QueueInv' /\ ReadInv' /\ SentReleased'
  BY <1>1 DEF IInv, StreamClosed, TypeOK, QueueInv, ReadInv, SentReleased, read
<1>4. PhaseInv'
  BY <1>1 DEF IInv, StreamClosed, TypeOK, PhaseInv
<1> QED BY <1>2, <1>3, <1>4 DEF IInv

\* Every operation on the queues preserves the inductive invariant.
THEOREM NextPreservesInv == IInv /\ [Next]_vars => IInv'
<1> SUFFICES ASSUME IInv, [Next]_vars PROVE IInv'
  OBVIOUS
<1>1. CASE Next
  BY <1>1, NewBodyInv, SendDataInv, ReadBodyInv, StreamClosedInv, CopyChunkInv,
     CopyEndInv, DiscardInv DEF Next, Stop
<1>2. CASE UNCHANGED vars
  BY <1>2 DEF IInv, vars, read, TypeOK, QueueInv, ReadInv, PhaseInv, SentReleased
<1> QED BY <1>1, <1>2

\* The inductive invariant holds in every reachable state.
LEMMA Invariance == Spec => []IInv
BY InitInv, NextPreservesInv, PTL DEF Spec

\* The variables of the queues stay within their types.
THEOREM TypeCorrect == Spec => []TypeOK
BY Invariance, PTL DEF IInv

\* No interleaving of send_data() with frames loses, repeats or reorders a byte.
THEOREM NoByteLost == Spec => [](QueueHoldsUnsent /\ QueuedExact)
<1>1. IInv => QueueHoldsUnsent /\ QueuedExact
  BY DEF IInv, QueueInv, QueueHoldsUnsent, QueuedExact
<1> QED BY <1>1, Invariance, PTL

-----------------------------------------------------------------------------
(* The total of the connection.  It is compared with a set of bytes, so no  *)
(* sum over the streams is needed: a call adds some bytes of one stream to  *)
(* the set, or takes some from it.                                         *)

\* The bytes of s from position a up to b - 1.
Bytes(s, a, b) == {s} \X (a .. b - 1)

\* The inductive invariant of the total.
TotalInv == IsFiniteSet(Unsent) /\ TotalExact

\* There are b - a of them.
LEMMA CountBytes ==
  ASSUME NEW s, NEW a \in Nat, NEW b \in Nat, a <= b
  PROVE  IsFiniteSet(Bytes(s, a, b)) /\ Cardinality(Bytes(s, a, b)) = b - a
<1> DEFINE I == a .. b - 1
           f == [i \in I |-> <<s, i>>]
<1>1. IsFiniteSet(I) /\ Cardinality(I) = b - a
  <2>1. a \in Int /\ b - 1 \in Int
    OBVIOUS
  <2>2. IsFiniteSet(I) /\ Cardinality(I) = IF a > b - 1 THEN 0 ELSE (b - 1) - a + 1
    BY <2>1, FS_Interval
  <2> QED BY <2>2
<1>2. f \in Bijection(I, Bytes(s, a, b))
  <2>1. f \in [I -> Bytes(s, a, b)] /\ \A i, j \in I : f[i] = f[j] => i = j
    BY DEF Bytes
  <2>2. \A x \in Bytes(s, a, b) : \E i \in I : f[i] = x
    BY DEF Bytes
  <2> HIDE DEF f, I
  <2> QED BY <2>1, <2>2 DEF Bijection, Injection, Surjection, IsInjective
<1>3. ExistsBijection(I, Bytes(s, a, b))
  BY <1>2 DEF ExistsBijection
<1> HIDE DEF I
<1> QED BY <1>1, <1>3, FS_Bijection

\* What is new to a set adds to its size.
LEMMA AddSet ==
  ASSUME NEW S, IsFiniteSet(S), NEW R, IsFiniteSet(R), S \cap R = {}
  PROVE  IsFiniteSet(S \cup R) /\ Cardinality(S \cup R) = Cardinality(S) + Cardinality(R)
<1>1. Cardinality(S) \in Nat /\ Cardinality(R) \in Nat /\ Cardinality({}) = 0
  BY FS_CardinalityType, FS_EmptySet
<1>2. Cardinality(S \cup R) = Cardinality(S) + Cardinality(R) - Cardinality(S \cap R)
  BY FS_Union
<1>3. Cardinality(S \cap R) = 0
  BY <1>1, Zenon
<1>4. IsFiniteSet(S \cup R)
  BY FS_Union
<1> QED BY <1>1, <1>2, <1>3, <1>4

\* A part that is taken from a set reduces its size.
LEMMA TakeSet ==
  ASSUME NEW S, IsFiniteSet(S), NEW R, R \subseteq S
  PROVE  IsFiniteSet(S \ R) /\ Cardinality(S \ R) = Cardinality(S) - Cardinality(R)
<1> DEFINE rest == S \ R
<1>1. IsFiniteSet(rest) /\ IsFiniteSet(R)
  BY FS_Subset
<1>2. Cardinality(rest) \in Nat /\ Cardinality(R) \in Nat
  BY <1>1, FS_CardinalityType
<1>3. rest \cap R = {} /\ rest \cup R = S
  OBVIOUS
<1> HIDE DEF rest
<1>4. Cardinality(S) = Cardinality(rest) + Cardinality(R)
  BY <1>1, <1>3, AddSet
<1> QED BY <1>1, <1>2, <1>4 DEF rest

\* A byte is unsent if it is one of an open body.
LEMMA UnsentBytes ==
  /\ Unsent = UNION {Bytes(s, sent[s], accepted[s]) : s \in bodies}
  /\ Unsent' = UNION {Bytes(s, sent'[s], accepted'[s]) : s \in bodies'}
BY Zenon DEF Unsent, Bytes

\* The bytes of a stream before and behind a position, and those of another.
LEMMA SplitBytes ==
  ASSUME NEW s, NEW a \in Nat, NEW b \in Nat, NEW c \in Nat, a <= b, b <= c
  PROVE  /\ Bytes(s, a, c) = Bytes(s, a, b) \cup Bytes(s, b, c)
         /\ Bytes(s, a, b) \cap Bytes(s, b, c) = {}
BY DEF Bytes

LEMMA OtherBytes ==
  ASSUME NEW s, NEW t, s # t, NEW a, NEW b, NEW c, NEW d
  PROVE  Bytes(s, a, b) \cap Bytes(t, c, d) = {}
BY DEF Bytes

\* The unsent bytes of the bodies other than that of s.
Others(s) == UNION {Bytes(t, sent[t], accepted[t]) : t \in bodies \ {s}}

\* The bytes of one body and those of the others.
LEMMA UnsentOf ==
  ASSUME NEW s \in bodies
  PROVE  /\ Unsent = Others(s) \cup Bytes(s, sent[s], accepted[s])
         /\ \A a, b : Others(s) \cap Bytes(s, a, b) = {}
<1>1. Unsent = Others(s) \cup Bytes(s, sent[s], accepted[s])
  <2> SUFFICES ASSUME NEW x
               PROVE  x \in Unsent <=> x \in Others(s) \cup Bytes(s, sent[s], accepted[s])
    OBVIOUS
  <2>1. x \in Unsent <=> \E t \in bodies : x \in Bytes(t, sent[t], accepted[t])
    BY UnsentBytes
  <2>2. x \in Others(s) <=> \E t \in bodies \ {s} : x \in Bytes(t, sent[t], accepted[t])
    BY DEF Others
  <2> QED BY <2>1, <2>2
<1>2. ASSUME NEW a, NEW b PROVE Others(s) \cap Bytes(s, a, b) = {}
  <2> SUFFICES ASSUME NEW x \in Others(s), x \in Bytes(s, a, b) PROVE FALSE
    OBVIOUS
  <2>1. PICK t \in bodies \ {s} : x \in Bytes(t, sent[t], accepted[t])
    BY DEF Others
  <2>2. Bytes(t, sent[t], accepted[t]) \cap Bytes(s, a, b) = {}
    BY <2>1, OtherBytes
  <2> QED BY <2>1, <2>2
<1> QED BY <1>1, <1>2

\* Nothing is unsent on a new connection.
LEMMA InitTotal == Init => TotalInv
<1> SUFFICES ASSUME Init PROVE TotalInv
  OBVIOUS
<1>1. Unsent = {}
  BY DEF Init, Unsent
<1> QED BY <1>1, FS_EmptySet DEF Init, TotalInv, TotalExact

\* Every operation on the queues keeps the total.
LEMMA NextPreservesTotal == IInv /\ IInv' /\ TotalInv /\ [Next]_vars => TotalInv'
<1> SUFFICES ASSUME IInv, IInv', TotalInv, [Next]_vars PROVE TotalInv'
  OBVIOUS
<1>1. /\ IsFiniteSet(Unsent) /\ total = Cardinality(Unsent) /\ Cardinality(Unsent) \in Nat
      /\ bodies \subseteq Streams
      /\ \A s \in Streams : sent[s] \in Nat /\ accepted[s] \in Nat
      /\ \A s \in bodies : sent[s] <= accepted[s] /\ body[s].queued = accepted[s] - sent[s]
  <2>1. /\ \A s \in Streams : body[s].queued \in Nat
        /\ bodies \subseteq Streams
        /\ \A s \in Streams : sent[s] \in Nat /\ accepted[s] \in Nat
    BY DEF IInv, TypeOK, BodySource
  <2>2. \A s \in bodies : body[s].queued = accepted[s] - sent[s]
    BY DEF IInv, QueueInv
  <2>3. \A s \in bodies : sent[s] <= accepted[s]
    BY <2>1, <2>2
  <2>4. IsFiniteSet(Unsent) /\ total = Cardinality(Unsent) /\ Cardinality(Unsent) \in Nat
    BY FS_CardinalityType DEF TotalInv, TotalExact
  <2> QED BY <2>1, <2>2, <2>3, <2>4
<1>2. ASSUME UNCHANGED <<bodies, total, accepted, sent>> PROVE TotalInv'
  BY <1>2 DEF TotalInv, TotalExact, Unsent
<1>3. ASSUME NEW s \in Streams, NewBody(s) PROVE TotalInv'
  <2>1. accepted[s] = 0 /\ sent[s] = 0 /\ s \notin bodies
    BY <1>3 DEF IInv, PhaseInv, NewBody
  <2>2. Bytes(s, 0, 0) = {}
    BY DEF Bytes
  <2>3. bodies' = bodies \cup {s} /\ UNCHANGED <<total, accepted, sent>>
    BY <1>3 DEF NewBody
  <2>4. Unsent' = Unsent
    BY <2>1, <2>2, <2>3, UnsentBytes
  <2> QED BY <1>1, <2>3, <2>4 DEF TotalInv, TotalExact
<1>4. ASSUME NEW s \in Streams, NEW n \in 0 .. MaxBytes - accepted[s],
             NEW last \in BOOLEAN, SendData(s, n, last)
      PROVE  TotalInv'
  <2>1. /\ s \in bodies /\ bodies' = bodies /\ total' = total + n /\ sent' = sent
        /\ accepted' = [accepted EXCEPT ![s] = @ + n] /\ n \in Nat
        /\ accepted \in [Streams -> Nat]
    BY <1>4, BodyQueueAssumption DEF SendData, IInv, TypeOK
  <2>2. /\ accepted'[s] = accepted[s] + n
        /\ \A t \in bodies \ {s} : accepted'[t] = accepted[t]
    BY <1>1, <2>1
  <2>3. Unsent' = Others(s) \cup Bytes(s, sent[s], accepted[s] + n)
    BY <2>1, <2>2, UnsentBytes DEF Others
  <2>4. /\ sent[s] \in Nat /\ accepted[s] \in Nat /\ accepted[s] + n \in Nat
        /\ sent[s] <= accepted[s] /\ accepted[s] <= accepted[s] + n
    BY <1>1, <2>1
  <2> DEFINE added == Bytes(s, accepted[s], accepted[s] + n)
  <2>5. /\ Bytes(s, sent[s], accepted[s] + n) = Bytes(s, sent[s], accepted[s]) \cup added
        /\ Bytes(s, sent[s], accepted[s]) \cap added = {}
    BY <2>4, SplitBytes
  <2>6. /\ Unsent = Others(s) \cup Bytes(s, sent[s], accepted[s])
        /\ Others(s) \cap added = {}
    BY <2>1, UnsentOf
  <2>7. Unsent' = Unsent \cup added /\ Unsent \cap added = {}
    <3> HIDE DEF added
    <3> QED BY <2>3, <2>5, <2>6
  <2>8. IsFiniteSet(added) /\ Cardinality(added) = n
    BY <2>1, <2>4, CountBytes
  <2> HIDE DEF added
  <2> QED BY <1>1, <2>1, <2>7, <2>8, AddSet DEF TotalInv, TotalExact
<1>5. ASSUME CopyChunk PROVE TotalInv'
  <2> DEFINE s == reading
             take == Take(body[reading], wanted - copied)
  <2>1. /\ s \in bodies /\ bodies' = bodies /\ total' = total - take
        /\ accepted' = accepted /\ sent' = [sent EXCEPT ![s] = @ + take]
        /\ sent \in [Streams -> Nat]
    BY <1>5 DEF CopyChunk, IInv, TypeOK
  <2>2. take \in Nat /\ sent[s] + take <= accepted[s]
    <3>1. /\ ~Drained(body[s]) /\ body[s] \in BodySource
          /\ wanted - copied \in Nat /\ wanted - copied > 0
          /\ Holds(body[s], sent[s], accepted[s])
      BY <1>5, <2>1 DEF CopyChunk, Copying, IInv, TypeOK, QueueInv
    <3> QED BY <1>1, <2>1, <3>1, TakeBounds
  <2> HIDE DEF take
  <2>3. /\ sent'[s] = sent[s] + take
        /\ \A t \in bodies \ {s} : sent'[t] = sent[t]
    BY <1>1, <2>1
  <2>4. Unsent' = Others(s) \cup Bytes(s, sent[s] + take, accepted[s])
    BY <2>1, <2>3, UnsentBytes DEF Others
  <2> DEFINE taken == Bytes(s, sent[s], sent[s] + take)
             left == Bytes(s, sent[s] + take, accepted[s])
  <2>5. /\ sent[s] \in Nat /\ accepted[s] \in Nat /\ sent[s] + take \in Nat
        /\ sent[s] <= sent[s] + take /\ sent[s] + take <= accepted[s]
    BY <1>1, <2>1, <2>2
  <2>6. Bytes(s, sent[s], accepted[s]) = taken \cup left /\ taken \cap left = {}
    BY <2>5, SplitBytes
  <2>7. /\ Unsent = Others(s) \cup Bytes(s, sent[s], accepted[s])
        /\ Others(s) \cap taken = {}
    BY <2>1, UnsentOf
  <2>8. Unsent' = Unsent \ taken /\ taken \subseteq Unsent
    <3> HIDE DEF taken, left
    <3> QED BY <2>4, <2>6, <2>7 DEF left
  <2>9. Cardinality(taken) = take
    BY <2>2, <2>5, CountBytes
  <2> HIDE DEF taken
  <2> QED BY <1>1, <2>1, <2>8, <2>9, TakeSet DEF TotalInv, TotalExact
<1>6. ASSUME NEW s \in Streams, StreamClosed(s) PROVE TotalInv'
  <2>1. /\ s \in bodies /\ bodies' = bodies \ {s} /\ total' = total - body[s].queued
        /\ UNCHANGED <<accepted, sent>>
    BY <1>6 DEF StreamClosed
  <2>2. Unsent' = Others(s)
    BY <2>1, UnsentBytes DEF Others
  <2> DEFINE gone == Bytes(s, sent[s], accepted[s])
  <2>3. Unsent = Others(s) \cup gone /\ Others(s) \cap gone = {}
    BY <2>1, UnsentOf
  <2>4. Unsent' = Unsent \ gone /\ gone \subseteq Unsent
    <3> HIDE DEF gone
    <3> QED BY <2>2, <2>3
  <2>5. Cardinality(gone) = body[s].queued
    BY <1>1, <2>1, CountBytes
  <2> HIDE DEF gone
  <2> QED BY <1>1, <2>1, <2>4, <2>5, TakeSet DEF TotalInv, TotalExact
<1>7. ASSUME Discard PROVE TotalInv'
  <2>1. Unsent' = {} /\ total' = 0
    BY <1>7 DEF Discard, Unsent
  <2> QED BY <2>1, FS_EmptySet DEF TotalInv, TotalExact
<1>8. ASSUME CopyEnd PROVE TotalInv'
  <2>1. UNCHANGED <<bodies, total, accepted, sent>>
    BY <1>8, LoopEnd DEF CopyEnd
  <2> QED BY <1>2, <2>1
<1>9. ASSUME NEW s \in Streams, NEW length \in 1 .. MaxFrame, NEW whole \in BOOLEAN,
             ReadBody(s, length, whole)
      PROVE  TotalInv'
  BY <1>2, <1>9 DEF ReadBody
<1>10. CASE UNCHANGED vars
  BY <1>2, <1>10 DEF vars
<1>11. CASE Next
  BY <1>3, <1>4, <1>5, <1>6, <1>7, <1>8, <1>9, <1>11 DEF Next, Stop
<1> QED BY <1>10, <1>11

\* The total is the number of unsent bytes of the open bodies, for any number of
\* streams, and each queue's counter is the number of its bytes.
THEOREM CountersTell == Spec => []CountersExact
<1>1. IInv /\ TotalInv => CountersExact
  BY DEF IInv, QueueInv, TotalInv, CountersExact, QueuedExact
<1> QED BY <1>1, Invariance, InitTotal, NextPreservesTotal, PTL DEF Spec

\* A frame sized by _read_body is filled, and the two completeness tests agree.
THEOREM FramesFilled == Spec => []FrameAsPromised
<1>1. IInv => FrameAsPromised
  BY LoopEnd DEF FrameAsPromised, NoShortFrame, EofAgrees
<1> QED BY <1>1, Invariance, PTL

\* Sent chunks are released, and dead slots stay few.
THEOREM ChunksReleased == Spec => []SentReleased
BY Invariance, PTL DEF IInv

\* The queues implement BodyDelivery for every bound on the bytes offered.
THEOREM Implementation == Spec => ImplementsDelivery
<1>1. Init => Delivery!Init
  BY DEF Init, Delivery!Init
<1>2. IInv /\ [Next]_vars => [Delivery!Next]_<<accepted, sent, phase>>
  <2> SUFFICES ASSUME IInv, [Next]_vars
               PROVE  Delivery!Next \/ UNCHANGED <<accepted, sent, phase>>
    OBVIOUS
  <2> USE DEF Delivery!Next
  <2>1. ASSUME NEW s \in Streams, NewBody(s) PROVE Delivery!Next
    BY <2>1 DEF NewBody, Delivery!Open
  <2>2. ASSUME NEW s \in Streams, NEW n \in 0 .. MaxBytes - accepted[s],
               NEW last \in BOOLEAN, SendData(s, n, last)
        PROVE  Delivery!Next
    <3>1. phase[s] = "open"
      BY <2>2 DEF IInv, PhaseInv, SendData
    <3>2. Delivery!Accept(s, n, last)
      BY <2>2, <3>1 DEF SendData, Delivery!Accept
    <3> QED BY <3>2
  <2>3. ASSUME NEW s \in Streams, StreamClosed(s)
        PROVE  Delivery!Next \/ UNCHANGED <<accepted, sent, phase>>
    <3>1. CASE phase[s] = "finished"
      BY <2>3, <3>1 DEF StreamClosed, IInv, TypeOK
    <3>2. CASE phase[s] # "finished"
      <4>1. Delivery!Cut({s})
        BY <2>3, <3>2 DEF StreamClosed, IInv, TypeOK, Delivery!Cut
      <4> QED BY <4>1
    <3> QED BY <3>1, <3>2
  <2>4. ASSUME CopyChunk PROVE Delivery!Next
    <3> DEFINE take == Take(body[reading], wanted - copied)
    <3>1. /\ reading \in Streams /\ reading \in bodies /\ phase[reading] # "finished"
          /\ ~Drained(body[reading]) /\ body[reading] \in BodySource
          /\ wanted - copied \in Nat /\ wanted - copied > 0
          /\ accepted[reading] \in Nat /\ sent[reading] \in Nat
      BY <2>4 DEF IInv, TypeOK, ReadInv, CopyChunk, Copying
    <3>2. phase[reading] \in {"open", "ended"} /\ Holds(body[reading], sent[reading], accepted[reading])
      BY <3>1 DEF IInv, PhaseInv, QueueInv
    <3>3. take \in 1 .. wanted - copied /\ sent[reading] + take <= accepted[reading]
      BY <3>1, <3>2, TakeBounds
    <3> HIDE DEF take
    <3>4. take \in 0 .. accepted[reading] - sent[reading]
      BY <3>1, <3>3
    <3>5. Delivery!Send(reading, take, FALSE)
      BY <2>4, <3>1, <3>2 DEF IInv, TypeOK, CopyChunk, Delivery!Send, take
    <3> QED BY <3>1, <3>4, <3>5
  <2>5. ASSUME Discard PROVE Delivery!Next
    <3> DEFINE S == {s \in Streams : phase[s] # "finished"}
    <3>1. Delivery!Cut(S)
      BY <2>5 DEF Discard, Delivery!Cut
    <3>2. S \in SUBSET Streams
      OBVIOUS
    <3> QED BY <3>1, <3>2
  <2>6. ASSUME CopyEnd PROVE Delivery!Next \/ UNCHANGED <<accepted, sent, phase>>
    <3> DEFINE s == reading
               r == Reclaim(body[reading])
               fin == (noCopy /\ eof) \/ (~noCopy /\ Complete(r))
    <3>1. /\ TypeOK /\ s \in Streams /\ s \in bodies /\ ~Copying /\ s # None
          /\ phase[s] # "finished"
      BY <2>6 DEF IInv, TypeOK, ReadInv, CopyEnd
    <3>2. /\ phase' = [phase EXCEPT ![s] = IF fin THEN "finished" ELSE @]
          /\ UNCHANGED <<accepted, sent>>
      BY <2>6, <3>1, LoopEnd DEF CopyEnd
    <3>3. fin => phase[s] = "ended" /\ sent[s] = accepted[s]
      <4>1. /\ body[s] \in BodySource /\ accepted[s] \in Nat /\ sent[s] \in Nat
            /\ Holds(body[s], sent[s], accepted[s])
            /\ body[s].queued = accepted[s] - sent[s]
        BY <3>1 DEF IInv, TypeOK, QueueInv
      <4>2. r.ended = body[s].ended /\ (Drained(r) <=> Drained(body[s]))
        BY <4>1, ReclaimKeeps
      <4>3. fin => body[s].ended /\ Drained(body[s])
        BY <3>1, <4>2, LoopEnd DEF Complete
      <4>4. Drained(body[s]) => sent[s] = accepted[s]
        BY <4>1 DEF Holds
      <4>5. body[s].ended => phase[s] = "ended"
        BY <3>1 DEF IInv, PhaseInv
      <4> HIDE DEF fin, s
      <4> QED BY <4>3, <4>4, <4>5
    <3>4. CASE fin
      <4>1. accepted[s] \in Nat /\ sent[s] \in Nat /\ sent' = [sent EXCEPT ![s] = @ + 0]
        BY <3>1, <3>2 DEF TypeOK
      <4>2. 0 \in 0 .. accepted[s] - sent[s]
        BY <3>3, <3>4, <4>1
      <4>3. phase' = [phase EXCEPT ![s] = "finished"] /\ phase[s] = "ended"
            /\ sent[s] + 0 = accepted[s] /\ UNCHANGED accepted
        <5> HIDE DEF fin, s
        <5> QED BY <3>2, <3>3, <3>4, <4>1
      <4>4. Delivery!Send(s, 0, TRUE)
        <5> HIDE DEF fin, s
        <5> QED BY <4>1, <4>3 DEF Delivery!Send
      <4> QED BY <3>1, <4>2, <4>4
    <3>5. CASE ~fin
      <4> HIDE DEF fin, s
      <4> QED BY <3>1, <3>2, <3>5 DEF TypeOK
    <3> QED BY <3>4, <3>5
  <2>7. ASSUME NEW s \in Streams, NEW length \in 1 .. MaxFrame, NEW whole \in BOOLEAN,
               ReadBody(s, length, whole)
        PROVE  UNCHANGED <<accepted, sent, phase>>
    BY <2>7 DEF ReadBody
  <2>8. CASE UNCHANGED vars
    BY <2>8 DEF vars
  <2> HIDE DEF Delivery!Next
  <2>9. CASE Next
    BY <2>1, <2>2, <2>3, <2>4, <2>5, <2>6, <2>7, <2>9 DEF Next, Stop
  <2> QED BY <2>8, <2>9
<1> QED BY <1>1, <1>2, Invariance, PTL DEF Spec, ImplementsDelivery, Delivery!Spec, Delivery!vars
=============================================================================
