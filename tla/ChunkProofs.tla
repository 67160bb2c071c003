---------------------------- MODULE ChunkProofs ----------------------------
(***************************************************************************)
(* Proofs that an encrypted stream gives its reader the writer's bytes,    *)
(* for every length of preamble and chunk, every range of the VMess count  *)
(* and however units are cut between polls.                                *)
(***************************************************************************)
EXTENDS ChunkStream, SequenceTheorems, TLAPS

(* What is left of a sequence after BytesMut::advance. *)
LEMMA FromProperties ==
  ASSUME NEW S, NEW s \in Seq(S), NEW k \in 0 .. Len(s)
  PROVE  /\ From(s, k) \in Seq(S)
         /\ Len(From(s, k)) = Len(s) - k
         /\ \A i \in 1 .. Len(s) - k : From(s, k)[i] = s[k + i]
<1>1. Len(s) \in Nat
  OBVIOUS
<1>2. \A i \in k + 1 .. Len(s) : s[i] \in S
  OBVIOUS
<1> QED
  BY <1>1, <1>2, SubSeqProperties DEF From

(* The first k of a sequence. *)
LEMMA TakeProperties ==
  ASSUME NEW S, NEW s \in Seq(S), NEW k \in 0 .. Len(s)
  PROVE  /\ SubSeq(s, 1, k) \in Seq(S)
         /\ Len(SubSeq(s, 1, k)) = k
         /\ \A i \in 1 .. k : SubSeq(s, 1, k)[i] = s[i]
<1>1. Len(s) \in Nat
  OBVIOUS
<1>2. \A i \in 1 .. k : s[i] \in S
  OBVIOUS
<1> QED
  BY <1>1, <1>2, SubSeqProperties

(* A concatenation, unit by unit. *)
LEMMA Concat ==
  ASSUME NEW S, NEW s \in Seq(S), NEW t \in Seq(S)
  PROVE  /\ s \o t \in Seq(S)
         /\ Len(s \o t) = Len(s) + Len(t)
         /\ \A i \in 1 .. Len(s) : (s \o t)[i] = s[i]
         /\ \A i \in 1 .. Len(t) : (s \o t)[Len(s) + i] = t[i]
<1>1. Len(s) \in Nat /\ Len(t) \in Nat
  OBVIOUS
<1> QED
  BY <1>1, ConcatProperties

(* A sequence given by its units. *)
LEMMA Tabulate ==
  ASSUME NEW S, NEW n \in Nat, NEW f, f = [i \in 1 .. n |-> f[i]], \A i \in 1 .. n : f[i] \in S
  PROVE  f \in Seq(S) /\ Len(f) = n
OBVIOUS

(* Taking k units off one sequence and onto another changes neither.       *)
LEMMA Cut ==
  ASSUME NEW S, NEW s \in Seq(S), NEW m \in 0 .. Len(s), NEW k \in m .. Len(s)
  PROVE  SubSeq(s, m + 1, k) \o From(s, k) = From(s, m)
<1>1. m + 1 \in 1 .. Len(s) + 1 /\ k \in (m + 1) - 1 .. Len(s) /\ Len(s) \in k .. Len(s)
  OBVIOUS
<1> QED
  BY <1>1, ConcatAdjacentSubSeq DEF From

LEMMA Rejoin ==
  ASSUME NEW S, NEW s \in Seq(S), NEW k \in 0 .. Len(s)
  PROVE  SubSeq(s, 1, k) \o From(s, k) = s
<1>1. 0 \in 0 .. Len(s) /\ 0 + 1 = 1 /\ From(s, 0) = s
  BY SubSeqFull DEF From
<1> QED
  BY <1>1, Cut

LEMMA Assoc ==
  ASSUME NEW S, NEW s \in Seq(S), NEW t \in Seq(S), NEW u \in Seq(S)
  PROVE  (s \o t) \o u = s \o (t \o u)
BY ConcatAssociative

LEMMA FromConcat ==
  ASSUME NEW S, NEW s \in Seq(S), NEW t \in Seq(S), NEW k \in 0 .. Len(s)
  PROVE  From(s, k) \o t = From(s \o t, k)
<1> DEFINE h == SubSeq(s, 1, k)
           r == From(s, k)
<1>1. h \in Seq(S) /\ r \in Seq(S) /\ Len(h) = k /\ s = h \o r
  BY FromProperties, TakeProperties, Rejoin
<1> HIDE DEF h, r
<1>2. s \o t = h \o (r \o t)
  BY <1>1, Assoc
<1>3. r \o t \in Seq(S)
  BY <1>1, Concat
<1> DEFINE q == r \o t
<1> HIDE DEF q
<1>4. From(h \o q, Len(h)) = q
  <2>1. h \in Seq(S) /\ q \in Seq(S) /\ h \o q \in Seq(S) /\ Len(h) \in Nat /\ Len(q) \in Nat
        /\ Len(h \o q) = Len(h) + Len(q)
        /\ \A i \in 1 .. Len(q) : (h \o q)[Len(h) + i] = q[i]
    <3>1. h \in Seq(S) /\ q \in Seq(S)
      BY <1>1, <1>3 DEF q
    <3> QED
      BY <3>1, Concat
  <2>2. /\ From(h \o q, Len(h)) \in Seq(S) /\ Len(From(h \o q, Len(h))) = Len(q)
        /\ \A i \in 1 .. Len(q) : From(h \o q, Len(h))[i] = (h \o q)[Len(h) + i]
    <3> DEFINE hq == h \o q
    <3> HIDE DEF hq
    <3>1. hq \in Seq(S) /\ Len(h) \in 0 .. Len(hq) /\ Len(hq) - Len(h) = Len(q)
      BY <2>1 DEF hq
    <3>2. /\ From(hq, Len(h)) \in Seq(S) /\ Len(From(hq, Len(h))) = Len(hq) - Len(h)
          /\ \A i \in 1 .. Len(hq) - Len(h) : From(hq, Len(h))[i] = hq[Len(h) + i]
      BY <3>1, FromProperties
    <3> QED
      BY <3>1, <3>2 DEF hq
  <2> QED
    BY <2>1, <2>2, SeqEqual
<1> QED
  BY <1>1, <1>2, <1>4 DEF q, r

LEMMA FromNothing == \A n \in Nat : From(<<>>, n) = <<>>
BY DEF From

-----------------------------------------------------------------------------
LEMMA PreambleUnits ==
  /\ Preamble \in Seq(Units) /\ Len(Preamble) = PreLen
  /\ \A i \in 1 .. PreLen : Preamble[i] = <<"pre", i, 0>>
<1>1. PreLen \in Nat
  BY ChunkAssumption
<1>2. \A i \in 1 .. PreLen : Preamble[i] = <<"pre", i, 0>> /\ <<"pre", i, 0>> \in Units
  BY <1>1 DEF Preamble, Units
<1> QED
  BY <1>1, <1>2, Tabulate DEF Preamble

(* A chunk is two halves of a length, the data and a tag. *)
LEMMA ChunkUnits ==
  ASSUME NEW m \in Nat, NEW n \in Nat, NEW c \in Nat
  PROVE  /\ Chunk(m, n, c) \in Seq(Units)
         /\ Len(Chunk(m, n, c)) = n + 3
         /\ \A i \in 1 .. 2 : Chunk(m, n, c)[i] = <<"len", n, LenNonce(c)>>
         /\ \A i \in 1 .. n : Chunk(m, n, c)[i + 2] = <<"data", m + i, DataNonce(c)>>
         /\ Chunk(m, n, c)[n + 3] = <<"tag", n, DataNonce(c)>>
<1> DEFINE head == LenField(n, c)
           data == [i \in 1 .. n |-> <<"data", m + i, DataNonce(c)>>]
           tag  == << <<"tag", n, DataNonce(c)>> >>
<1>0. LenNonce(c) \in Nat /\ DataNonce(c) \in Nat
  BY DEF LenNonce, DataNonce
<1> HIDE DEF head
<1>1. head \in Seq(Units) /\ Len(head) = 2 /\ \A i \in 1 .. 2 : head[i] = <<"len", n, LenNonce(c)>>
  BY <1>0, Tabulate DEF head, LenField, LenSize, Units
<1>2. data \in Seq(Units) /\ Len(data) = n
  BY <1>0, Tabulate DEF Units
<1>3. tag \in Seq(Units) /\ Len(tag) = 1 /\ tag[1] = <<"tag", n, DataNonce(c)>>
  BY <1>0 DEF Units
<1>4. \A i \in 1 .. n : data[i] = <<"data", m + i, DataNonce(c)>>
  OBVIOUS
<1> HIDE DEF data, tag
<1>5. /\ head \o data \in Seq(Units) /\ Len(head \o data) = 2 + n
      /\ \A i \in 1 .. 2 : (head \o data)[i] = head[i]
      /\ \A i \in 1 .. n : (head \o data)[2 + i] = data[i]
  <2>1. /\ head \o data \in Seq(Units) /\ Len(head \o data) = Len(head) + Len(data)
        /\ \A i \in 1 .. Len(head) : (head \o data)[i] = head[i]
        /\ \A i \in 1 .. Len(data) : (head \o data)[Len(head) + i] = data[i]
    <3>1. head \in Seq(Units) /\ data \in Seq(Units)
      BY <1>1, <1>2
    <3> QED
      BY <3>1, Concat
  <2> QED
    BY <2>1, <1>1, <1>2
<1> DEFINE body == head \o data
<1> HIDE DEF body
<1>6. /\ body \o tag \in Seq(Units) /\ Len(body \o tag) = n + 3
      /\ \A i \in 1 .. n + 2 : (body \o tag)[i] = body[i]
      /\ (body \o tag)[n + 3] = tag[1]
  <2>1. /\ body \o tag \in Seq(Units) /\ Len(body \o tag) = Len(body) + Len(tag)
        /\ \A i \in 1 .. Len(body) : (body \o tag)[i] = body[i]
        /\ \A i \in 1 .. Len(tag) : (body \o tag)[Len(body) + i] = tag[i]
    <3>1. body \in Seq(Units) /\ tag \in Seq(Units)
      BY <1>3, <1>5 DEF body
    <3> QED
      BY <3>1, Concat
  <2>2. Len(body) = n + 2
    BY <1>5 DEF body
  <2> QED
    BY <2>1, <2>2, <1>3
<1>7. Chunk(m, n, c) = body \o tag
  BY DEF Chunk, body, head, data, tag
<1> HIDE DEF body
<1>8. \A i \in 1 .. n : body[i + 2] = data[i] /\ i + 2 \in 1 .. n + 2
  BY <1>5 DEF body
<1>9. \A i \in 1 .. 2 : body[i] = head[i] /\ i \in 1 .. n + 2
  BY <1>5 DEF body
<1> QED
  BY <1>1, <1>3, <1>4, <1>6, <1>7, <1>8, <1>9, ZenonT(40)

-----------------------------------------------------------------------------
(* The numbering of units depends on the chunks only. *)
LEMMA SameUnits ==
  ASSUME UNCHANGED <<kind, chunks>>
  PROVE  \A x, u : IsUnit(x, u)' <=> IsUnit(x, u)
BY DEF IsUnit, Start, Chunk, LenField, LenNonce, DataNonce, Preamble

(* What the reader's steps leave alone. *)
LEMMA WriterFrame ==
  ASSUME IInv, UNCHANGED <<kind, writerVars>>
  PROVE  /\ ChunksInv' /\ WriterInv'
         /\ Unsent' = Unsent /\ Total' = Total /\ Sealed' = Sealed
         /\ \A x, u : IsUnit(x, u)' <=> IsUnit(x, u)
<1> USE DEF writerVars
<1>1. Sealed' = Sealed /\ Total' = Total
  BY DEF Sealed, Total
<1>2. \A c : NextCount(c)' = NextCount(c)
  BY DEF NextCount
<1>3. ChunksInv'
  BY <1>1, <1>2 DEF IInv, ChunksInv
<1>4. WriterInv'
  BY DEF IInv, WriterInv, Preamble
<1>5. Unsent' = Unsent
  BY DEF Unsent, Preamble, From
<1> QED
  BY <1>1, <1>3, <1>4, <1>5, SameUnits


(* The numbers that the arithmetic below is about. *)
LEMMA Numbers ==
  ASSUME TypeOK
  PROVE  /\ PreLen \in Nat /\ PreLen > 0 /\ MaxPacket \in Nat /\ MaxPacket > 0
         /\ Len(buffer) \in Nat /\ Len(wire) \in Nat /\ Len(got) \in Nat /\ Len(chunks) \in Nat
         /\ Len(buf) \in Nat /\ pos \in Nat /\ header_pos \in Nat /\ offer \in Nat
         /\ data_length \in Nat /\ opened \in Nat /\ accepted \in Nat /\ data_len \in Nat
         /\ wcount \in Nat /\ rcount \in Nat /\ Sealed \in Nat /\ Total \in Nat
<1>1. PreLen \in Nat /\ PreLen > 0 /\ MaxPacket \in Nat /\ MaxPacket > 0 /\ MaxOffer \in Nat
  BY ChunkAssumption
<1>2. Len(buffer) \in Nat /\ Len(wire) \in Nat /\ Len(got) \in Nat /\ Len(buf) \in Nat
  BY DEF TypeOK
<1>3. Len(chunks) \in Nat
  BY DEF TypeOK
<1>4. /\ pos \in Nat /\ header_pos \in Nat /\ offer \in Nat
      /\ data_length \in Nat /\ opened \in Nat /\ accepted \in Nat /\ data_len \in Nat
      /\ wcount \in Nat /\ rcount \in Nat
  BY <1>1 DEF TypeOK, MaxUnits, LenSize
<1>5. Sealed \in Nat
  BY <1>4 DEF Sealed
<1>6. Total \in Nat
  BY <1>1, <1>3, <1>5 DEF Total, LenSize
<1> QED
  BY <1>1, <1>2, <1>3, <1>4, <1>5, <1>6

LEMMA ChunkFields ==
  ASSUME TypeOK, NEW j \in 1 .. Len(chunks)
  PROVE  /\ chunks[j].from \in Nat /\ chunks[j].size \in Nat /\ chunks[j].count \in Nat
         /\ chunks[j].size > 0 /\ chunks[j].size <= MaxPacket
<1> DEFINE Record == [from : Nat, size : 1 .. MaxPacket, count : Nat]
<1>1. chunks \in Seq(Record)
  BY DEF TypeOK
<1>2. \A r \in Record : /\ r.from \in Nat /\ r.size \in Nat /\ r.count \in Nat
                       /\ r.size > 0 /\ r.size <= MaxPacket
  <2>1. MaxPacket \in Nat
    BY Numbers
  <2> QED
    BY <2>1
<1> HIDE DEF Record
<1>3. chunks[j] \in Record
  BY <1>1
<1> QED
  BY <1>2, <1>3

(* The units of chunk j. *)
LEMMA UnitsOfChunk ==
  ASSUME TypeOK, NEW j \in 1 .. Len(chunks)
  PROVE  LET m == chunks[j].from
             n == chunks[j].size
             c == chunks[j].count
         IN  /\ \A i \in 1 .. 2 : Chunk(m, n, c)[i] = <<"len", n, LenNonce(c)>>
             /\ \A i \in 1 .. n : Chunk(m, n, c)[i + 2] = <<"data", m + i, DataNonce(c)>>
             /\ Chunk(m, n, c)[n + 3] = <<"tag", n, DataNonce(c)>>
<1> DEFINE m == chunks[j].from
           n == chunks[j].size
           c == chunks[j].count
<1>1. m \in Nat /\ n \in Nat /\ c \in Nat
  BY ChunkFields
<1> HIDE DEF m, n, c
<1>2. /\ \A i \in 1 .. 2 : Chunk(m, n, c)[i] = <<"len", n, LenNonce(c)>>
      /\ \A i \in 1 .. n : Chunk(m, n, c)[i + 2] = <<"data", m + i, DataNonce(c)>>
      /\ Chunk(m, n, c)[n + 3] = <<"tag", n, DataNonce(c)>>
  BY <1>1, ChunkUnits
<1> QED
  BY <1>2, Zenon DEF m, n, c

(* What is unsent, by its length. *)
LEMMA UnsentUnits ==
  ASSUME TypeOK, WriterInv
  PROVE  /\ Unsent \in Seq(Units) /\ Len(Unsent) \in Nat
         /\ writer = "header" => Len(Unsent) = PreLen - header_pos
         /\ writer = "idle" /\ kind = "SS" /\ Len(chunks) = 0 => Unsent = Preamble
         /\ writer = "idle" /\ ~(kind = "SS" /\ Len(chunks) = 0) => Unsent = <<>>
         /\ writer = "writing" => Len(Unsent) = Len(buf) - pos
<1>1. writer \in {"header", "idle", "writing"}
  BY DEF TypeOK
<1>2. CASE writer = "header"
  <2>1. header_pos \in 0 .. Len(Preamble) /\ Len(Preamble) = PreLen /\ Preamble \in Seq(Units)
    BY PreambleUnits DEF TypeOK
  <2>2. Unsent = From(Preamble, header_pos)
    BY <1>2, <2>1 DEF Unsent, From
  <2> QED
    BY <1>2, <2>1, <2>2, FromProperties
<1>3. CASE writer = "idle" /\ kind = "SS" /\ Len(chunks) = 0
  <2>1. Unsent = From(Preamble, 0)
    BY <1>3 DEF Unsent, WriterInv
  <2>2. From(Preamble, 0) = Preamble
    BY PreambleUnits, SubSeqFull DEF From
  <2> QED
    BY <1>3, <2>1, <2>2, PreambleUnits
<1>4. CASE writer = "idle" /\ ~(kind = "SS" /\ Len(chunks) = 0)
  <2>1. Unsent = From(<<>>, pos) /\ pos \in Nat
    BY <1>4, Numbers DEF Unsent, WriterInv
  <2>2. Unsent = <<>>
    BY <2>1, FromNothing
  <2>3. <<>> \in Seq(Units) /\ Len(<<>>) \in Nat
    OBVIOUS
  <2> QED
    BY <1>4, <2>2, <2>3
<1>5. CASE writer = "writing"
  <2>1. buf \in Seq(Units) /\ pos \in 0 .. Len(buf) /\ Unsent = From(buf, pos)
    BY <1>5, Numbers DEF Unsent, WriterInv, TypeOK
  <2> QED
    BY <1>5, <2>1, FromProperties
<1> QED
  BY <1>1, <1>2, <1>3, <1>4, <1>5

LEMMA StreamUnits ==
  ASSUME TypeOK, WriterInv
  PROVE  /\ Stream \in Seq(Units)
         /\ Len(Stream) = Len(buffer) + Len(wire) + Len(Unsent)
         /\ \A i \in 1 .. Len(buffer) : Stream[i] = buffer[i]
<1>1. buffer \in Seq(Units) /\ wire \in Seq(Units) /\ Unsent \in Seq(Units)
  BY UnsentUnits DEF TypeOK
<1> DEFINE rest == wire \o Unsent
<1>2. rest \in Seq(Units) /\ Len(rest) = Len(wire) + Len(Unsent)
  BY <1>1, Concat
<1> HIDE DEF rest
<1>3. /\ buffer \o rest \in Seq(Units) /\ Len(buffer \o rest) = Len(buffer) + Len(rest)
      /\ \A i \in 1 .. Len(buffer) : (buffer \o rest)[i] = buffer[i]
  <2>1. buffer \in Seq(Units) /\ rest \in Seq(Units)
    BY <1>1, <1>2
  <2> QED
    BY <2>1, Concat
<1>4. Len(buffer) \in Nat /\ Len(wire) \in Nat /\ Len(Unsent) \in Nat
  BY Numbers, UnsentUnits
<1> QED
  BY <1>2, <1>3, <1>4 DEF Stream, rest

(* Where the reader stands is a number of units. *)
LEMMA ConsumedInt ==
  ASSUME TypeOK
  PROVE  Consumed \in Int
<1>1. PreLen \in Nat /\ Len(got) \in Nat /\ opened \in Nat
  BY Numbers
<1> QED
  BY <1>1 DEF Consumed, LenSize

-----------------------------------------------------------------------------
(* What the chunks tell about each other, in numbers. *)
LEMMA ChunkOrder ==
  ASSUME TypeOK, ChunksInv, NEW j \in 1 .. Len(chunks)
  PROVE  /\ Start(j) \in Nat /\ Start(j) >= PreLen
         /\ Start(j) = PreLen + chunks[j].from + 3 * (j - 1)
         /\ chunks[j].from + chunks[j].size <= Sealed
         /\ Start(j) + chunks[j].size + 3 <= Total
         /\ j < Len(chunks) => Start(j) + chunks[j].size + 3 <= Start(Len(chunks))
<1> DEFINE w == Len(chunks)
           f == chunks[j].from
           n == chunks[j].size
           l == chunks[w].from
<1>1. w \in Nat /\ PreLen \in Nat /\ Sealed \in Nat
  BY Numbers
<1>2. w \in 1 .. w /\ j \in Nat /\ 1 <= j /\ j <= w
  BY <1>1
<1>3. f \in Nat /\ n \in Nat /\ l \in Nat /\ chunks[w].size \in Nat
  BY <1>2, ChunkFields
<1>4. l + chunks[w].size = Sealed
  BY <1>2 DEF ChunksInv
<1>5. j < w => f + n <= l
  BY <1>2 DEF ChunksInv
<1>6. f + n <= Sealed
  BY <1>1, <1>2, <1>3, <1>4, <1>5
<1>7. /\ Start(j) = PreLen + f + 3 * (j - 1) /\ Start(w) = PreLen + l + 3 * (w - 1)
      /\ Total = PreLen + Sealed + 3 * w
  BY DEF Start, Total, LenSize
<1> HIDE DEF w, f, n, l
<1>8. ASSUME NEW p \in Nat, NEW m \in Nat, f + n <= m
      PROVE  /\ p + f + 3 * (j - 1) \in Nat /\ p + f + 3 * (j - 1) >= p
             /\ p + f + 3 * (j - 1) + n + 3 <= p + m + 3 * w
             /\ j < w => p + f + 3 * (j - 1) + n + 3 <= p + m + 3 * (w - 1)
  BY <1>1, <1>2, <1>3, <1>8
<1>9. Start(j) \in Nat /\ Start(j) >= PreLen /\ Start(j) + n + 3 <= Total
  BY <1>1, <1>6, <1>7, <1>8
<1>10. j < w => Start(j) + n + 3 <= Start(w)
  BY <1>1, <1>3, <1>5, <1>7, <1>8
<1> QED
  BY <1>6, <1>7, <1>9, <1>10 DEF w, f, n

(* The reader is at work: what is in its buffer is known. *)
Active == reader \notin {"eof", "err"} /\ ~Torn

LEMMA UnitAt ==
  ASSUME IInv, Active, NEW i \in 1 .. Len(buffer), NEW j \in 1 .. Len(chunks),
         NEW y \in 1 .. chunks[j].size + 3, Consumed + i = Start(j) + y
  PROVE  buffer[i] = Chunk(chunks[j].from, chunks[j].size, chunks[j].count)[y]
<1>1. TypeOK /\ WriterInv /\ UnitsInv
  BY DEF IInv
<1>2. Len(buffer) \in Nat /\ Len(wire) \in Nat /\ Len(Unsent) \in Nat
  BY <1>1, Numbers, UnsentUnits
<1>3. i \in 1 .. Len(Stream) /\ Stream[i] = buffer[i]
  BY <1>1, <1>2, StreamUnits
<1>4. IsUnit(Consumed + i, buffer[i])
  BY <1>1, <1>3 DEF UnitsInv, Active
<1>5. y \in 1 .. chunks[j].size + LenSize + 1
  <2>1. chunks[j].size \in Nat
    BY <1>1, ChunkFields
  <2> QED
    BY <2>1 DEF LenSize
<1> QED
  BY <1>4, <1>5 DEF IsUnit

LEMMA PreambleAt ==
  ASSUME IInv, reader = "preamble", NEW i \in 1 .. Len(buffer), i <= PreLen
  PROVE  buffer[i] = <<"pre", i, 0>>
<1>1. TypeOK /\ WriterInv /\ UnitsInv
  BY DEF IInv
<1>2. Len(buffer) \in Nat /\ Len(wire) \in Nat /\ Len(Unsent) \in Nat /\ PreLen \in Nat
  BY <1>1, Numbers, UnsentUnits
<1>3. i \in 1 .. Len(Stream) /\ Stream[i] = buffer[i]
  BY <1>1, <1>2, StreamUnits
<1>4. IsUnit(Consumed + i, buffer[i]) /\ Consumed + i = i
  BY <1>1, <1>3 DEF UnitsInv, Torn, Consumed
<1>5. buffer[i] = Preamble[i] /\ i \in 1 .. PreLen
  BY <1>2, <1>4 DEF IsUnit
<1> QED
  BY <1>5, PreambleUnits

(* How far the units reach. *)
LEMMA UnitsCount ==
  ASSUME IInv, Active
  PROVE  Consumed + Len(buffer) + Len(wire) + Len(Unsent) = Total
<1>1. Consumed \in Int /\ Len(buffer) \in Nat /\ Len(wire) \in Nat /\ Len(Unsent) \in Nat
  BY Numbers, ConsumedInt, UnsentUnits DEF IInv
<1>2. Len(Stream) = Len(buffer) + Len(wire) + Len(Unsent) /\ Consumed + Len(Stream) = Total
  BY StreamUnits DEF IInv, UnitsInv, Active
<1> QED
  BY <1>1, <1>2

(* A step of the reader that takes k units from its buffer. *)
LEMMA Advance ==
  ASSUME IInv, Active, UNCHANGED <<kind, writerVars, wire>>, NEW k \in 0 .. Len(buffer),
         buffer' = From(buffer, k), Consumed' = Consumed + k
  PROVE  UnitsInv'
<1>1. TypeOK /\ WriterInv /\ UnitsInv
  BY DEF IInv
<1>2. buffer \in Seq(Units) /\ wire \in Seq(Units) /\ Unsent \in Seq(Units)
      /\ Len(buffer) \in Nat /\ Len(wire) \in Nat /\ Len(Unsent) \in Nat /\ Consumed \in Int
  BY <1>1, UnsentUnits, Numbers, ConsumedInt DEF TypeOK
<1>3. Unsent' = Unsent /\ Total' = Total /\ \A x, u : IsUnit(x, u)' <=> IsUnit(x, u)
  BY WriterFrame
<1>4. /\ Stream \in Seq(Units) /\ Len(Stream) = Len(buffer) + Len(wire) + Len(Unsent)
      /\ k \in 0 .. Len(Stream) /\ Len(Stream) \in Nat
  BY <1>1, <1>2, StreamUnits
<1>5. Stream' = From(Stream, k)
  <2>1. wire \o Unsent \in Seq(Units)
    BY <1>2, Concat
  <2>2. From(buffer, k) \o (wire \o Unsent) = From(buffer \o (wire \o Unsent), k)
    BY <1>2, <2>1, FromConcat
  <2> QED
    BY <2>2, <1>3 DEF Stream
<1>6. Len(Stream') = Len(Stream) - k /\ \A i \in 1 .. Len(Stream) - k : Stream'[i] = Stream[k + i]
  BY <1>4, <1>5, FromProperties
<1>7. /\ \A i \in 1 .. Len(Stream) : IsUnit(Consumed + i, Stream[i])
      /\ Consumed + Len(Stream) = Total
  BY <1>1 DEF UnitsInv, Active
<1>8. \A i \in 1 .. Len(Stream') : IsUnit(Consumed' + i, Stream'[i])
  <2> SUFFICES ASSUME NEW i \in 1 .. Len(Stream') PROVE IsUnit(Consumed' + i, Stream'[i])
    OBVIOUS
  <2>1. k + i \in 1 .. Len(Stream) /\ Consumed + (k + i) = Consumed' + i /\ i \in 1 .. Len(Stream) - k
    BY <1>2, <1>4, <1>6
  <2> QED
    BY <2>1, <1>6, <1>7
<1>9. Consumed' + Len(Stream') = Total
  BY <1>2, <1>4, <1>6, <1>7
<1> QED
  BY <1>3, <1>8, <1>9 DEF UnitsInv

-----------------------------------------------------------------------------
(* The reader's steps.  read_at_least takes units off the wire. *)
LEMMA FillInv ==
  ASSUME IInv, NEW k \in 1 .. Len(wire), Fill(k)
  PROVE  IInv'
<1>0. TypeOK /\ WriterInv /\ UnitsInv /\ ReaderInv
  BY DEF IInv
<1>1. /\ buffer \in Seq(Units) /\ wire \in Seq(Units) /\ Unsent \in Seq(Units)
      /\ k \in 0 .. Len(wire)
  BY <1>0, UnsentUnits DEF TypeOK
<1>2. buffer' = buffer \o SubSeq(wire, 1, k) /\ wire' = From(wire, k)
  BY DEF Fill
<1>3. /\ ChunksInv' /\ WriterInv'
      /\ Unsent' = Unsent /\ Total' = Total /\ Sealed' = Sealed
      /\ \A x, u : IsUnit(x, u)' <=> IsUnit(x, u)
  BY WriterFrame DEF Fill
<1> DEFINE part == SubSeq(wire, 1, k)
           rest == From(wire, k)
<1>4. part \in Seq(Units) /\ rest \in Seq(Units) /\ part \o rest = wire
  BY <1>1, TakeProperties, FromProperties, Rejoin
<1> HIDE DEF part, rest
<1>5. Stream' = Stream
  <2>1. Stream' = (buffer \o part) \o (rest \o Unsent)
    BY <1>2, <1>3 DEF Stream, part, rest
  <2>2. rest \o Unsent \in Seq(Units)
    BY <1>1, <1>4, Concat
  <2>3. (buffer \o part) \o (rest \o Unsent) = buffer \o (part \o (rest \o Unsent))
    <3> DEFINE tail == rest \o Unsent
    <3>1. buffer \in Seq(Units) /\ part \in Seq(Units) /\ tail \in Seq(Units)
      BY <1>1, <1>4, <2>2
    <3> HIDE DEF tail
    <3>2. (buffer \o part) \o tail = buffer \o (part \o tail)
      BY <3>1, Assoc, SMTT(30)
    <3> QED
      BY <3>2 DEF tail
  <2>4. part \o (rest \o Unsent) = (part \o rest) \o Unsent
    <3>1. part \in Seq(Units) /\ rest \in Seq(Units) /\ Unsent \in Seq(Units)
      BY <1>1, <1>4
    <3> QED
      BY <3>1, Assoc, SMTT(30)
  <2> QED
    BY <2>1, <2>3, <2>4, <1>4 DEF Stream
<1>6. reader \in {"preamble", "len", "data"} /\ wire # <<>>
  <2>1. Len(buffer) \in Nat /\ Len(<<>>) = 0 /\ Len(wire) > 0
    BY <1>0, Numbers
  <2> QED
    BY <1>0, <2>1 DEF Fill, Needed, TypeOK
<1>7. ~Torn
  BY <1>0, <1>6 DEF ReaderInv
<1>8. TypeOK'
  <2>1. buffer' \in Seq(Units) /\ wire' \in Seq(Units)
    BY <1>1, <1>2, <1>4, Concat DEF part, rest
  <2> QED
    BY <1>0, <2>1 DEF TypeOK, Fill, writerVars
<1>9. Consumed' = Consumed
  BY DEF Fill, Consumed
<1>10. UnitsInv'
  BY <1>0, <1>3, <1>5, <1>6, <1>7, <1>9 DEF UnitsInv
<1>11. ReaderInv' /\ DeliveredIsPrefix' /\ NoFalseAlarm' /\ EofMeansAccepted'
  BY <1>3, <1>6, <1>7
     DEF IInv, ReaderInv, DeliveredIsPrefix, NoFalseAlarm, EofMeansAccepted, Fill, writerVars, Torn
<1> QED
  BY <1>3, <1>8, <1>10, <1>11 DEF IInv

(* The stream fails. *)
LEMMA ReadErrInv ==
  ASSUME IInv, ReadErr
  PROVE  IInv'
<1>1. ChunksInv' /\ WriterInv' /\ Sealed' = Sealed
  BY WriterFrame DEF ReadErr
<1>2. TypeOK' /\ UnitsInv'
  BY DEF IInv, TypeOK, ReadErr, writerVars, UnitsInv
<1>3. ReaderInv' /\ DeliveredIsPrefix' /\ NoFalseAlarm' /\ EofMeansAccepted'
  BY <1>1 DEF IInv, ReaderInv, DeliveredIsPrefix, NoFalseAlarm, EofMeansAccepted, ReadErr, writerVars, Torn
<1> QED
  BY <1>1, <1>2, <1>3 DEF IInv

(* The preamble has come: it is what was sent, and so is all behind it. *)
LEMMA ReadHandshakeInv ==
  ASSUME IInv, ReadHandshake
  PROVE  IInv'
<1>0. TypeOK /\ ChunksInv /\ WriterInv /\ UnitsInv /\ ReaderInv
  BY DEF IInv
<1>1. /\ reader = "preamble" /\ Len(buffer) >= PreLen /\ Active
      /\ UNCHANGED <<kind, writerVars, wire, data_length, rcount, opened, reset, got>>
  BY DEF ReadHandshake, Active, Torn
<1>2. /\ buffer \in Seq(Units) /\ Len(buffer) \in Nat /\ PreLen \in Nat /\ PreLen > 0
      /\ PreLen \in 0 .. Len(buffer)
  BY <1>0, <1>1, Numbers DEF TypeOK
<1>3. SubSeq(buffer, 1, PreLen) = Preamble
  <2>1. /\ SubSeq(buffer, 1, PreLen) \in Seq(Units) /\ Len(SubSeq(buffer, 1, PreLen)) = PreLen
        /\ \A i \in 1 .. PreLen : SubSeq(buffer, 1, PreLen)[i] = buffer[i]
    BY <1>2, TakeProperties
  <2>2. \A i \in 1 .. PreLen : i \in 1 .. Len(buffer) /\ i <= PreLen
    BY <1>2
  <2>3. \A i \in 1 .. PreLen : SubSeq(buffer, 1, PreLen)[i] = Preamble[i]
    BY <2>1, <2>2, <1>1, PreambleAt, PreambleUnits
  <2> QED
    BY <2>1, <2>3, PreambleUnits, SeqEqual
<1>4. reader' = "len" /\ buffer' = From(buffer, PreLen)
  BY <1>3 DEF ReadHandshake
<1>5. buffer' \in Seq(Units)
  BY <1>2, <1>4, FromProperties
<1>6. TypeOK'
  BY <1>0, <1>1, <1>4, <1>5 DEF TypeOK, writerVars
<1>7. ChunksInv' /\ WriterInv' /\ Sealed' = Sealed
  BY <1>1, WriterFrame
<1>8. opened = 0 /\ got = <<>> /\ Len(got) = 0
  BY <1>0, <1>1 DEF ReaderInv
<1>9. Consumed = 0 /\ Consumed' = PreLen
  BY <1>1, <1>2, <1>4, <1>8 DEF Consumed, LenSize
<1>10. UnitsInv'
  BY <1>1, <1>2, <1>4, <1>9, Advance
<1>11. writer # "header"
  <2> SUFFICES ASSUME writer = "header" PROVE FALSE
    OBVIOUS
  <2>1. Len(Unsent) = PreLen - header_pos /\ header_pos \in Nat /\ header_pos < PreLen /\ Len(chunks) = 0
    BY <1>0, UnsentUnits, Numbers DEF WriterInv
  <2>2. Total = PreLen
    BY <1>0, <1>2, <2>1 DEF ChunksInv, Total, LenSize
  <2>3. Consumed + Len(buffer) + Len(wire) + Len(Unsent) = Total /\ Len(wire) \in Nat
    BY <1>0, <1>1, UnitsCount, Numbers
  <2> QED
    BY <1>1, <1>2, <1>9, <2>1, <2>2, <2>3
<1>12. ReaderInv'
  <2>1. ~Torn'
    BY <1>1, <1>11 DEF Torn, writerVars
  <2>2. Len(got)' = IF 0 < Len(chunks) THEN chunks[1].from ELSE Sealed
    BY <1>0, <1>1, <1>8, Numbers, SMTT(30) DEF ChunksInv
  <2> QED
    BY <1>0, <1>1, <1>4, <1>7, <1>8, <2>1, <2>2 DEF ReaderInv, writerVars
<1>13. DeliveredIsPrefix' /\ NoFalseAlarm' /\ EofMeansAccepted'
  BY <1>1, <1>4 DEF IInv, DeliveredIsPrefix, NoFalseAlarm, EofMeansAccepted, writerVars
<1> QED
  BY <1>6, <1>7, <1>10, <1>12, <1>13 DEF IInv

(* The next chunk's length: it is in step with the writer, unless the      *)
(* header was torn.                                                        *)
LEMMA ReadLengthInv ==
  ASSUME IInv, ReadLength
  PROVE  IInv'
<1>0. TypeOK /\ ChunksInv /\ WriterInv /\ UnitsInv /\ ReaderInv
  BY DEF IInv
<1>1. /\ reader = "len" /\ Len(buffer) >= 2
      /\ UNCHANGED <<kind, writerVars, wire, rcount, opened, reset, got>>
  BY DEF ReadLength, LenSize
<1>2. buffer \in Seq(Units) /\ Len(buffer) \in Nat /\ 2 \in 0 .. Len(buffer)
  BY <1>0, <1>1, Numbers DEF TypeOK
<1>3. /\ SubSeq(buffer, 1, 2) \in Seq(Units) /\ Len(SubSeq(buffer, 1, 2)) = 2
      /\ \A i \in 1 .. 2 : SubSeq(buffer, 1, 2)[i] = buffer[i]
  BY <1>2, TakeProperties
<1>4. ChunksInv' /\ WriterInv' /\ Sealed' = Sealed
  BY <1>1, WriterFrame
<1>5. CASE Torn
  <2>1. /\ closed /\ got = <<>> /\ Len(got) = 0 /\ buffer[1][1] = "pre"
        /\ writer = "header" /\ accepted = 0
    BY <1>0, <1>2, <1>5, Numbers DEF ReaderInv, Torn, WriterInv, ChunksInv, Sealed
  <2>2. \A n : SubSeq(buffer, 1, 2) # LenField(n, rcount)
    BY <2>1, <1>3 DEF LenField, LenSize
  <2>3. /\ reader' = "err" \/ reader' = "eof"
        /\ UNCHANGED <<data_length, buffer>>
    BY <2>2 DEF ReadLength, LenSize
  <2>4. TypeOK' /\ UnitsInv'
    BY <1>0, <1>1, <2>3 DEF TypeOK, UnitsInv, writerVars
  <2>5. ReaderInv'
    BY <1>0, <1>1, <1>4, <2>1, <2>3 DEF ReaderInv, Torn, writerVars
  <2>6. DeliveredIsPrefix' /\ NoFalseAlarm' /\ EofMeansAccepted'
    BY <1>1, <2>1, <2>3 DEF IInv, DeliveredIsPrefix, NoFalseAlarm, EofMeansAccepted, writerVars
  <2> QED
    BY <1>4, <2>4, <2>5, <2>6 DEF IInv
<1>6. CASE ~Torn
  <2> DEFINE w == Len(chunks)
             j == opened + 1
             n == chunks[j].size
             f == chunks[j].from
  <2>0. Active
    BY <1>1, <1>6 DEF Active
  <2>1. /\ w \in Nat /\ opened \in Nat /\ PreLen \in Nat /\ Len(got) \in Nat /\ Sealed \in Nat
        /\ Len(wire) \in Nat /\ Len(Unsent) \in Nat /\ Consumed \in Int
    BY <1>0, Numbers, UnsentUnits, ConsumedInt
  <2>2. opened <= w /\ Len(got) = IF opened < w THEN f ELSE Sealed
    BY <1>0, <1>1, <1>6 DEF ReaderInv
  <2>3. Consumed = PreLen + Len(got) + 3 * opened
    BY <1>1, <2>1 DEF Consumed, LenSize
  <2>4. opened < w
    <3>1. Consumed + Len(buffer) + Len(wire) + Len(Unsent) = Total
      BY <2>0, UnitsCount
    <3>2. Total = PreLen + Sealed + 3 * w
      BY DEF Total, LenSize
    <3> HIDE DEF w, f
    <3> QED
      BY <1>1, <1>2, <2>1, <2>2, <2>3, <3>1, <3>2, SMTT(30)
  <2>5. j \in 1 .. w /\ j - 1 = opened
    BY <2>1, <2>4
  <2>6. Start(j) = PreLen + f + 3 * (j - 1)
    BY <1>0, <2>5, ChunkOrder
  <2>7. Consumed = Start(j)
    BY <2>2, <2>3, <2>4, <2>5, <2>6
  <2>8. n \in Nat /\ f \in Nat /\ chunks[j].count \in Nat /\ rcount = chunks[j].count
        /\ n > 0 /\ n <= MaxPacket /\ MaxPacket \in Nat
    BY <1>0, <2>4, <2>5, ChunkFields, Numbers DEF ReaderInv
  <2>9. \A i \in 1 .. 2 : buffer[i] = <<"len", n, LenNonce(rcount)>>
    <3> SUFFICES ASSUME NEW i \in 1 .. 2 PROVE buffer[i] = <<"len", n, LenNonce(rcount)>>
      OBVIOUS
    <3>1. i \in 1 .. Len(buffer) /\ i \in 1 .. chunks[j].size + 3 /\ Consumed + i = Start(j) + i
      BY <1>1, <1>2, <2>7, <2>8
    <3>2. buffer[i] = Chunk(chunks[j].from, chunks[j].size, chunks[j].count)[i]
      BY <3>1, <2>0, <2>5, UnitAt
    <3>3. Chunk(chunks[j].from, chunks[j].size, chunks[j].count)[i]
            = <<"len", chunks[j].size, LenNonce(chunks[j].count)>>
      BY <1>0, <2>5, UnitsOfChunk
    <3> QED
      BY <3>2, <3>3, <2>8
  <2>10. buffer[1][2] = n /\ SubSeq(buffer, 1, 2) = LenField(n, rcount)
    <3>1. buffer[1] = <<"len", n, LenNonce(rcount)>>
      BY <2>9
    <3>2. buffer[1][2] = n
      BY <3>1
    <3>3. /\ Len(LenField(n, rcount)) = 2
          /\ \A i \in 1 .. 2 : LenField(n, rcount)[i] = <<"len", n, LenNonce(rcount)>>
      BY DEF LenField, LenSize
    <3>4. LenField(n, rcount) \in Seq(Units)
      <4>1. rcount \in Nat /\ LenNonce(rcount) \in Nat
        BY <2>8 DEF LenNonce
      <4> HIDE DEF n
      <4>2. <<"len", n, LenNonce(rcount)>> \in Units
        BY <2>8, <4>1 DEF Units
      <4> QED
        BY <4>2 DEF LenField, LenSize
    <3> HIDE DEF n
    <3>5. \A i \in 1 .. 2 : SubSeq(buffer, 1, 2)[i] = LenField(n, rcount)[i]
      BY <2>9, <3>3, <1>3
    <3> QED
      BY <3>2, <3>3, <3>4, <3>5, <1>3, SeqEqual
  <2>11. reader' = "data" /\ data_length' = n + 1 /\ buffer' = From(buffer, 2)
    BY <2>10 DEF ReadLength, LenSize
  <2>12. buffer' \in Seq(Units)
    BY <1>2, <2>11, FromProperties
  <2>13. data_length' \in 0 .. MaxPacket + 1
    BY <2>8, <2>11
  <2>14. TypeOK'
    BY <1>0, <1>1, <2>11, <2>12, <2>13 DEF TypeOK, writerVars
  <2>15. UnitsInv'
    <3>1. Consumed' = Consumed + 2
      BY <1>1, <2>1, <2>3, <2>11 DEF Consumed, LenSize
    <3> QED
      BY <3>1, <1>1, <1>2, <2>0, <2>11, Advance
  <2>16. ReaderInv'
    BY <1>0, <1>1, <1>4, <2>2, <2>4, <2>11 DEF ReaderInv, Torn, writerVars
  <2>17. DeliveredIsPrefix' /\ NoFalseAlarm' /\ EofMeansAccepted'
    BY <1>1, <2>11 DEF IInv, DeliveredIsPrefix, NoFalseAlarm, EofMeansAccepted, writerVars
  <2> QED
    BY <1>4, <2>14, <2>15, <2>16, <2>17 DEF IInv
<1> QED
  BY <1>5, <1>6

(* The chunk the reader works on, and the numbers of its units. *)
LEMMA DataChunk ==
  ASSUME IInv, reader = "data"
  PROVE  /\ Active /\ opened + 1 \in 1 .. Len(chunks) /\ opened \in Nat
         /\ chunks[opened + 1].size \in Nat /\ data_length = chunks[opened + 1].size + 1
         /\ Consumed = Start(opened + 1) + 2
         /\ Len(got) = chunks[opened + 1].from
         /\ rcount = chunks[opened + 1].count
<1>0. TypeOK /\ ChunksInv /\ ReaderInv
  BY DEF IInv
<1>1. Len(chunks) \in Nat /\ opened \in Nat /\ PreLen \in Nat
  BY <1>0, Numbers
<1>2. /\ opened < Len(chunks) /\ ~Torn /\ data_length = chunks[opened + 1].size + 1
      /\ Len(got) = chunks[opened + 1].from /\ rcount = chunks[opened + 1].count
  BY <1>0 DEF ReaderInv, Torn
<1>3. opened + 1 \in 1 .. Len(chunks) /\ (opened + 1) - 1 = opened
  BY <1>1, <1>2
<1> DEFINE f == chunks[opened + 1].from
<1>4. Start(opened + 1) = PreLen + f + 3 * opened /\ Consumed = PreLen + f + 3 * opened + 2 /\ f \in Nat
      /\ chunks[opened + 1].size \in Nat
  BY <1>0, <1>2, <1>3, ChunkOrder, ChunkFields, SMTT(30) DEF Consumed, LenSize
<1> HIDE DEF f
<1>5. Consumed = Start(opened + 1) + 2
  BY <1>1, <1>4
<1> QED
  BY <1>1, <1>2, <1>3, <1>4, <1>5 DEF Active

LEMMA PutChunk ==
  ASSUME IInv, reader = "put"
  PROVE  /\ Active /\ opened \in 1 .. Len(chunks)
         /\ chunks[opened].from \in Nat /\ chunks[opened].size \in Nat
         /\ Len(got) >= chunks[opened].from
         /\ Len(got) + data_length = chunks[opened].from + chunks[opened].size
         /\ Consumed = Start(opened) + 2 + (Len(got) - chunks[opened].from)
         /\ Len(buffer) > data_length
<1>0. TypeOK /\ ChunksInv /\ ReaderInv
  BY DEF IInv
<1>1. Len(chunks) \in Nat /\ opened \in Nat /\ PreLen \in Nat /\ Len(got) \in Nat
  BY <1>0, Numbers
<1>2. /\ opened <= Len(chunks) /\ opened > 0 /\ Len(got) >= chunks[opened].from
      /\ Len(got) + data_length = chunks[opened].from + chunks[opened].size
      /\ Len(buffer) > data_length
  BY <1>0 DEF ReaderInv
<1>3. opened \in 1 .. Len(chunks)
  BY <1>1, <1>2
<1> DEFINE f == chunks[opened].from
<1>4. /\ Start(opened) = PreLen + f + 3 * (opened - 1)
      /\ f \in Nat /\ chunks[opened].size \in Nat
  BY <1>0, <1>3, ChunkOrder, ChunkFields
<1>5. Consumed = PreLen + Len(got) + 3 * opened - 1
  BY <1>1 DEF Consumed, LenSize
<1> HIDE DEF f
<1>6. Consumed = Start(opened) + 2 + (Len(got) - f)
  BY <1>1, <1>4, <1>5
<1> QED
  BY <1>2, <1>3, <1>4, <1>6 DEF Active, Torn, f

(* A chunk opens: its units are those that were sealed, under the count    *)
(* that the reader has reached.                                            *)
LEMMA DecryptInv ==
  ASSUME IInv, Decrypt
  PROVE  IInv'
<1>0. TypeOK /\ ChunksInv /\ WriterInv /\ UnitsInv /\ ReaderInv
  BY DEF IInv
<1>1. /\ reader = "data" /\ Len(buffer) >= data_length
      /\ UNCHANGED <<kind, writerVars, wire, buffer, reset, got>>
  BY DEF Decrypt
<1> DEFINE j == opened + 1
           n == chunks[j].size
<1>2. /\ Active /\ j \in 1 .. Len(chunks) /\ opened \in Nat /\ n \in Nat /\ data_length = n + 1
      /\ Consumed = Start(j) + 2 /\ Len(got) = chunks[j].from /\ rcount = chunks[j].count
  BY <1>1, DataChunk
<1>3. Len(buffer) \in Nat /\ Start(j) \in Nat /\ Len(got) \in Nat /\ Len(chunks) \in Nat /\ PreLen \in Nat
  BY <1>0, <1>2, Numbers, ChunkOrder
<1>4. ASSUME NEW i \in 1 .. n + 1
      PROVE  buffer[i] = Chunk(chunks[j].from, chunks[j].size, chunks[j].count)[i + 2]
  <2>1. i \in 1 .. Len(buffer) /\ i + 2 \in 1 .. chunks[j].size + 3
    BY <1>1, <1>2, <1>3, SMTT(30)
  <2>2. Consumed + i = Start(j) + (i + 2)
    BY <1>2, <1>3
  <2> QED
    BY <2>1, <2>2, <1>2, UnitAt
<1>5. \A i \in 1 .. n : buffer[i] = <<"data", chunks[j].from + i, DataNonce(rcount)>>
  <2> SUFFICES ASSUME NEW i \in 1 .. n
               PROVE  buffer[i] = <<"data", chunks[j].from + i, DataNonce(rcount)>>
    OBVIOUS
  <2>1. buffer[i] = Chunk(chunks[j].from, chunks[j].size, chunks[j].count)[i + 2]
    <3>1. i \in 1 .. n + 1
      BY <1>2
    <3> QED
      BY <1>4, <3>1
  <2>2. Chunk(chunks[j].from, chunks[j].size, chunks[j].count)[i + 2]
          = <<"data", chunks[j].from + i, DataNonce(chunks[j].count)>>
    BY <1>0, <1>2, UnitsOfChunk
  <2> QED
    BY <2>1, <2>2, <1>2
<1>6. buffer[n + 1] = <<"tag", n, DataNonce(rcount)>>
  <2>1. n + 1 \in 1 .. n + 1 /\ (n + 1) + 2 = n + 3
    BY <1>2
  <2>2. buffer[n + 1] = Chunk(chunks[j].from, chunks[j].size, chunks[j].count)[n + 3]
    BY <1>4, <2>1
  <2>3. Chunk(chunks[j].from, chunks[j].size, chunks[j].count)[n + 3]
          = <<"tag", n, DataNonce(chunks[j].count)>>
    BY <1>0, <1>2, UnitsOfChunk
  <2> QED
    BY <2>2, <2>3, <1>2
<1>7. /\ reader' = "put" /\ data_length' = n
      /\ rcount' = NextCount(rcount) /\ opened' = j
  <2>1. data_length - 1 = n
    BY <1>2
  <2>2. /\ \A i \in 1 .. n : buffer[i][1] = "data" /\ buffer[i][3] = DataNonce(rcount)
        /\ buffer[n + 1] = <<"tag", n, DataNonce(rcount)>>
    BY <1>5, <1>6
  <2> HIDE DEF n
  <2> QED
    BY <2>1, <2>2 DEF Decrypt
<1>8. ChunksInv' /\ WriterInv' /\ Sealed' = Sealed
  BY <1>1, WriterFrame
<1>9. rcount' = IF j = Len(chunks) THEN wcount ELSE chunks[j + 1].count
  BY <1>0, <1>2, <1>7 DEF ChunksInv
<1>10. TypeOK'
  <2>0. n <= MaxPacket /\ MaxPacket \in Nat
    BY <1>0, <1>2, ChunkFields, Numbers
  <2>1. data_length' \in 0 .. MaxPacket + 1 /\ opened' \in Nat
    BY <2>0, <1>2, <1>7
  <2>2. rcount' \in Nat
    <3>1. j # Len(chunks) => j + 1 \in 1 .. Len(chunks)
      BY <1>2, <1>3
    <3> QED
      BY <3>1, <1>0, <1>9, ChunkFields, Numbers
  <2> QED
    BY <1>0, <1>1, <1>7, <2>1, <2>2 DEF TypeOK, writerVars
<1>11. UnitsInv'
  <2>1. Consumed' = Consumed + 0
    BY <1>1, <1>2, <1>3, <1>7, SMTT(30) DEF Consumed, LenSize
  <2>2. From(buffer, 0) = buffer /\ 0 \in 0 .. Len(buffer)
    BY <1>0, <1>3, SubSeqFull DEF From, TypeOK
  <2> QED
    BY <2>1, <2>2, <1>1, <1>2, Advance
<1>12. ReaderInv'
  <2>1. Len(buffer)' > data_length'
    BY <1>1, <1>2, <1>3, <1>7
  <2>2. /\ opened' > 0 /\ opened' <= Len(chunks)' /\ Len(got)' >= chunks'[opened'].from
        /\ Len(got)' + data_length' = chunks'[opened'].from + chunks'[opened'].size
    BY <1>1, <1>2, <1>3, <1>7 DEF writerVars
  <2>3. rcount' = IF opened' < Len(chunks)' THEN chunks'[opened' + 1].count ELSE wcount'
    BY <1>1, <1>2, <1>3, <1>7, <1>9 DEF writerVars
  <2> QED
    BY <1>7, <2>1, <2>2, <2>3 DEF ReaderInv, Torn
<1>13. DeliveredIsPrefix' /\ NoFalseAlarm' /\ EofMeansAccepted'
  BY <1>1, <1>7 DEF IInv, DeliveredIsPrefix, NoFalseAlarm, EofMeansAccepted, writerVars
<1> QED
  BY <1>8, <1>10, <1>11, <1>12, <1>13 DEF IInv

(* The caller is given the next bytes of the chunk. *)
LEMMA PutInv ==
  ASSUME IInv, NEW room \in 1 .. MaxRoom, Put(room)
  PROVE  IInv'
<1>0. TypeOK /\ ChunksInv /\ WriterInv /\ UnitsInv /\ ReaderInv /\ DeliveredIsPrefix
  BY DEF IInv
<1> DEFINE k == ToPut(room)
           f == chunks[opened].from
           n == chunks[opened].size
           more == [i \in 1 .. k |-> buffer[i][2]]
<1>1. /\ reader = "put" /\ data_length > 0
      /\ got' = got \o more /\ data_length' = data_length - k /\ buffer' = From(buffer, k)
      /\ UNCHANGED <<kind, writerVars, wire, reader, rcount, opened, reset>>
  BY DEF Put
<1>2. /\ Active /\ opened \in 1 .. Len(chunks) /\ f \in Nat /\ n \in Nat
      /\ Len(got) >= f /\ Len(got) + data_length = f + n
      /\ Consumed = Start(opened) + 2 + (Len(got) - f) /\ Len(buffer) > data_length
  BY <1>1, PutChunk
<1>3. /\ Len(buffer) \in Nat /\ data_length \in Nat /\ Len(got) \in Nat /\ Sealed \in Nat
      /\ opened \in Nat /\ PreLen \in Nat /\ MaxRoom \in Nat
  BY <1>0, Numbers, ChunkAssumption
<1>4. f + n <= Sealed /\ Start(opened) \in Nat
  BY <1>0, <1>2, ChunkOrder
<1>5. k \in Nat /\ k > 0 /\ k <= data_length
  BY <1>1, <1>3 DEF ToPut, LeastOf
<1> HIDE DEF k, f, n
<1>6. \A i \in 1 .. k : buffer[i][2] = Len(got) + i
  <2> SUFFICES ASSUME NEW i \in 1 .. k PROVE buffer[i][2] = Len(got) + i
    OBVIOUS
  <2> DEFINE y == Len(got) - f + i
  <2>1. /\ i \in 1 .. Len(buffer) /\ y \in 1 .. n /\ y + 2 \in 1 .. n + 3
        /\ Consumed + i = Start(opened) + (y + 2) /\ f + y = Len(got) + i
    BY <1>2, <1>3, <1>4, <1>5, SMTT(30)
  <2> HIDE DEF y
  <2>2. buffer[i] = Chunk(chunks[opened].from, chunks[opened].size, chunks[opened].count)[y + 2]
    BY <2>1, <1>2, UnitAt DEF n
  <2>3. Chunk(chunks[opened].from, chunks[opened].size, chunks[opened].count)[y + 2]
          = <<"data", f + y, DataNonce(chunks[opened].count)>>
    BY <1>0, <1>2, <2>1, UnitsOfChunk DEF n, f
  <2> QED
    BY <2>1, <2>2, <2>3
<1>7. more \in Seq(Nat) /\ Len(more) = k /\ \A i \in 1 .. k : more[i] = Len(got) + i
  <2>1. \A i \in 1 .. k : more[i] = Len(got) + i /\ more[i] \in Nat
    BY <1>3, <1>5, <1>6
  <2>2. more = [i \in 1 .. k |-> more[i]]
    OBVIOUS
  <2> HIDE DEF more
  <2> QED
    BY <2>1, <2>2, <1>5, Tabulate
<1> HIDE DEF more
<1>8. /\ got' \in Seq(Nat) /\ Len(got') = Len(got) + k
      /\ \A i \in 1 .. Len(got) : got'[i] = got[i]
      /\ \A i \in 1 .. k : got'[Len(got) + i] = Len(got) + i
  <2>1. got \in Seq(Nat) /\ more \in Seq(Nat)
    BY <1>0, <1>7 DEF TypeOK
  <2>2. /\ got \o more \in Seq(Nat) /\ Len(got \o more) = Len(got) + Len(more)
        /\ \A i \in 1 .. Len(got) : (got \o more)[i] = got[i]
        /\ \A i \in 1 .. Len(more) : (got \o more)[Len(got) + i] = more[i]
    BY <2>1, Concat
  <2> QED
    BY <2>2, <1>1, <1>7
<1>9. DeliveredIsPrefix'
  <2>1. \A i \in 1 .. Len(got') : got'[i] = i
    <3> SUFFICES ASSUME NEW i \in 1 .. Len(got') PROVE got'[i] = i
      OBVIOUS
    <3>1. CASE i <= Len(got)
      <4>1. \A m \in 1 .. Len(got) : got[m] = m
        BY <1>0, SMTT(30) DEF DeliveredIsPrefix, TypeOK
      <4> QED
        BY <4>1, <3>1, <1>3, <1>8
    <3>2. CASE i > Len(got)
      <4>1. i - Len(got) \in 1 .. k /\ Len(got) + (i - Len(got)) = i
        BY <3>2, <1>3, <1>5, <1>8
      <4> QED
        BY <4>1, <1>8
    <3> QED
      BY <3>1, <3>2, <1>3, <1>5, <1>8
  <2>2. DOMAIN got' = 1 .. Len(got')
    BY <1>8
  <2>3. Len(got') <= Sealed
    BY <1>2, <1>3, <1>4, <1>5, <1>8
  <2>4. Sealed' = Sealed
    BY <1>1, WriterFrame
  <2> QED
    BY <2>1, <2>2, <2>3, <2>4 DEF DeliveredIsPrefix, Sealed
<1>10. ChunksInv' /\ WriterInv' /\ Sealed' = Sealed
  BY <1>1, WriterFrame
<1>11. buffer' \in Seq(Units) /\ Len(buffer') = Len(buffer) - k
  <2>1. buffer \in Seq(Units) /\ k \in 0 .. Len(buffer)
    BY <1>0, <1>2, <1>3, <1>5 DEF TypeOK
  <2> QED
    BY <2>1, <1>1, FromProperties
<1>12. TypeOK'
  <2>1. data_length' \in 0 .. MaxPacket + 1
    <3>1. data_length \in 0 .. MaxPacket + 1 /\ MaxPacket \in Nat
      BY <1>0, Numbers DEF TypeOK
    <3> QED
      BY <3>1, <1>1, <1>3, <1>5
  <2> QED
    BY <1>0, <1>1, <1>8, <1>11, <2>1 DEF TypeOK, writerVars
<1>13. UnitsInv'
  <2>1. k \in 0 .. Len(buffer)
    BY <1>2, <1>3, <1>5
  <2>2. Consumed' = Consumed + k
    BY <1>1, <1>3, <1>5, <1>8 DEF Consumed, LenSize
  <2> QED
    BY <2>1, <2>2, <1>1, <1>2, Advance
<1>14. ReaderInv'
  <2>1. Len(buffer)' > data_length'
    BY <1>1, <1>2, <1>3, <1>5, <1>11
  <2>2. Len(got)' >= f /\ Len(got)' + data_length' = f + n
    <3>1. Len(got') = Len(got) + k /\ data_length' = data_length - k
      BY <1>1, <1>8
    <3>2. Len(got) >= f /\ Len(got) + data_length = f + n /\ f \in Nat /\ n \in Nat
      BY <1>2
    <3> QED
      BY <3>1, <3>2, <1>3, <1>5
  <2> QED
    BY <1>0, <1>1, <1>2, <1>3, <2>1, <2>2 DEF ReaderInv, Torn, writerVars, f, n
<1>15. NoFalseAlarm' /\ EofMeansAccepted'
  BY <1>1 DEF IInv, NoFalseAlarm, EofMeansAccepted
<1> QED
  BY <1>9, <1>10, <1>12, <1>13, <1>14, <1>15 DEF IInv

(* The tag is dropped, and the reader is at the start of a chunk. *)
LEMMA DropTagInv ==
  ASSUME IInv, DropTag
  PROVE  IInv'
<1>0. TypeOK /\ ChunksInv /\ WriterInv /\ UnitsInv /\ ReaderInv
  BY DEF IInv
<1> DEFINE f == chunks[opened].from
           n == chunks[opened].size
<1>1. /\ reader = "put" /\ data_length = 0 /\ buffer' = From(buffer, 1) /\ reader' = "len"
      /\ UNCHANGED <<kind, writerVars, wire, data_length, rcount, opened, reset, got>>
  BY DEF DropTag
<1>2. /\ Active /\ opened \in 1 .. Len(chunks) /\ f \in Nat /\ n \in Nat
      /\ Len(got) + data_length = f + n /\ Len(buffer) > data_length
  BY <1>1, PutChunk
<1>3. /\ Len(buffer) \in Nat /\ data_length \in Nat /\ Len(got) \in Nat /\ Len(chunks) \in Nat
      /\ opened \in Nat /\ PreLen \in Nat
  BY <1>0, Numbers
<1>4. buffer' \in Seq(Units)
  <2>1. buffer \in Seq(Units) /\ 1 \in 0 .. Len(buffer)
    BY <1>0, <1>1, <1>2, <1>3 DEF TypeOK
  <2> QED
    BY <2>1, <1>1, FromProperties
<1>5. TypeOK'
  BY <1>0, <1>1, <1>4 DEF TypeOK, writerVars
<1>6. ChunksInv' /\ WriterInv' /\ Sealed' = Sealed
  BY <1>1, WriterFrame
<1>7. UnitsInv'
  <2>1. 1 \in 0 .. Len(buffer)
    BY <1>1, <1>2, <1>3
  <2>2. Consumed' = Consumed + 1
    BY <1>1, <1>3 DEF Consumed, LenSize
  <2> QED
    BY <2>1, <2>2, <1>1, <1>2, Advance
<1>8. ReaderInv'
  <2>1. ~Torn'
    <3>1. writer # "header"
      BY <1>0, <1>2 DEF WriterInv
    <3> QED
      BY <3>1, <1>1 DEF Torn, writerVars
  <2>2. Len(got) = IF opened < Len(chunks) THEN chunks[opened + 1].from ELSE Sealed
    <3>1. Len(got) = f + n
      BY <1>1, <1>2, <1>3
    <3>2. f + n = IF opened = Len(chunks) THEN Sealed ELSE chunks[opened + 1].from
      BY <1>0, <1>2 DEF ChunksInv
    <3> HIDE DEF f, n
    <3> QED
      BY <3>1, <3>2, <1>2, <1>3
  <2> QED
    BY <1>0, <1>1, <1>2, <1>6, <2>1, <2>2 DEF ReaderInv, writerVars
<1>9. DeliveredIsPrefix' /\ NoFalseAlarm' /\ EofMeansAccepted'
  BY <1>1 DEF IInv, DeliveredIsPrefix, NoFalseAlarm, EofMeansAccepted, writerVars
<1> QED
  BY <1>5, <1>6, <1>7, <1>8, <1>9 DEF IInv

(* What can be missing when the stream has ended: all but the last chunk   *)
(* was written, and of the last one nothing was reported.                  *)
LEMMA SentUnits ==
  ASSUME IInv, Active
  PROVE  /\ writer = "writing" => /\ accepted = chunks[Len(chunks)].from
                                  /\ Len(chunks) \in 1 .. Len(chunks)
                                  /\ Len(chunks) > 1 \/ kind = "Vmess" =>
                                       Consumed + Len(buffer) + Len(wire) >= Start(Len(chunks))
                                  /\ Consumed + Len(buffer) + Len(wire) < Total
         /\ writer = "idle" => /\ accepted = Sealed
                               /\ ~(kind = "SS" /\ Len(chunks) = 0) =>
                                    Consumed + Len(buffer) + Len(wire) = Total
         /\ writer = "header" => accepted = 0 /\ Total = PreLen /\ kind = "Vmess"
<1>0. TypeOK /\ ChunksInv /\ WriterInv /\ UnitsInv
  BY DEF IInv
<1> DEFINE w == Len(chunks)
           l == chunks[w].from
           x == Consumed + Len(buffer) + Len(wire)
<1>1. /\ w \in Nat /\ Consumed \in Int /\ Len(buffer) \in Nat /\ Len(wire) \in Nat /\ Len(Unsent) \in Nat
      /\ PreLen \in Nat /\ pos \in Nat /\ data_len \in Nat /\ accepted \in Nat
  BY <1>0, Numbers, ConsumedInt, UnsentUnits
<1>2. x + Len(Unsent) = Total /\ x \in Int
  BY <1>1, UnitsCount
<1>3. Total = PreLen + Sealed + 3 * w
  BY DEF Total, LenSize
<1> HIDE DEF x
<1>4. CASE writer = "writing"
  <2>1. /\ w > 0 /\ l = accepted /\ Len(Unsent) = Len(buf) - pos /\ pos < Len(buf)
        /\ w > 1 \/ kind = "Vmess" => Len(buf) = data_len + 3
        /\ Len(buf) \in Nat
    BY <1>0, <1>1, <1>4, UnsentUnits, Numbers DEF WriterInv, LenSize, TypeOK
  <2>2. w \in 1 .. w
    BY <2>1, <1>1
  <2>3. Start(w) = PreLen + accepted + 3 * (w - 1)
    BY <1>0, <2>1, <2>2, ChunkOrder
  <2>4. Sealed = accepted + data_len
    BY <1>4 DEF Sealed
  <2> HIDE DEF w, l
  <2>5. w > 1 \/ kind = "Vmess" => x >= Start(w)
    <3> SUFFICES ASSUME w > 1 \/ kind = "Vmess" PROVE x >= Start(w)
      OBVIOUS
    <3>1. Len(Unsent) <= data_len + 3
      BY <2>1, <1>1
    <3> QED
      BY <3>1, <1>1, <1>2, <1>3, <2>3, <2>4
  <2>6. x < Total
    BY <1>1, <1>2, <1>3, <2>1, <2>4
  <2> QED
    BY <1>4, <2>1, <2>2, <2>5, <2>6 DEF x, w, l
<1>5. CASE writer = "idle"
  <2>1. accepted = Sealed
    BY <1>1, <1>5 DEF Sealed
  <2>2. ~(kind = "SS" /\ w = 0) => x = Total
    <3> SUFFICES ASSUME ~(kind = "SS" /\ w = 0) PROVE x = Total
      OBVIOUS
    <3>1. Unsent = <<>>
      BY <1>0, <1>5, UnsentUnits
    <3>2. Len(Unsent) = 0
      BY <3>1
    <3> QED
      BY <3>2, <1>2
  <2> QED
    BY <1>5, <2>1, <2>2 DEF x
<1>6. CASE writer = "header"
  <2>1. w = 0 /\ Sealed = 0 /\ Sealed = accepted /\ kind = "Vmess"
    BY <1>0, <1>1, <1>6 DEF WriterInv, ChunksInv, Sealed
  <2> QED
    BY <1>1, <1>3, <1>6, <2>1
<1> QED
  BY <1>0, <1>4, <1>5, <1>6 DEF TypeOK

(* The end of the stream, before the preamble was complete. *)
LEMMA ZeroInPreamble ==
  ASSUME IInv, reader = "preamble", Len(buffer) < PreLen, wire = <<>>
  PROVE  accepted = 0 /\ (kind = "Vmess" => writer = "header")
<1>0. TypeOK /\ ChunksInv /\ WriterInv /\ Active
  BY DEF IInv, Active, Torn
<1>1. /\ Consumed = 0 /\ Len(wire) = 0 /\ Len(buffer) \in Nat /\ PreLen \in Nat
      /\ Len(chunks) \in Nat /\ Sealed \in Nat /\ accepted \in Nat
  BY <1>0, Numbers DEF Consumed
<1>2. Total = PreLen + Sealed + 3 * Len(chunks)
  BY DEF Total, LenSize
<1>3. CASE writer = "header"
  BY <1>0, <1>3, SentUnits
<1>4. CASE writer = "idle"
  <2>1. accepted = Sealed /\ (~(kind = "SS" /\ Len(chunks) = 0) => Consumed + Len(buffer) + Len(wire) = Total)
    BY <1>0, <1>4, SentUnits
  <2>2. kind = "SS" /\ Len(chunks) = 0
    BY <1>1, <1>2, <2>1
  <2> QED
    BY <1>0, <2>1, <2>2 DEF ChunksInv
<1>5. CASE writer = "writing"
  <2>1. /\ accepted = chunks[Len(chunks)].from /\ Len(chunks) \in 1 .. Len(chunks)
        /\ Len(chunks) > 1 \/ kind = "Vmess" =>
             Consumed + Len(buffer) + Len(wire) >= Start(Len(chunks))
    BY <1>0, <1>5, SentUnits
  <2>2. Start(Len(chunks)) >= PreLen /\ Start(Len(chunks)) \in Nat
    BY <1>0, <2>1, ChunkOrder
  <2>3. ~(Len(chunks) > 1 \/ kind = "Vmess")
    BY <1>1, <2>1, <2>2
  <2>4. Len(chunks) = 1
    <3> DEFINE w == Len(chunks)
    <3>1. w \in Nat /\ w \in 1 .. w /\ ~(w > 1)
      BY <1>1, <2>1, <2>3
    <3> HIDE DEF w
    <3>2. w = 1
      BY <3>1
    <3> QED
      BY <3>2 DEF w
  <2> QED
    BY <1>0, <2>1, <2>3, <2>4 DEF ChunksInv
<1> QED
  BY <1>0, <1>3, <1>4, <1>5 DEF TypeOK

(* The end of the stream, before or within a chunk. *)
LEMMA ZeroInChunk ==
  ASSUME IInv, reader \in {"len", "data"}, Len(buffer) < Needed, wire = <<>>
  PROVE  Len(got) = accepted
<1>0. TypeOK /\ ChunksInv /\ WriterInv /\ ReaderInv
  BY DEF IInv
<1> DEFINE w == Len(chunks)
           j == opened + 1
           f == chunks[j].from
           n == chunks[j].size
           x == Consumed + Len(buffer)
<1>1. CASE Torn
  BY <1>0, <1>1, Numbers DEF ReaderInv, Torn, WriterInv, ChunksInv, Sealed
<1>2. CASE ~Torn
  <2>0. Active
    BY <1>2 DEF Active
  <2>1. /\ w \in Nat /\ Consumed \in Int /\ Len(buffer) \in Nat /\ PreLen \in Nat /\ accepted \in Nat
        /\ Sealed \in Nat /\ Len(wire) = 0 /\ opened \in Nat /\ Len(got) \in Nat /\ PreLen > 0
    BY <1>0, Numbers, ConsumedInt
  <2>2. opened <= w /\ Len(got) = IF opened < w THEN f ELSE Sealed
    BY <1>0, <1>2 DEF ReaderInv
  <2>3. Total = PreLen + Sealed + 3 * w
    BY DEF Total, LenSize
  <2>4. x \in Int /\ x = Consumed + Len(buffer) + Len(wire) /\ x >= PreLen + Len(got) + 3 * opened
    BY <2>1 DEF Consumed, LenSize
  <2>5. ASSUME opened < w
        PROVE  /\ j \in 1 .. w /\ f \in Nat /\ n \in Nat /\ n > 0 /\ Start(j) \in Nat
               /\ x < Start(j) + n + 3
    <3>1. j \in 1 .. w /\ j - 1 = opened
      BY <2>1, <2>5
    <3>2. f \in Nat /\ n \in Nat /\ n > 0 /\ Start(j) \in Nat /\ Start(j) = PreLen + f + 3 * (j - 1)
      BY <1>0, <3>1, ChunkFields, ChunkOrder
    <3>3. Len(got) = f
      BY <2>2, <2>5
    <3>4. reader = "data" => data_length = n + 1
      BY <1>0 DEF ReaderInv
    <3> HIDE DEF f, n
    <3>5. CASE reader = "len"
      <4>1. Len(buffer) < 2 /\ Consumed = PreLen + f + 3 * opened
        BY <2>1, <3>3, <3>5 DEF Needed, LenSize, Consumed
      <4> QED
        BY <4>1, <2>1, <3>1, <3>2
    <3>6. CASE reader = "data"
      <4>1. Len(buffer) < n + 1 /\ Consumed = PreLen + f + 3 * opened + 2
        BY <2>1, <3>3, <3>4, <3>6 DEF Needed, LenSize, Consumed
      <4> QED
        BY <4>1, <2>1, <3>1, <3>2
    <3> QED
      BY <3>1, <3>2, <3>5, <3>6
  <2>6. CASE opened = w
    <3>1. Len(got) = Sealed /\ x >= Total
      BY <2>1, <2>2, <2>3, <2>4, <2>6
    <3>2. writer # "writing"
      BY <2>0, <2>1, <2>3, <2>4, <3>1, SentUnits
    <3>3. writer \in {"idle", "header"} /\ Sealed = accepted
      BY <1>0, <2>1, <3>2 DEF TypeOK, Sealed
    <3> QED
      BY <3>1, <3>3
  <2>7. CASE opened < w
    <3>1. /\ j \in 1 .. w /\ f \in Nat /\ n \in Nat /\ Start(j) \in Nat /\ x < Start(j) + n + 3
          /\ Len(got) = f
      BY <2>2, <2>5, <2>7
    <3>2. Start(j) + n + 3 <= Total /\ (j < w => Start(j) + n + 3 <= Start(w))
      BY <1>0, <3>1, ChunkOrder
    <3>3. w \in 1 .. w
      BY <2>1, <2>7
    <3>4. Start(w) \in Nat
      BY <1>0, <3>3, ChunkOrder
    <3>5. w > 0
      BY <2>1, <2>7
    <3> HIDE DEF n, x
    <3>6. writer # "idle"
      <4> SUFFICES ASSUME writer = "idle" PROVE FALSE
        OBVIOUS
      <4>1. x = Total
        BY <2>0, <2>4, <3>5, SentUnits DEF x
      <4> QED
        BY <4>1, <2>1, <2>3, <2>4, <3>1, <3>2
    <3>7. writer # "header"
      BY <1>0, <3>5 DEF WriterInv
    <3>8. writer = "writing"
      BY <1>0, <3>6, <3>7 DEF TypeOK
    <3>9. accepted = chunks[w].from /\ (w > 1 => x >= Start(w))
      BY <2>0, <2>4, <3>8, SentUnits
    <3>10. j = w
      BY <2>1, <2>4, <3>1, <3>2, <3>4, <3>9
    <3> QED
      BY <3>1, <3>9, <3>10
  <2> QED
    BY <2>1, <2>2, <2>6, <2>7
<1> QED
  BY <1>1, <1>2

LEMMA ReadZeroInv ==
  ASSUME IInv, ReadZero
  PROVE  IInv'
<1>0. TypeOK /\ ChunksInv /\ WriterInv /\ UnitsInv /\ ReaderInv
  BY DEF IInv
<1>1. /\ Len(buffer) < Needed /\ wire = <<>> /\ closed
      /\ reader' = IF reader # "preamble" THEN "eof" ELSE IF kind = "SS" THEN "err" ELSE "len"
      /\ UNCHANGED <<kind, writerVars, wire, buffer, data_length, rcount, opened, reset, got>>
  BY DEF ReadZero
<1>2. reader \in {"preamble", "len", "data"}
  <2>1. Len(buffer) \in Nat
    BY <1>0, Numbers
  <2> QED
    BY <1>0, <1>1, <2>1 DEF Needed, TypeOK
<1>3. ChunksInv' /\ WriterInv' /\ Sealed' = Sealed
  BY <1>1, WriterFrame
<1>4. TypeOK'
  BY <1>0, <1>1 DEF TypeOK, writerVars
<1>5. DeliveredIsPrefix'
  BY <1>1 DEF IInv, DeliveredIsPrefix, writerVars
<1>6. CASE reader # "preamble"
  <2>1. Len(got) = accepted
    BY <1>1, <1>2, <1>6, ZeroInChunk
  <2>2. UnitsInv' /\ NoFalseAlarm' /\ EofMeansAccepted'
    BY <1>1, <1>6, <2>1 DEF UnitsInv, NoFalseAlarm, EofMeansAccepted, writerVars
  <2>3. ReaderInv'
    BY <1>0, <1>1, <1>6 DEF ReaderInv, Torn, writerVars
  <2> QED
    BY <1>3, <1>4, <1>5, <2>2, <2>3 DEF IInv
<1>7. CASE reader = "preamble"
  <2>0. Len(buffer) < PreLen
    BY <1>1, <1>7 DEF Needed
  <2>1. accepted = 0 /\ (kind = "Vmess" => writer = "header")
    BY <1>1, <1>7, <2>0, ZeroInPreamble
  <2>2. CASE kind = "SS"
    <3>1. UnitsInv' /\ NoFalseAlarm' /\ EofMeansAccepted'
      BY <1>1, <1>7, <2>1, <2>2 DEF UnitsInv, NoFalseAlarm, EofMeansAccepted, writerVars
    <3>2. ReaderInv'
      BY <1>0, <1>1, <1>7, <2>2 DEF ReaderInv, Torn, writerVars
    <3> QED
      BY <1>3, <1>4, <1>5, <3>1, <3>2 DEF IInv
  <2>3. CASE kind = "Vmess"
    <3>1. reader' = "len" /\ Torn'
      BY <1>1, <1>7, <2>1, <2>3 DEF Torn, writerVars
    <3>2. UnitsInv' /\ NoFalseAlarm' /\ EofMeansAccepted'
      BY <3>1 DEF UnitsInv, NoFalseAlarm, EofMeansAccepted
    <3>3. \A i \in 1 .. Len(buffer) : buffer[i][1] = "pre"
      <4> SUFFICES ASSUME NEW i \in 1 .. Len(buffer) PROVE buffer[i][1] = "pre"
        OBVIOUS
      <4>1. i <= PreLen
        BY <1>0, <2>0, Numbers, SMTT(30)
      <4>2. buffer[i] = <<"pre", i, 0>>
        BY <4>1, <1>7, PreambleAt
      <4> QED
        BY <4>2
    <3>4. ReaderInv'
      BY <1>0, <1>1, <1>7, <3>1, <3>3 DEF ReaderInv, writerVars
    <3> QED
      BY <1>3, <1>4, <1>5, <3>2, <3>4 DEF IInv
  <2> QED
    BY <1>0, <2>2, <2>3 DEF TypeOK
<1> QED
  BY <1>6, <1>7

-----------------------------------------------------------------------------
(* The writer's steps.  Those that only move units towards the reader.     *)
LEMMA WriterMoves ==
  ASSUME IInv, ~closed, Stream' = Stream, TypeOK', WriterInv',
         UNCHANGED <<kind, chunks, wcount, closed, readerVars>>, Sealed' = Sealed,
         writer' = "header" => writer = "header"
  PROVE  IInv'
<1>0. TypeOK /\ ChunksInv /\ WriterInv /\ UnitsInv /\ ReaderInv /\ DeliveredIsPrefix /\ NoFalseAlarm
      /\ EofMeansAccepted
  BY DEF IInv
<1>1. ~Torn /\ ~Torn' /\ reader # "eof"
  BY <1>0 DEF ReaderInv, Torn, readerVars
<1>2. ChunksInv'
  BY <1>0 DEF ChunksInv, NextCount
<1>3. Total' = Total /\ Consumed' = Consumed /\ \A x, u : IsUnit(x, u)' <=> IsUnit(x, u)
  BY SameUnits DEF Total, Consumed, readerVars
<1>4. UnitsInv'
  BY <1>0, <1>1, <1>3 DEF UnitsInv, readerVars
<1>5. ReaderInv'
  BY <1>0, <1>1 DEF ReaderInv, readerVars
<1>6. DeliveredIsPrefix'
  BY <1>0 DEF DeliveredIsPrefix, Sealed, readerVars
<1>7. NoFalseAlarm' /\ EofMeansAccepted'
  BY <1>0, <1>1 DEF NoFalseAlarm, EofMeansAccepted, readerVars
<1> QED
  BY <1>2, <1>4, <1>5, <1>6, <1>7 DEF IInv

(* Moving the first units of what is unsent onto the wire. *)
LEMMA Moved ==
  ASSUME TypeOK, WriterInv, NEW part \in Seq(Units), NEW rest \in Seq(Units), Unsent = part \o rest,
         buffer' = buffer, wire' = wire \o part, Unsent' = rest
  PROVE  Stream' = Stream /\ wire' \in Seq(Units)
<1>1. buffer \in Seq(Units) /\ wire \in Seq(Units)
  BY DEF TypeOK
<1>2. Stream' = buffer \o ((wire \o part) \o rest) /\ Stream = buffer \o (wire \o (part \o rest))
  BY DEF Stream
<1>3. (wire \o part) \o rest = wire \o (part \o rest)
  <2>1. wire \in Seq(Units) /\ part \in Seq(Units) /\ rest \in Seq(Units)
    BY <1>1
  <2> QED
    BY <2>1, Assoc
<1>4. wire \o part \in Seq(Units)
  BY <1>1, Concat
<1> QED
  BY <1>2, <1>3, <1>4

LEMMA WriteDataInv ==
  ASSUME IInv, NEW k \in 1 .. MaxUnits, WriteData(k)
  PROVE  IInv'
<1>0. TypeOK /\ WriterInv /\ ChunksInv
  BY DEF IInv
<1>1. /\ ~closed /\ writer = "writing" /\ pos + k <= Len(buf)
      /\ wire' = wire \o SubSeq(buf, pos + 1, pos + k) /\ pos' = pos + k
      /\ UNCHANGED <<kind, header_pos, data_len, wcount, chunks, asleep, closed, readerVars>>
  BY DEF WriteData
<1>2. /\ pos \in Nat /\ Len(buf) \in Nat /\ k \in Nat /\ buf \in Seq(Units) /\ MaxUnits \in Nat
      /\ data_len \in Nat /\ accepted \in Nat /\ Len(chunks) \in Nat
  BY <1>0, Numbers, ChunkAssumption DEF TypeOK, MaxUnits, LenSize
<1>3. pos \in 0 .. Len(buf) /\ pos + k \in pos .. Len(buf) /\ pos + k \in 0 .. Len(buf)
  BY <1>1, <1>2
<1> DEFINE part == SubSeq(buf, pos + 1, pos + k)
           rest == From(buf, pos + k)
<1>4. rest \in Seq(Units) /\ Len(rest) = Len(buf) - (pos + k)
  BY <1>2, <1>3, FromProperties
<1>5. part \in Seq(Units)
  <2>1. \A i \in pos + 1 .. pos + k : buf[i] \in Units
    BY <1>2, <1>3
  <2> QED
    BY <2>1, <1>2, SubSeqProperties
<1>6. Unsent = part \o rest
  BY <1>1, <1>2, <1>3, Cut DEF Unsent
<1>7. Unsent' = rest /\ Sealed' = Sealed /\ writer' # "header" /\ WriterInv' /\ TypeOK'
  <2>1. CASE pos' < Len(buf)
    <3>1. UNCHANGED <<writer, buf, accepted, offer>>
      BY <2>1 DEF WriteData
    <3>2. Unsent' = rest /\ Sealed' = Sealed /\ writer' # "header"
      BY <1>1, <3>1 DEF Unsent, Sealed, From
    <3>3. WriterInv'
      BY <1>0, <1>1, <2>1, <3>1 DEF WriterInv
    <3>4. wire' \in Seq(Units)
      BY <1>0, <1>1, <1>4, <1>5, Concat DEF TypeOK
    <3>5. pos' \in 0 .. MaxUnits
      <4>1. Len(buf) <= MaxUnits
        BY <1>0 DEF TypeOK
      <4> QED
        BY <4>1, <1>1, <1>2
    <3>6. TypeOK'
      BY <1>0, <1>1, <3>1, <3>4, <3>5 DEF TypeOK, readerVars
    <3> QED
      BY <3>2, <3>3, <3>6
  <2>2. CASE ~(pos' < Len(buf))
    <3>1. writer' = "idle" /\ buf' = <<>> /\ accepted' = accepted + data_len /\ offer' = 0
      BY <2>2 DEF WriteData
    <3>2. pos + k = Len(buf) /\ Len(rest) = 0
      <4>1. pos + k <= Len(buf) /\ ~(pos + k < Len(buf))
        BY <1>1, <2>2
      <4>2. pos + k = Len(buf)
        BY <4>1, <1>2
      <4> HIDE DEF rest
      <4> QED
        BY <4>2, <1>2, <1>4
    <3>3. rest = <<>>
      BY <3>2, <1>4, EmptySeq
    <3>4. Unsent' = From(<<>>, pos') /\ pos' \in Nat
      BY <1>1, <1>2, <3>1 DEF Unsent, From
    <3>5. Unsent' = rest
      BY <3>3, <3>4, FromNothing
    <3>6. Sealed' = Sealed /\ writer' # "header"
      BY <1>1, <1>2, <3>1 DEF Sealed
    <3>7. WriterInv'
      BY <1>0, <1>1, <1>2, <3>1 DEF WriterInv
    <3>8. wire' \in Seq(Units)
      BY <1>0, <1>1, <1>4, <1>5, Concat DEF TypeOK
    <3>9. pos' \in 0 .. MaxUnits /\ offer' \in 0 .. MaxOffer /\ accepted' \in Nat
      <4>1. Len(buf) <= MaxUnits /\ MaxOffer \in Nat
        BY <1>0, ChunkAssumption DEF TypeOK
      <4> QED
        BY <4>1, <1>1, <1>2, <3>1, <3>2
    <3>10. Len(buf') <= MaxUnits /\ buf' \in Seq(Units)
      BY <1>2, <3>1
    <3>11. TypeOK'
      BY <1>0, <1>1, <3>1, <3>8, <3>9, <3>10 DEF TypeOK, readerVars
    <3> QED
      BY <3>5, <3>6, <3>7, <3>11
  <2> QED
    BY <2>1, <2>2
<1>8. Stream' = Stream
  BY <1>0, <1>1, <1>4, <1>5, <1>6, <1>7, Moved DEF readerVars
<1> QED
  BY <1>1, <1>7, <1>8, WriterMoves

LEMMA WriteHeaderInv ==
  ASSUME IInv, NEW k \in 1 .. PreLen, WriteHeader(k)
  PROVE  IInv'
<1>0. TypeOK /\ WriterInv /\ ChunksInv
  BY DEF IInv
<1>1. /\ ~closed /\ writer = "header" /\ header_pos + k <= PreLen
      /\ wire' = wire \o SubSeq(Preamble, header_pos + 1, header_pos + k)
      /\ header_pos' = header_pos + k
      /\ IF header_pos' = PreLen THEN writer' = "idle" /\ UNCHANGED asleep
                                 ELSE asleep' = TRUE /\ UNCHANGED writer
      /\ UNCHANGED <<kind, offer, accepted, buf, pos, data_len, wcount, chunks, closed, readerVars>>
  BY DEF WriteHeader
<1>2. header_pos \in Nat /\ PreLen \in Nat /\ k \in Nat /\ Preamble \in Seq(Units) /\ Len(Preamble) = PreLen
      /\ pos \in Nat
  BY <1>0, Numbers, PreambleUnits
<1>3. /\ header_pos \in 0 .. Len(Preamble) /\ header_pos + k \in header_pos .. Len(Preamble)
      /\ header_pos + k \in 0 .. Len(Preamble)
  BY <1>1, <1>2
<1> DEFINE part == SubSeq(Preamble, header_pos + 1, header_pos + k)
           rest == From(Preamble, header_pos + k)
<1>4. rest \in Seq(Units) /\ Len(rest) = PreLen - (header_pos + k)
  BY <1>2, <1>3, FromProperties
<1>5. part \in Seq(Units)
  <2>1. \A i \in header_pos + 1 .. header_pos + k : Preamble[i] \in Units
    BY <1>2, <1>3
  <2> QED
    BY <2>1, <1>2, SubSeqProperties
<1>6. Unsent = part \o rest
  BY <1>1, <1>2, <1>3, Cut DEF Unsent, From
<1>7. wire' \in Seq(Units)
  <2>1. wire \in Seq(Units)
    BY <1>0 DEF TypeOK
  <2> QED
    BY <2>1, <1>1, <1>5, Concat
<1>8. TypeOK'
  <2>1. header_pos' \in 0 .. PreLen
    BY <1>1, <1>2
  <2> QED
    BY <1>0, <1>1, <1>7, <2>1 DEF TypeOK, readerVars
<1>9. kind = "Vmess" /\ Len(chunks) = 0 /\ buf = <<>>
  BY <1>0, <1>1 DEF WriterInv
<1>10. Unsent' = rest /\ WriterInv'
  <2>1. CASE header_pos + k = PreLen
    <3>1. writer' = "idle" /\ buf' = <<>> /\ pos' \in Nat
      BY <1>1, <1>2, <1>9, <2>1
    <3>2. Unsent' = From(<<>>, pos')
      BY <3>1 DEF Unsent, From
    <3>3. rest = <<>>
      <4> HIDE DEF rest
      <4>1. Len(rest) = 0
        BY <2>1, <1>2, <1>4
      <4> QED
        BY <4>1, <1>4, EmptySeq
    <3>4. Unsent' = rest
      BY <3>1, <3>2, <3>3, FromNothing
    <3>5. WriterInv'
      BY <1>1, <1>9, <3>1 DEF WriterInv
    <3> QED
      BY <3>4, <3>5
  <2>2. CASE header_pos + k # PreLen
    <3>1. writer' = "header" /\ header_pos' < PreLen
      BY <1>1, <1>2, <2>2
    <3>2. Unsent' = rest
      BY <1>1, <1>2, <3>1 DEF Unsent, From, Preamble
    <3>3. WriterInv'
      BY <1>1, <1>9, <3>1 DEF WriterInv
    <3> QED
      BY <3>2, <3>3
  <2> QED
    BY <2>1, <2>2
<1>11. Stream' = Stream
  BY <1>0, <1>1, <1>4, <1>5, <1>6, <1>10, Moved DEF readerVars
<1>12. Sealed' = Sealed
  BY <1>1 DEF Sealed
<1> QED
  BY <1>1, <1>8, <1>10, <1>11, <1>12, WriterMoves

(* The caller's steps, and the end of the writer. *)
LEMMA CallerInv ==
  ASSUME IInv, (\E n \in 1 .. MaxOffer : PollWrite(n)) \/ OtherWakeUp \/ CloseWriter
  PROVE  IInv'
<1>0. TypeOK /\ ChunksInv /\ WriterInv /\ UnitsInv /\ ReaderInv /\ DeliveredIsPrefix /\ NoFalseAlarm
      /\ EofMeansAccepted
  BY DEF IInv
<1>1. /\ UNCHANGED <<kind, accepted, writer, header_pos, buf, pos, data_len, wcount, chunks, wire, readerVars>>
      /\ closed' = closed \/ (closed' = TRUE /\ ~closed)
  BY DEF PollWrite, OtherWakeUp, CloseWriter
<1>2. offer' \in 0 .. MaxOffer /\ asleep' \in BOOLEAN /\ closed' \in BOOLEAN
  <2>1. MaxOffer \in Nat /\ offer \in 0 .. MaxOffer /\ asleep \in BOOLEAN /\ closed \in BOOLEAN
    BY <1>0, ChunkAssumption DEF TypeOK
  <2>2. CASE \E n \in 1 .. MaxOffer : PollWrite(n)
    BY <2>1, <2>2 DEF PollWrite
  <2>3. CASE OtherWakeUp \/ CloseWriter
    BY <2>1, <2>3 DEF OtherWakeUp, CloseWriter
  <2> QED
    BY <2>2, <2>3
<1>3. TypeOK'
  BY <1>0, <1>1, <1>2 DEF TypeOK, readerVars
<1>4. Sealed' = Sealed /\ Total' = Total /\ Consumed' = Consumed
  BY <1>1 DEF Sealed, Total, Consumed, readerVars
<1>5. ChunksInv' /\ WriterInv'
  BY <1>0, <1>1, <1>4 DEF ChunksInv, WriterInv, NextCount, Preamble
<1>6. Stream' = Stream
  BY <1>1 DEF Stream, Unsent, Preamble, From, readerVars
<1>7. UnitsInv'
  BY <1>0, <1>1, <1>4, <1>6, SameUnits DEF UnitsInv, Torn, readerVars
<1>8. ReaderInv'
  BY <1>0, <1>1, <1>4 DEF ReaderInv, Torn, readerVars
<1>9. DeliveredIsPrefix' /\ NoFalseAlarm' /\ EofMeansAccepted'
  BY <1>0, <1>1 DEF DeliveredIsPrefix, NoFalseAlarm, EofMeansAccepted, readerVars
<1> QED
  BY <1>3, <1>5, <1>7, <1>8, <1>9 DEF IInv

(* A new chunk is appended to what is unsent. *)
LEMMA EncryptInv ==
  ASSUME IInv, Encrypt
  PROVE  IInv'
<1>0. TypeOK /\ ChunksInv /\ WriterInv /\ UnitsInv /\ ReaderInv /\ DeliveredIsPrefix /\ NoFalseAlarm
      /\ EofMeansAccepted
  BY DEF IInv
<1> DEFINE w == Len(chunks)
           n == data_len'
           new == Chunk(accepted, n, wcount)
           rec == [from |-> accepted, size |-> n, count |-> wcount]
<1>1. /\ ~closed /\ writer = "idle" /\ offer > 0 /\ n = LeastOf(MaxPacket, offer)
      /\ buf' = buf \o new /\ pos' = 0 /\ wcount' = NextCount(wcount)
      /\ chunks' = Append(chunks, rec) /\ writer' = "writing"
      /\ UNCHANGED <<kind, offer, accepted, header_pos, asleep, closed, wire, readerVars>>
  BY DEF Encrypt
<1>2. /\ w \in Nat /\ accepted \in Nat /\ wcount \in Nat /\ PreLen \in Nat /\ MaxPacket \in Nat
      /\ offer \in Nat /\ MaxPacket > 0 /\ Sealed \in Nat /\ Total \in Nat
  BY <1>0, Numbers
<1>3. n \in Nat /\ n > 0 /\ n <= MaxPacket /\ n \in 1 .. MaxPacket
  BY <1>1, <1>2 DEF LeastOf
<1>4. Sealed = accepted /\ Total = PreLen + accepted + 3 * w
  BY <1>1, <1>2 DEF Sealed, Total, LenSize
<1> HIDE DEF w, n
<1>5. rec \in [from : Nat, size : 1 .. MaxPacket, count : Nat]
  BY <1>2, <1>3
<1>6. rec.from = accepted /\ rec.size = n /\ rec.count = wcount
  OBVIOUS
<1> HIDE DEF rec
<1>7. /\ chunks' \in Seq([from : Nat, size : 1 .. MaxPacket, count : Nat])
      /\ Len(chunks') = w + 1 /\ chunks'[w + 1] = rec
      /\ \A j \in 1 .. w : chunks'[j] = chunks[j]
  <2> DEFINE Record == [from : Nat, size : 1 .. MaxPacket, count : Nat]
  <2>1. chunks \in Seq(Record) /\ rec \in Record
    BY <1>0, <1>5 DEF TypeOK
  <2> HIDE DEF Record
  <2>2. /\ Append(chunks, rec) \in Seq(Record) /\ Len(Append(chunks, rec)) = Len(chunks) + 1
        /\ Append(chunks, rec)[Len(chunks) + 1] = rec
        /\ \A j \in 1 .. Len(chunks) : Append(chunks, rec)[j] = chunks[j]
    BY <2>1, AppendProperties
  <2> QED
    BY <2>2, <1>1 DEF w, Record
<1>8. new \in Seq(Units) /\ Len(new) = n + 3
  BY <1>2, <1>3, ChunkUnits
<1>9. wcount' \in Nat
  <2>1. NonceSpace \in Nat /\ NonceSpace > 0
    BY ChunkAssumption
  <2> QED
    BY <1>1, <1>2, <2>1 DEF NextCount
<1>10. /\ buf \in Seq(Units) /\ Unsent = buf
       /\ buf = IF kind = "SS" /\ w = 0 THEN Preamble ELSE <<>>
       /\ Len(buf) = IF kind = "SS" /\ w = 0 THEN PreLen ELSE 0
  <2>1. buf \in Seq(Units) /\ Preamble \in Seq(Units) /\ Len(Preamble) = PreLen
    BY <1>0, PreambleUnits DEF TypeOK
  <2>2. buf = IF kind = "SS" /\ w = 0 THEN Preamble ELSE <<>>
    BY <1>0, <1>1 DEF WriterInv, w
  <2>3. Unsent = IF kind = "SS" /\ w = 0 THEN Preamble ELSE <<>>
    BY <1>0, <1>1, UnsentUnits DEF w
  <2>4. Len(<<>>) = 0
    OBVIOUS
  <2> QED
    BY <2>1, <2>2, <2>3, <2>4
<1> HIDE DEF new
<1>11. buf' \in Seq(Units) /\ Len(buf') = Len(buf) + n + 3
  <2>1. buf \in Seq(Units) /\ new \in Seq(Units)
    BY <1>8, <1>10
  <2>2. buf \o new \in Seq(Units) /\ Len(buf \o new) = Len(buf) + Len(new)
    BY <2>1, Concat
  <2>3. Len(buf) \in Nat
    BY <1>10
  <2> QED
    BY <2>2, <2>3, <1>1, <1>3, <1>8
<1>12. TypeOK'
  <2>1. Len(buf') <= MaxUnits /\ MaxUnits \in Nat
    BY <1>2, <1>3, <1>10, <1>11 DEF MaxUnits, LenSize
  <2>2. data_len' \in 0 .. MaxPacket /\ pos' \in 0 .. MaxUnits
    BY <1>1, <1>2, <1>3, <2>1 DEF n
  <2> QED
    BY <1>0, <1>1, <1>7, <1>9, <1>11, <2>1, <2>2 DEF TypeOK, readerVars
<1>13. Unsent' = Unsent \o new
  <2>1. Unsent' = From(buf', 0)
    BY <1>1 DEF Unsent, From
  <2>2. From(buf', 0) = buf'
    BY <1>11, SubSeqFull DEF From
  <2> QED
    BY <2>1, <2>2, <1>1, <1>10
<1>14. Stream' = Stream \o new
  <2>1. buffer \in Seq(Units) /\ wire \in Seq(Units) /\ Unsent \in Seq(Units) /\ new \in Seq(Units)
    BY <1>0, <1>8, <1>10 DEF TypeOK
  <2>2. wire \o (Unsent \o new) = (wire \o Unsent) \o new
    <3>1. wire \in Seq(Units) /\ Unsent \in Seq(Units) /\ new \in Seq(Units)
      BY <2>1
    <3> QED
      BY <3>1, Assoc
  <2> DEFINE wu == wire \o Unsent
  <2>3. wu \in Seq(Units)
    BY <2>1, Concat
  <2> HIDE DEF wu
  <2>4. buffer \o (wu \o new) = (buffer \o wu) \o new
    <3>1. buffer \in Seq(Units) /\ wu \in Seq(Units) /\ new \in Seq(Units)
      BY <2>1, <2>3
    <3> QED
      BY <3>1, Assoc
  <2> QED
    BY <1>1, <1>13, <2>2, <2>4 DEF Stream, wu, readerVars
<1>15. Sealed' = accepted + n /\ Total' = Total + n + 3
  <2>1. Sealed' = accepted + n
    BY <1>1 DEF Sealed, n
  <2>2. Total' = PreLen + (accepted + n) + 3 * (w + 1)
    BY <1>7, <2>1 DEF Total, LenSize
  <2> QED
    BY <2>1, <2>2, <1>2, <1>3, <1>4
<1>16. WriterInv'
  <2>1. /\ Len(chunks') > 0 /\ chunks'[Len(chunks')].from = accepted' /\ pos' < Len(buf')
        /\ Len(buf') = data_len' + LenSize + 1 + IF kind' = "SS" /\ Len(chunks') <= 1 THEN PreLen ELSE 0
    <3>1. Len(chunks') > 0 /\ chunks'[Len(chunks')].from = accepted'
      BY <1>1, <1>2, <1>6, <1>7
    <3>2. Len(buf') = n + 3 + IF kind = "SS" /\ w = 0 THEN PreLen ELSE 0
      BY <1>2, <1>3, <1>10, <1>11
    <3>3. w = 0 <=> Len(chunks') <= 1
      BY <1>2, <1>7
    <3>4. Len(buf') = data_len' + LenSize + 1 + IF kind' = "SS" /\ Len(chunks') <= 1 THEN PreLen ELSE 0
      BY <1>1, <1>2, <1>3, <3>2, <3>3 DEF LenSize, n
    <3>5. pos' < Len(buf')
      BY <1>1, <1>2, <1>3, <3>2
    <3> QED
      BY <3>1, <3>4, <3>5
  <2> QED
    BY <1>1, <2>1 DEF WriterInv
<1>17. ChunksInv'
  <2>1. ASSUME NEW j \in 1 .. w + 1
        PROVE  /\ chunks'[j].from + chunks'[j].size = IF j = w + 1 THEN Sealed' ELSE chunks'[j + 1].from
               /\ NextCount(chunks[j].count)' = IF j = w + 1 THEN wcount' ELSE chunks'[j + 1].count
    <3>0. \A c : NextCount(c)' = NextCount(c)
      BY <1>1 DEF NextCount
    <3>1. CASE j = w + 1
      <4>1. chunks'[j] = rec /\ NextCount(rec.count) = wcount'
        BY <3>1, <1>1, <1>6, <1>7
      <4>2. NextCount(chunks[j].count)' = wcount'
        BY <3>0, <4>1
      <4> QED
        BY <3>1, <4>1, <4>2, <1>6, <1>15
    <3>2. CASE j = w
      <4>1. w \in 1 .. w /\ w # w + 1
        BY <3>2, <1>2
      <4>2. chunks[w].from + chunks[w].size = Sealed /\ NextCount(chunks[w].count) = wcount
        BY <4>1, <1>0 DEF ChunksInv, w
      <4>3. chunks'[j] = chunks[w] /\ chunks'[j + 1] = rec
        BY <4>1, <3>2, <1>7
      <4>4. NextCount(chunks[j].count)' = wcount
        BY <3>0, <4>2, <4>3
      <4> QED
        BY <4>1, <4>2, <4>3, <4>4, <3>2, <1>4, <1>6
    <3>3. CASE j < w
      <4>1. j \in 1 .. w /\ j + 1 \in 1 .. w /\ j # w /\ j # w + 1
        BY <3>3, <1>2
      <4>2. /\ chunks[j].from + chunks[j].size = chunks[j + 1].from
            /\ NextCount(chunks[j].count) = chunks[j + 1].count
        BY <4>1, <1>0 DEF ChunksInv, w
      <4>3. chunks'[j] = chunks[j] /\ chunks'[j + 1] = chunks[j + 1]
        BY <4>1, <1>7
      <4>4. NextCount(chunks[j].count)' = chunks[j + 1].count
        BY <3>0, <4>2, <4>3
      <4> QED
        BY <4>1, <4>2, <4>3, <4>4
    <3> QED
      BY <3>1, <3>2, <3>3, <1>2
  <2>2. ASSUME NEW i \in 1 .. w + 1, NEW j \in 1 .. w + 1, i < j
        PROVE  chunks'[i].from + chunks'[i].size <= chunks'[j].from
    <3>1. i \in 1 .. w
      BY <2>2, <1>2
    <3>2. CASE j = w + 1
      <4>1. chunks[i].from + chunks[i].size <= Sealed
        BY <1>0, <3>1, ChunkOrder DEF w
      <4> QED
        BY <4>1, <3>1, <3>2, <1>4, <1>6, <1>7
    <3>3. CASE j \in 1 .. w
      <4>1. chunks[i].from + chunks[i].size <= chunks[j].from
        BY <1>0, <2>2, <3>1, <3>3 DEF ChunksInv, w
      <4> QED
        BY <4>1, <3>1, <3>3, <1>7
    <3> QED
      BY <3>2, <3>3, <1>2
  <2>3. chunks'[1].from = 0 /\ chunks'[1].count = 0
    <3>1. CASE w = 0
      BY <3>1, <1>0, <1>4, <1>6, <1>7 DEF ChunksInv, w
    <3>2. CASE w > 0
      <4>1. 1 \in 1 .. w /\ chunks[1].from = 0 /\ chunks[1].count = 0
        BY <3>2, <1>0, <1>2 DEF ChunksInv, w
      <4> QED
        BY <4>1, <1>7
    <3> QED
      BY <3>1, <3>2, <1>2
  <2>4. Len(chunks') # 0
    BY <1>2, <1>7
  <2> QED
    BY <2>1, <2>2, <2>3, <2>4, <1>7 DEF ChunksInv
<1>18. ~Torn /\ ~Torn' /\ reader # "eof" /\ Consumed' = Consumed
  BY <1>0, <1>1 DEF ReaderInv, Torn, Consumed, readerVars
<1>19. ASSUME NEW x \in Int, NEW u, x <= Total, IsUnit(x, u)
       PROVE  IsUnit(x, u)'
  <2>1. x <= PreLen => u = Preamble[x]
    BY <1>19 DEF IsUnit
  <2>2. ASSUME NEW j \in 1 .. Len(chunks'), NEW y \in 1 .. chunks'[j].size + LenSize + 1,
               x = PreLen + chunks'[j].from + (LenSize + 1) * (j - 1) + y
        PROVE  u = Chunk(chunks'[j].from, chunks'[j].size, chunks'[j].count)[y]
    <3>1. CASE j = w + 1
      <4>1. chunks'[j].from = accepted /\ chunks'[j].size = n /\ j - 1 = w
        BY <3>1, <1>2, <1>6, <1>7
      <4>2. y \in Nat /\ y >= 1
        BY <2>2, <4>1, <1>3 DEF LenSize
      <4>3. x = PreLen + accepted + 3 * w + y
        BY <2>2, <4>1 DEF LenSize
      <4> QED
        BY <4>2, <4>3, <1>2, <1>4, <1>19
    <3>2. CASE j # w + 1
      <4>1. j \in 1 .. w /\ chunks'[j] = chunks[j]
        BY <3>2, <1>2, <1>7
      <4>2. j \in 1 .. Len(chunks) /\ y \in 1 .. chunks[j].size + LenSize + 1 /\ x = Start(j) + y
        BY <4>1, <2>2 DEF w, Start
      <4> QED
        BY <4>1, <4>2, <1>19 DEF IsUnit
    <3> QED
      BY <3>1, <3>2
  <2>3. /\ \A c : LenNonce(c)' = LenNonce(c) /\ DataNonce(c)' = DataNonce(c)
    BY <1>1 DEF LenNonce, DataNonce
  <2> QED
    BY <2>1, <2>2, <2>3 DEF IsUnit, Start, Preamble, Chunk, LenField
<1>20. ASSUME NEW y \in 1 .. n + 3, NEW x, NEW u, x = Total + y, u = new[y]
       PROVE  IsUnit(x, u)'
  <2>1. ~(x <= PreLen)
    BY <1>2, <1>3, <1>4, <1>20
  <2>2. ASSUME NEW j \in 1 .. Len(chunks'), NEW z \in 1 .. chunks'[j].size + LenSize + 1,
               x = PreLen + chunks'[j].from + (LenSize + 1) * (j - 1) + z
        PROVE  u = Chunk(chunks'[j].from, chunks'[j].size, chunks'[j].count)[z]
    <3>1. CASE j = w + 1
      <4>1. chunks'[j].from = accepted /\ chunks'[j].size = n /\ chunks'[j].count = wcount /\ j - 1 = w
        BY <3>1, <1>2, <1>6, <1>7
      <4>2. z \in Nat
        BY <2>2, <4>1, <1>3 DEF LenSize
      <4>3. Total + y = PreLen + accepted + 3 * w + z
        BY <2>2, <4>1, <1>20 DEF LenSize
      <4>4. z = y
        BY <4>2, <4>3, <1>2, <1>3, <1>4
      <4> QED
        BY <4>1, <4>4, <1>20 DEF new
    <3>2. CASE j # w + 1
      <4>0. j \in 1 .. w
        BY <3>2, <1>2, <1>7
      <4>1. j \in 1 .. w /\ chunks'[j] = chunks[j]
        BY <4>0, <1>7
      <4>2. /\ Start(j) \in Nat /\ Start(j) + chunks[j].size + 3 <= Total /\ chunks[j].size \in Nat
            /\ Start(j) = PreLen + chunks[j].from + 3 * (j - 1)
        BY <4>1, <1>0, ChunkOrder, ChunkFields DEF w
      <4>3. Total + y = Start(j) + z
        BY <4>1, <4>2, <2>2, <1>20 DEF LenSize
      <4> DEFINE m == chunks[j].size
      <4>4. z \in 1 .. m + 3 /\ Start(j) + m + 3 <= Total /\ m \in Nat
        BY <4>1, <4>2, <2>2 DEF LenSize
      <4> HIDE DEF m
      <4> QED
        BY <4>2, <4>3, <4>4, <1>2, <1>3
    <3> QED
      BY <3>1, <3>2
  <2>3. /\ \A c : LenNonce(c)' = LenNonce(c) /\ DataNonce(c)' = DataNonce(c)
    BY <1>1 DEF LenNonce, DataNonce
  <2>4. \A m, q, c : Chunk(m, q, c)' = Chunk(m, q, c)
    BY <2>3 DEF Chunk, LenField
  <2> HIDE DEF new
  <2> QED
    BY <2>1, <2>2, <2>4 DEF IsUnit, Start
<1>21. UnitsInv'
  <2> SUFFICES ASSUME reader \notin {"eof", "err"}
               PROVE  /\ \A i \in 1 .. Len(Stream') : IsUnit(Consumed + i, Stream[i])'
                      /\ Consumed' + Len(Stream') = Total'
    BY <1>1 DEF UnitsInv, readerVars
  <2>1. /\ \A i \in 1 .. Len(Stream) : IsUnit(Consumed + i, Stream[i])
        /\ Consumed + Len(Stream) = Total
    BY <1>0, <1>18 DEF UnitsInv
  <2>2. Stream \in Seq(Units) /\ new \in Seq(Units)
    BY <1>0, <1>8, StreamUnits
  <2>3. /\ Len(Stream \o new) = Len(Stream) + Len(new)
        /\ \A i \in 1 .. Len(Stream) : (Stream \o new)[i] = Stream[i]
        /\ \A i \in 1 .. Len(new) : (Stream \o new)[Len(Stream) + i] = new[i]
    BY <2>2, Concat
  <2>4. Len(Stream) \in Nat /\ Consumed \in Int
    BY <1>0, <2>2, ConsumedInt
  <2>5. Len(Stream') = Len(Stream) + n + 3
    BY <2>3, <2>4, <1>3, <1>8, <1>14
  <2>6. Consumed' + Len(Stream') = Total'
    BY <2>1, <2>4, <2>5, <1>2, <1>3, <1>15, <1>18
  <2>7. ASSUME NEW i \in 1 .. Len(Stream') PROVE IsUnit(Consumed + i, Stream[i])'
    <3>1. CASE i <= Len(Stream)
      <4>1. i \in 1 .. Len(Stream) /\ Consumed + i \in Int /\ Consumed + i <= Total
        BY <3>1, <2>1, <2>4, <2>5, <1>3
      <4>2. PICK x, u : x \in Int /\ x = Consumed + i /\ u = Stream[i]
        BY <4>1
      <4>3. IsUnit(x, u)'
        BY <4>1, <4>2, <2>1, <1>19
      <4>4. x = Consumed' + i /\ u = Stream'[i]
        BY <4>1, <4>2, <2>3, <1>14, <1>18
      <4> QED
        BY <4>3, <4>4
    <3>2. CASE i > Len(Stream)
      <4> DEFINE y == i - Len(Stream)
      <4>1. y \in 1 .. n + 3 /\ Len(Stream) + y = i /\ Consumed + i = Total + y
        BY <3>2, <2>1, <2>4, <2>5, <1>3
      <4> HIDE DEF y
      <4>2. PICK x, u : x = Total + y /\ u = new[y]
        OBVIOUS
      <4>3. IsUnit(x, u)'
        BY <4>1, <4>2, <1>20
      <4>4. x = Consumed' + i /\ u = Stream'[i]
        BY <4>1, <4>2, <2>3, <1>8, <1>14, <1>18
      <4> QED
        BY <4>3, <4>4
    <3> QED
      BY <3>1, <3>2, <2>4, <2>5, <1>3
  <2> QED
    BY <2>6, <2>7
<1>22. ReaderInv'
  <2>0. opened \in Nat
    BY <1>0, Numbers
  <2>1. opened' <= Len(chunks')
    BY <1>0, <1>1, <1>2, <1>7, <2>0 DEF ReaderInv, w, readerVars
  <2>2. rcount' = IF opened' < Len(chunks') THEN chunks'[opened' + 1].count ELSE wcount'
    BY <1>0, <1>1, <1>2, <1>6, <1>7, <2>0 DEF ReaderInv, w, readerVars
  <2>3. reader \in {"len", "data"} =>
          Len(got) = IF opened < Len(chunks') THEN chunks'[opened + 1].from ELSE Sealed'
    <3> SUFFICES ASSUME reader \in {"len", "data"}
                 PROVE  Len(got) = IF opened < w + 1 THEN chunks'[opened + 1].from ELSE Sealed'
      BY <1>7
    <3>1. opened <= w /\ Len(got) = IF opened < w THEN chunks[opened + 1].from ELSE Sealed
      BY <1>0, <1>18 DEF ReaderInv, w
    <3>2. CASE opened < w
      <4>1. opened + 1 \in 1 .. w /\ opened < w + 1
        BY <3>2, <2>0, <1>2
      <4> QED
        BY <3>1, <3>2, <4>1, <1>7
    <3>3. CASE opened = w
      BY <3>1, <3>3, <1>2, <1>4, <1>6, <1>7, SMTT(30)
    <3> QED
      BY <3>1, <3>2, <3>3, <2>0, <1>2
  <2>4. reader = "data" => opened < Len(chunks') /\ data_length = chunks'[opened + 1].size + 1
    <3> SUFFICES ASSUME reader = "data"
                 PROVE  opened < w + 1 /\ data_length = chunks'[opened + 1].size + 1
      BY <1>7
    <3>1. opened < w /\ data_length = chunks[opened + 1].size + 1
      BY <1>0 DEF ReaderInv, w
    <3>2. opened + 1 \in 1 .. w /\ opened < w + 1
      BY <3>1, <2>0, <1>2
    <3> QED
      BY <3>1, <3>2, <1>7
  <2>5. reader = "put" => chunks'[opened] = chunks[opened]
    <3> SUFFICES ASSUME reader = "put" PROVE chunks'[opened] = chunks[opened]
      OBVIOUS
    <3>1. opened > 0 /\ opened <= w
      BY <1>0 DEF ReaderInv, w
    <3>2. opened \in 1 .. w
      BY <3>1, <2>0, <1>2
    <3> QED
      BY <3>2, <1>7
  <2> QED
    BY <1>0, <1>1, <1>18, <2>1, <2>2, <2>3, <2>4, <2>5 DEF ReaderInv, readerVars
<1>23. DeliveredIsPrefix'
  <2>1. Len(got) <= accepted /\ Len(got) \in Nat
    BY <1>0, <1>1, <1>2, Numbers DEF DeliveredIsPrefix
  <2>2. Len(got) <= accepted + data_len'
    BY <2>1, <1>2, <1>3 DEF n
  <2> QED
    BY <1>0, <1>1, <2>2 DEF DeliveredIsPrefix, readerVars
<1>24. NoFalseAlarm' /\ EofMeansAccepted'
  BY <1>0, <1>1 DEF NoFalseAlarm, EofMeansAccepted, readerVars
<1> QED
  BY <1>12, <1>16, <1>17, <1>21, <1>22, <1>23, <1>24 DEF IInv

-----------------------------------------------------------------------------
(* The initial states: nothing but the preamble is to be sent. *)
LEMMA InitIInv == Init => IInv
<1> SUFFICES ASSUME Init PROVE IInv
  OBVIOUS
<1>1. /\ kind \in {"SS", "Vmess"} /\ offer = 0 /\ accepted = 0
      /\ writer = (IF kind = "SS" THEN "idle" ELSE "header") /\ header_pos = 0
      /\ buf = (IF kind = "SS" THEN Preamble ELSE <<>>)
      /\ pos = 0 /\ data_len = 0 /\ wcount = 0 /\ chunks = <<>>
      /\ asleep = FALSE /\ closed = FALSE /\ wire = <<>>
      /\ reader = "preamble" /\ buffer = <<>> /\ data_length = 0 /\ rcount = 0
      /\ opened = 0 /\ reset = FALSE /\ got = <<>>
  BY DEF Init
<1>2. PreLen \in Nat /\ PreLen > 0 /\ MaxPacket \in Nat /\ MaxOffer \in Nat /\ MaxUnits \in Nat /\ PreLen <= MaxUnits
  BY ChunkAssumption DEF MaxUnits, LenSize
<1>3. Preamble \in Seq(Units) /\ Len(Preamble) = PreLen
  BY PreambleUnits
<1>4. TypeOK
  <2>1. buf \in Seq(Units) /\ Len(buf) <= MaxUnits
    BY <1>1, <1>2, <1>3
  <2>2. chunks \in Seq([from : Nat, size : 1 .. MaxPacket, count : Nat])
    BY <1>1, EmptySeq
  <2>3. wire \in Seq(Units) /\ buffer \in Seq(Units) /\ got \in Seq(Nat)
    BY <1>1, EmptySeq
  <2>4. /\ offer \in 0 .. MaxOffer /\ accepted \in Nat /\ data_len \in 0 .. MaxPacket /\ header_pos \in 0 .. PreLen
        /\ pos \in 0 .. MaxUnits /\ wcount \in Nat /\ rcount \in Nat /\ data_length \in 0 .. MaxPacket + 1
        /\ opened \in Nat
    BY <1>1, <1>2
  <2>5. writer \in {"header", "idle", "writing"}
    BY <1>1
  <2>6. kind \in {"SS", "Vmess"} /\ asleep \in BOOLEAN /\ closed \in BOOLEAN /\ reset \in BOOLEAN
        /\ reader \in {"preamble", "len", "data", "put", "eof", "err"}
    BY <1>1
  <2> QED
    BY <2>1, <2>2, <2>3, <2>4, <2>5, <2>6 DEF TypeOK
<1>5. Len(chunks) = 0 /\ Len(got) = 0 /\ Len(buffer) = 0 /\ Len(wire) = 0
  BY <1>1
<1>6. ChunksInv /\ WriterInv
  BY <1>1, <1>2, <1>5 DEF ChunksInv, WriterInv, Sealed
<1>7. Unsent = Preamble
  BY <1>1, <1>3, SubSeqFull DEF Unsent, From
<1>8. UnitsInv
  <2>1. Stream = Preamble
    BY <1>1, <1>3, <1>7, ConcatEmptySeq DEF Stream
  <2>2. Consumed = 0 /\ Total = PreLen
    BY <1>1, <1>2, <1>5 DEF Consumed, Total, Sealed, LenSize
  <2>3. \A i \in 1 .. PreLen : IsUnit(Consumed + i, Preamble[i])
    BY <1>2, <1>5, <2>2 DEF IsUnit
  <2> QED
    BY <1>2, <1>3, <2>1, <2>2, <2>3 DEF UnitsInv
<1>9. ReaderInv
  BY <1>1, <1>5 DEF ReaderInv, Torn
<1>10. DeliveredIsPrefix /\ NoFalseAlarm /\ EofMeansAccepted
  BY <1>1, <1>5 DEF DeliveredIsPrefix, NoFalseAlarm, EofMeansAccepted
<1> QED
  BY <1>4, <1>6, <1>8, <1>9, <1>10 DEF IInv

(* Every step keeps the invariant. *)
LEMMA NextIInv == IInv /\ [Next]_vars => IInv'
<1> SUFFICES ASSUME IInv, [Next]_vars PROVE IInv'
  OBVIOUS
<1>1. CASE \E n \in 1 .. MaxOffer : PollWrite(n)
  BY <1>1, CallerInv
<1>2. CASE WriterPoll
  BY <1>2, WriteHeaderInv, EncryptInv, WriteDataInv DEF WriterPoll
<1>3. CASE OtherWakeUp \/ CloseWriter
  BY <1>3, CallerInv
<1>4. CASE ReaderPoll
  BY <1>4, FillInv, ReadZeroInv, ReadHandshakeInv, ReadLengthInv, DecryptInv, PutInv, DropTagInv
     DEF ReaderPoll
<1>5. CASE ReadErr
  BY <1>5, ReadErrInv
<1>6. CASE UNCHANGED vars
  <2>1. UNCHANGED <<kind, offer, accepted, writer, header_pos, buf, pos, data_len, wcount, chunks,
                    asleep, closed, wire, reader, buffer, data_length, rcount, opened, reset, got>>
    BY <1>6 DEF vars, writerVars, readerVars
  <2>2. /\ ChunksInv' /\ WriterInv' /\ Unsent' = Unsent /\ Total' = Total /\ Sealed' = Sealed
        /\ \A x, u : IsUnit(x, u)' <=> IsUnit(x, u)
    BY <2>1, WriterFrame DEF writerVars
  <2>3. Stream' = Stream /\ Consumed' = Consumed
    BY <2>1, <2>2 DEF Stream, Consumed
  <2>4. TypeOK' /\ UnitsInv'
    BY <2>1, <2>2, <2>3 DEF IInv, TypeOK, UnitsInv, Torn
  <2>5. ReaderInv' /\ DeliveredIsPrefix' /\ NoFalseAlarm' /\ EofMeansAccepted'
    BY <2>1, <2>2 DEF IInv, ReaderInv, Torn, DeliveredIsPrefix, NoFalseAlarm, EofMeansAccepted
  <2> QED
    BY <2>2, <2>4, <2>5 DEF IInv
<1> QED
  BY <1>1, <1>2, <1>3, <1>4, <1>5, <1>6 DEF Next

(* The inductive invariant holds in every reachable state. *)
THEOREM ChunkInvariant == Spec => []IInv
BY InitIInv, NextIInv, PTL DEF Spec

(* poll_read returns the bytes that were given to poll_write, in order and *)
(* each once, for every size of chunk and cut of the stream below.         *)
THEOREM ChunksDelivered == Spec => []DeliveredIsPrefix
<1>1. IInv => DeliveredIsPrefix
  BY DEF IInv
<1> QED
  BY <1>1, ChunkInvariant, PTL

(* A reader rejects nothing that its writer has sealed: the counts under   *)
(* which the two seal and open stay in step for ever, and no unit is lost  *)
(* between the header's reader and the chunks'.                            *)
THEOREM ChunksAccepted == Spec => []NoFalseAlarm
<1>1. IInv => NoFalseAlarm
  BY DEF IInv
<1> QED
  BY <1>1, ChunkInvariant, PTL

(* When poll_read reports the end, it has returned exactly the bytes that  *)
(* poll_write has reported as written, also when a chunk was torn.         *)
THEOREM ChunksComplete == Spec => []EofMeansAccepted
<1>1. IInv => EofMeansAccepted
  BY DEF IInv
<1> QED
  BY <1>1, ChunkInvariant, PTL
=============================================================================
