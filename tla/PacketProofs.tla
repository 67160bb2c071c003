---------------------------- MODULE PacketProofs ----------------------------
(***************************************************************************)
(* Proofs that recv_from returns the datagrams that were given to send_to, *)
(* for every size and number of datagrams and however the stream is cut.   *)
(***************************************************************************)
EXTENDS Packets, SequenceTheorems, WellFoundedInduction, TLAPS

(* What has 0 and, with n, n + 1 has every natural number.                 *)
LEMMA SetInduction ==
  ASSUME NEW T, 0 \in T, \A n \in Nat : n \in T => n + 1 \in T
  PROVE  Nat \subseteq T
<1> DEFINE Less    == {ss \in Nat \X Nat : ss[1] < ss[2]}
           Missing == {n \in Nat : n \notin T}
<1>1. IsWellFoundedOn(Less, Nat)
  BY NatLessThanWellFounded DEF OpToRel
<1>2. SUFFICES ASSUME Missing # {} PROVE FALSE
  OBVIOUS
<1>3. PICK x \in Missing : \A y \in Missing : ~(<<y, x>> \in Less)
  <2>1. Missing \subseteq Nat
    OBVIOUS
  <2> HIDE DEF Missing, Less
  <2> QED
    BY <1>1, <1>2, <2>1, WFMin
<1>4. x # 0 /\ x \in Nat /\ x - 1 \in Nat /\ x - 1 < x
  OBVIOUS
<1>5. x - 1 \in Missing
  BY <1>4
<1>6. <<x - 1, x>> \in Less
  BY <1>4
<1> QED
  BY <1>3, <1>5, <1>6

LEMMA UpTo ==
  ASSUME NEW T, NEW len \in Nat, len > 0 => 1 \in T,
         \A i \in 1 .. len - 1 : i \in T => i + 1 \in T
  PROVE  1 .. len \subseteq T
<1> DEFINE U == {i \in Nat : i \in 1 .. len => i \in T}
<1>1. 0 \in U
  OBVIOUS
<1>2. ASSUME NEW i \in Nat, i \in U
      PROVE  i + 1 \in U
  <2>1. CASE i = 0
    BY <2>1
  <2>2. CASE i # 0
    BY <1>2, <2>2
  <2> QED
    BY <2>1, <2>2
<1>3. Nat \subseteq U
  <2> HIDE DEF U
  <2> QED
    BY <1>1, <1>2, SetInduction
<1> QED
  BY <1>3

-----------------------------------------------------------------------------
(* Sequences, unit by unit. *)
LEMMA Concat ==
  ASSUME NEW S, NEW s \in Seq(S), NEW t \in Seq(S)
  PROVE  /\ s \o t \in Seq(S)
         /\ Len(s \o t) = Len(s) + Len(t)
         /\ \A i \in 1 .. Len(s) : (s \o t)[i] = s[i]
         /\ \A i \in 1 .. Len(t) : (s \o t)[Len(s) + i] = t[i]
<1>1. Len(s) \in Nat /\ Len(t) \in Nat
  OBVIOUS
<1> QED
  BY <1>1, ConcatProperties

LEMMA Part ==
  ASSUME NEW S, NEW s \in Seq(S), NEW m \in 0 .. Len(s), NEW n \in m .. Len(s)
  PROVE  /\ SubSeq(s, m + 1, n) \in Seq(S)
         /\ Len(SubSeq(s, m + 1, n)) = n - m
         /\ \A i \in 1 .. n - m : SubSeq(s, m + 1, n)[i] = s[m + i]
<1>1. Len(s) \in Nat
  OBVIOUS
<1>2. \A i \in m + 1 .. n : s[i] \in S
  OBVIOUS
<1> QED
  BY <1>1, <1>2, SubSeqProperties

LEMMA Assoc ==
  ASSUME NEW S, NEW s \in Seq(S), NEW t \in Seq(S), NEW u \in Seq(S)
  PROVE  (s \o t) \o u = s \o (t \o u)
BY ConcatAssociative

LEMMA StreamGrows ==
  ASSUME NEW S, buffer \in Seq(S), wire \in Seq(S), NEW t \in Seq(S),
         buffer' = buffer, wire' = wire \o t
  PROVE  Stream' = Stream \o t
<1>1. (buffer \o wire) \o t = buffer \o (wire \o t)
  BY Assoc, SMTT(30)
<1> QED
  BY <1>1, Zenon DEF Stream

(* Units that leave the front of one sequence for the end of another.      *)
LEMMA Moved ==
  ASSUME NEW S, NEW s \in Seq(S), NEW t \in Seq(S), NEW k \in 0 .. Len(t)
  PROVE  (s \o SubSeq(t, 1, k)) \o SubSeq(t, k + 1, Len(t)) = s \o t
<1> DEFINE h == SubSeq(t, 1, k)
           r == SubSeq(t, k + 1, Len(t))
<1>1. h \in Seq(S) /\ r \in Seq(S) /\ h \o r = t
  <2>1. 0 \in 0 .. Len(t) /\ k \in 0 .. Len(t) /\ 0 + 1 = 1 /\ Len(t) \in k .. Len(t)
    OBVIOUS
  <2>2. h \in Seq(S) /\ r \in Seq(S)
    BY <2>1, Part
  <2>3. 1 \in 1 .. Len(t) + 1 /\ k \in 1 - 1 .. Len(t) /\ Len(t) \in k .. Len(t)
    OBVIOUS
  <2>4. h \o r = SubSeq(t, 1, Len(t))
    BY <2>3, ConcatAdjacentSubSeq
  <2> QED
    BY <2>2, <2>4, SubSeqFull
<1> HIDE DEF h, r
<1>2. (s \o h) \o r = s \o (h \o r)
  <2>1. h \in Seq(S) /\ r \in Seq(S)
    BY <1>1
  <2> QED
    BY <2>1, Assoc, SMTT(30)
<1> QED
  BY <1>1, <1>2 DEF h, r

(* Taking units off the front of the first of two sequences.               *)
LEMMA Taken ==
  ASSUME NEW S, NEW s \in Seq(S), NEW t \in Seq(S), NEW k \in 0 .. Len(s)
  PROVE  /\ Len(SubSeq(s, k + 1, Len(s)) \o t) = Len(s \o t) - k
         /\ \A i \in 1 .. Len(s \o t) - k : (SubSeq(s, k + 1, Len(s)) \o t)[i] = (s \o t)[k + i]
<1> DEFINE r == SubSeq(s, k + 1, Len(s))
<1>0. Len(s) \in Nat /\ Len(t) \in Nat /\ Len(s) \in k .. Len(s)
  OBVIOUS
<1>1. r \in Seq(S) /\ Len(r) = Len(s) - k /\ \A i \in 1 .. Len(s) - k : r[i] = s[k + i]
  BY <1>0, Part
<1> HIDE DEF r
<1>2. Len(r \o t) = Len(r) + Len(t) /\ Len(s \o t) = Len(s) + Len(t)
  BY <1>1, Concat
<1>3. ASSUME NEW i \in 1 .. Len(s \o t) - k
      PROVE  (r \o t)[i] = (s \o t)[k + i]
  <2>1. CASE i <= Len(s) - k
    <3>1. i \in 1 .. Len(r) /\ k + i \in 1 .. Len(s) /\ i \in 1 .. Len(s) - k
      BY <1>0, <1>1, <2>1
    <3>2. (r \o t)[i] = r[i] /\ (s \o t)[k + i] = s[k + i]
      BY <1>1, <3>1, Concat
    <3> QED
      BY <1>1, <3>1, <3>2
  <2>2. CASE i > Len(s) - k
    <3> DEFINE j == i - (Len(s) - k)
    <3>1. j \in 1 .. Len(t) /\ i = Len(r) + j /\ k + i = Len(s) + j
      BY <1>0, <1>1, <1>2, <2>2
    <3> HIDE DEF j
    <3>2. (r \o t)[Len(r) + j] = t[j] /\ (s \o t)[Len(s) + j] = t[j]
      BY <1>1, <3>1, Concat
    <3> QED
      BY <3>1, <3>2
  <2>3. i <= Len(s) - k \/ i > Len(s) - k
    BY <1>0, <1>2
  <2> QED
    BY <2>1, <2>2, <2>3
<1>4. Len(r \o t) = Len(s \o t) - k
  BY <1>0, <1>1, <1>2
<1> QED
  BY <1>3, <1>4 DEF r

LEMMA Tabulate ==
  ASSUME NEW S, NEW n \in Nat, NEW f, f = [i \in 1 .. n |-> f[i]], \A i \in 1 .. n : f[i] \in S
  PROVE  f \in Seq(S) /\ Len(f) = n
OBVIOUS

LEMMA Larger ==
  ASSUME NEW S, NEW T, S \subseteq T
  PROVE  Seq(S) \subseteq Seq(T)
OBVIOUS

-----------------------------------------------------------------------------
(* A header has at least four units: the type, the rest of the address,    *)
(* the length and CRLF.                                                    *)
LEMMA HeaderUnits ==
  \A p : /\ Len(Header(p)) \in Nat /\ Len(Header(p)) >= 4
         /\ DOMAIN Header(p) = 1 .. Len(Header(p))
         /\ Len(Header(p)) = SerializedLen(sent[p].addr) + 2
         /\ \A i \in 1 .. Len(Header(p)) : Header(p)[i] = <<"head", p, i>>
<1> TAKE p
<1>1. SerializedLen(sent[p].addr) + 2 \in Nat /\ SerializedLen(sent[p].addr) + 2 >= 4
  BY DEF SerializedLen
<1> DEFINE n == SerializedLen(sent[p].addr) + 2
<1> HIDE DEF n
<1>2. Header(p) = [i \in 1 .. n |-> <<"head", p, i>>]
  BY DEF Header, n
<1>3. Len(Header(p)) = n
  BY <1>1, <1>2 DEF n
<1> QED
  BY <1>1, <1>2, <1>3 DEF n

LEMMA SentTypes ==
  ASSUME TypeOK
  PROVE  /\ Current \in Nat
         /\ \A p \in 1 .. Current : /\ sent[p] \in [addr : Addrs, size : Sizes \cup {0}]
                                    /\ sent[p].addr \in Addrs
                                    /\ sent[p].size \in Nat /\ sent[p].size <= Room
<1> DEFINE Packet == [addr : Addrs, size : Sizes \cup {0}]
<1>1. sent \in Seq(Packet)
  BY DEF TypeOK
<1>2. \A r \in Packet : r.addr \in Addrs /\ r.size \in Nat /\ r.size <= Room
  <2>1. \A n \in Sizes \cup {0} : n \in Nat /\ n <= Room
    BY PacketsAssumption
  <2> QED
    BY <2>1
<1> HIDE DEF Packet
<1>3. Current \in Nat /\ \A p \in 1 .. Current : sent[p] \in Packet
  BY <1>1 DEF Current
<1> QED
  BY <1>2, <1>3 DEF Packet

LEMMA PayloadUnits ==
  ASSUME TypeOK, NEW p \in 1 .. Current
  PROVE  /\ Len(Payload(p)) = sent[p].size
         /\ DOMAIN Payload(p) = 1 .. sent[p].size
         /\ \A i \in 1 .. sent[p].size : Payload(p)[i] = <<"data", p, i>>
<1>1. sent[p].size \in Nat
  BY SentTypes
<1> DEFINE n == sent[p].size
<1> HIDE DEF n
<1>2. Payload(p) = [i \in 1 .. n |-> <<"data", p, i>>]
  BY DEF Payload, n
<1> QED
  BY <1>1, <1>2 DEF n

(* The header and the data of a packet that was sent are units.            *)
LEMMA PacketUnits ==
  ASSUME TypeOK, NEW p \in 1 .. Current
  PROVE  Header(p) \in Seq(Units) /\ Payload(p) \in Seq(Units)
<1>1. Current \in Nat
  BY SentTypes
<1>2. \A i \in Nat \ {0} : <<"head", p, i>> \in Units /\ <<"data", p, i>> \in Units
  BY <1>1 DEF Units
<1> HIDE DEF Units
<1>3. Header(p) \in Seq(Units)
  <2> DEFINE n == Len(Header(p))
  <2>1. n \in Nat /\ Header(p) = [i \in 1 .. n |-> <<"head", p, i>>]
    BY HeaderUnits DEF Header
  <2> HIDE DEF n
  <2>2. ASSUME NEW i \in 1 .. n
        PROVE  Header(p)[i] = <<"head", p, i>> /\ <<"head", p, i>> \in Units
    <3>1. i \in Nat \ {0}
      BY <2>1
    <3> QED
      BY <1>2, <2>1, <3>1
  <2>3. Header(p) = [i \in 1 .. n |-> Header(p)[i]]
    BY <2>1
  <2> QED
    BY <2>1, <2>2, <2>3, Tabulate
<1>4. Payload(p) \in Seq(Units)
  <2> DEFINE n == sent[p].size
  <2>1. n \in Nat /\ Payload(p) = [i \in 1 .. n |-> <<"data", p, i>>]
    BY SentTypes DEF Payload
  <2> HIDE DEF n
  <2>2. ASSUME NEW i \in 1 .. n
        PROVE  Payload(p)[i] = <<"data", p, i>> /\ <<"data", p, i>> \in Units
    <3>1. i \in Nat \ {0}
      BY <2>1
    <3> QED
      BY <1>2, <2>1, <3>1
  <2>3. Payload(p) = [i \in 1 .. n |-> Payload(p)[i]]
    BY <2>1
  <2> QED
    BY <2>1, <2>2, <2>3, Tabulate
<1> QED
  BY <1>3, <1>4

(* What follows a unit. *)
LEMMA AfterUnit ==
  ASSUME TypeOK, NEW p \in 1 .. Current
  PROVE  /\ \A i \in 1 .. Len(Header(p)) - 1 : After(<<"head", p, i>>) = <<"head", p, i + 1>>
         /\ sent[p].size > 0 => After(<<"head", p, Len(Header(p))>>) = <<"data", p, 1>>
         /\ sent[p].size = 0 => After(<<"head", p, Len(Header(p))>>) = <<"head", p + 1, 1>>
         /\ \A i \in 1 .. sent[p].size - 1 : After(<<"data", p, i>>) = <<"data", p, i + 1>>
         /\ sent[p].size > 0 => After(<<"data", p, sent[p].size>>) = <<"head", p + 1, 1>>
<1>1. Len(Header(p)) \in Nat /\ sent[p].size \in Nat
  BY HeaderUnits, SentTypes
<1> QED
  BY <1>1, SMTT(30) DEF After

-----------------------------------------------------------------------------
(* Packets stay as they were sent. *)
LEMMA SentFrame ==
  ASSUME TypeOK, NEW r, sent' = sent \/ sent' = Append(sent, r)
  PROVE  /\ Current \in Nat /\ Current' \in Nat /\ Current <= Current'
         /\ \A p \in 1 .. Current : /\ sent'[p] = sent[p]
                                    /\ Header(p)' = Header(p) /\ Payload(p)' = Payload(p)
                                    /\ Whole(p)' = Whole(p)
         /\ Units \subseteq Units'
         /\ \A u \in Units : After(u)' = After(u)
<1>1. /\ Current \in Nat /\ Current' \in Nat /\ Current <= Current'
      /\ \A p \in 1 .. Current : sent'[p] = sent[p]
  <2> DEFINE Packet == [addr : Addrs, size : Sizes \cup {0}]
  <2>1. sent \in Seq(Packet)
    BY DEF TypeOK
  <2> HIDE DEF Packet
  <2> QED
    BY <2>1 DEF Current
<1>2. \A p \in 1 .. Current : /\ Header(p)' = Header(p) /\ Payload(p)' = Payload(p)
                              /\ Whole(p)' = Whole(p)
  BY <1>1 DEF Header, Payload, Whole
<1>3. Units \subseteq Units'
  BY <1>1 DEF Units
<1>4. ASSUME NEW u \in Units
      PROVE  After(u)' = After(u)
  <2>1. u[2] \in 1 .. Current
    BY <1>1 DEF Units
  <2>2. Header(u[2])' = Header(u[2]) /\ sent'[u[2]] = sent[u[2]]
    BY <1>1, <1>2, <2>1
  <2> QED
    BY <2>2 DEF After
<1> QED
  BY <1>1, <1>2, <1>3, <1>4

(* Nothing that counts for the units in flight has changed.                *)
LEMMA LinkedFrame ==
  ASSUME TypeOK, NEW r, sent' = sent \/ sent' = Append(sent, r),
         \A x : Writes(x) => Writes(x)',
         NEW s \in Seq(Units), NEW u, Linked(s, u)
  PROVE  Linked(s, u)'
<1>1. /\ \A i \in 1 .. Len(s) : s[i] \in Units
      /\ Len(s) \in Nat /\ (s # <<>> => Len(s) \in 1 .. Len(s))
  OBVIOUS
<1>2. \A i \in 1 .. Len(s) : After(s[i])' = After(s[i])
  BY <1>1, SentFrame
<1>3. s = <<>> => Writes(u)'
  BY DEF Linked
<1>4. s # <<>> => s[1] = u /\ Writes(After(s[Len(s)]))'
  <2>1. SUFFICES ASSUME s # <<>> PROVE s[1] = u /\ Writes(After(s[Len(s)]))'
    OBVIOUS
  <2>2. PICK x : x = After(s[Len(s)])
    OBVIOUS
  <2>3. x = After(s[Len(s)])'
    BY <1>1, <1>2, <2>1, <2>2
  <2>4. s[1] = u /\ Writes(x)
    BY <2>1, <2>2 DEF Linked
  <2>5. Writes(x)'
    BY <2>4
  <2> QED
    BY <2>3, <2>4, <2>5
<1>5. \A i \in 1 .. Len(s) - 1 : s[i + 1] = After(s[i])'
  BY <1>1, <1>2 DEF Linked
<1> QED
  BY <1>3, <1>4, <1>5 DEF Linked

(* The reader has used the first k units. *)
LEMMA Drop ==
  ASSUME NEW s, NEW r, NEW u, NEW k \in 1 .. Len(s), Linked(s, u),
         s \in Seq(Units), r \in Seq(Units),
         Len(r) = Len(s) - k, \A i \in 1 .. Len(s) - k : r[i] = s[k + i]
  PROVE  Linked(r, After(s[k]))
<1>1. Len(s) \in Nat /\ s # <<>> /\ Len(r) \in Nat /\ (r = <<>> <=> Len(r) = 0)
  OBVIOUS
<1>2. /\ Writes(After(s[Len(s)]))
      /\ \A i \in 1 .. Len(s) - 1 : s[i + 1] = After(s[i])
  BY <1>1 DEF Linked
<1>3. r = <<>> => Writes(After(s[k]))
  <2>1. SUFFICES ASSUME r = <<>> PROVE Writes(After(s[k]))
    OBVIOUS
  <2>2. k = Len(s)
    BY <1>1, <2>1
  <2> QED
    BY <1>2, <2>2
<1>4. r # <<>> => r[1] = After(s[k]) /\ Writes(After(r[Len(r)]))
  <2>1. SUFFICES ASSUME r # <<>> PROVE r[1] = After(s[k]) /\ Writes(After(r[Len(r)]))
    OBVIOUS
  <2>2. 1 \in 1 .. Len(s) - k /\ k \in 1 .. Len(s) - 1 /\ Len(r) \in 1 .. Len(s) - k
        /\ k + Len(r) = Len(s)
    BY <1>1, <2>1
  <2>3. r[1] = s[k + 1] /\ r[Len(r)] = s[Len(s)]
    BY <2>2
  <2> QED
    BY <1>2, <2>2, <2>3
<1>5. ASSUME NEW i \in 1 .. Len(r) - 1
      PROVE  r[i + 1] = After(r[i])
  <2>1. i \in 1 .. Len(s) - k /\ i + 1 \in 1 .. Len(s) - k /\ k + i \in 1 .. Len(s) - 1
        /\ k + (i + 1) = (k + i) + 1
    BY <1>1
  <2>2. r[i] = s[k + i] /\ r[i + 1] = s[(k + i) + 1]
    BY <2>1, SMTT(30)
  <2> QED
    BY <1>2, <2>1, <2>2
<1> QED
  BY <1>3, <1>4, <1>5 DEF Linked

(* The writer has put units behind the last. *)
LEMMA Extend ==
  ASSUME NEW S, NEW s \in Seq(S), NEW t \in Seq(S), NEW u, t # <<>>,
         s = <<>> => t[1] = u,
         s # <<>> => s[1] = u /\ t[1] = After(s[Len(s)])',
         \A i \in 1 .. Len(s) - 1 : s[i + 1] = After(s[i])',
         \A i \in 1 .. Len(t) - 1 : t[i + 1] = After(t[i])',
         Writes(After(t[Len(t)]))'
  PROVE  Linked(s \o t, u)'
<1> DEFINE c == s \o t
<1>1. /\ Len(s) \in Nat /\ Len(t) \in Nat /\ Len(t) > 0 /\ (s = <<>> <=> Len(s) = 0)
      /\ c \in Seq(S) /\ Len(c) = Len(s) + Len(t)
      /\ \A i \in 1 .. Len(s) : c[i] = s[i]
      /\ \A i \in 1 .. Len(t) : c[Len(s) + i] = t[i]
  BY Concat
<1> HIDE DEF c
<1>2. c # <<>> /\ c[Len(c)] = t[Len(t)]
  BY <1>1
<1>3. c[1] = u
  <2>1. CASE s = <<>>
    BY <1>1, <2>1
  <2>2. CASE s # <<>>
    <3>1. 1 \in 1 .. Len(s)
      BY <1>1, <2>2
    <3> QED
      BY <1>1, <2>2, <3>1
  <2> QED
    BY <2>1, <2>2
<1>4. ASSUME NEW i \in 1 .. Len(c) - 1
      PROVE  c[i + 1] = After(c[i])'
  <2>1. CASE i < Len(s)
    <3>1. i \in 1 .. Len(s) - 1 /\ i \in 1 .. Len(s) /\ i + 1 \in 1 .. Len(s)
      BY <1>1, <2>1
    <3>2. c[i] = s[i] /\ c[i + 1] = s[i + 1]
      BY <1>1, <3>1
    <3> QED
      BY <3>1, <3>2
  <2>2. CASE i = Len(s)
    <3>1. s # <<>> /\ i \in 1 .. Len(s) /\ 1 \in 1 .. Len(t) /\ i + 1 = Len(s) + 1
      BY <1>1, <2>2
    <3>2. c[i] = s[Len(s)] /\ c[i + 1] = t[1]
      BY <1>1, <2>2, <3>1
    <3> QED
      BY <3>1, <3>2
  <2>3. CASE i > Len(s)
    <3> DEFINE j == i - Len(s)
    <3>1. j \in 1 .. Len(t) - 1 /\ j \in 1 .. Len(t) /\ j + 1 \in 1 .. Len(t)
          /\ i = Len(s) + j /\ i + 1 = Len(s) + (j + 1)
      BY <1>1, <2>3
    <3> HIDE DEF j
    <3>2. c[i] = t[j] /\ c[i + 1] = t[j + 1]
      BY <1>1, <3>1
    <3> QED
      BY <3>1, <3>2
  <2>4. i < Len(s) \/ i = Len(s) \/ i > Len(s)
    BY <1>1
  <2> QED
    BY <2>1, <2>2, <2>3, <2>4
<1>5. c[1] = u /\ Writes(After(c[Len(c)]))' /\ c # <<>>
  BY <1>2, <1>3
<1> QED
  BY <1>4, <1>5 DEF Linked, c

-----------------------------------------------------------------------------
LEMMA StreamUnits ==
  ASSUME TypeOK
  PROVE  /\ Stream \in Seq(Units) /\ Len(Stream) = Len(buffer) + Len(wire)
         /\ Len(buffer) \in Nat /\ Len(wire) \in Nat
         /\ \A i \in 1 .. Len(buffer) : Stream[i] = buffer[i] /\ buffer[i] \in Units
         /\ buffer # <<>> => Stream # <<>> /\ Stream[1] = buffer[1] /\ buffer[1] \in Units
<1>1. buffer \in Seq(Units) /\ wire \in Seq(Units)
  BY DEF TypeOK
<1> HIDE DEF Units
<1>2. /\ Len(buffer) \in Nat /\ Len(wire) \in Nat
      /\ \A i \in 1 .. Len(buffer) : buffer[i] \in Units
      /\ buffer # <<>> => 1 \in 1 .. Len(buffer)
  BY <1>1
<1>3. /\ Stream \in Seq(Units) /\ Len(Stream) = Len(buffer) + Len(wire)
      /\ \A i \in 1 .. Len(buffer) : Stream[i] = buffer[i]
  BY <1>1, Concat DEF Stream
<1>4. buffer # <<>> => Len(Stream) # 0
  BY <1>2, <1>3
<1> QED
  BY <1>2, <1>3, <1>4

LEMMA InPacket ==
  ASSUME TypeOK, NEW u \in Units
  PROVE  u[2] \in 1 .. Current /\ u[2] # 0
BY SentTypes DEF Units

(* The buffer begins with the header that the reader expects.              *)
LEMMA HeaderFront ==
  ASSUME TypeOK, NEW p, buffer # <<>>, Linked(Stream, <<"head", p, 1>>)
  PROVE  /\ p \in 1 .. Current /\ buffer[1][2] = p
         /\ \A i \in 1 .. Len(Header(p)) :
              i <= Len(Stream) => Stream[i] = <<"head", p, i>>
<1>1. Stream # <<>> /\ Stream[1] = <<"head", p, 1>> /\ buffer[1] = <<"head", p, 1>>
      /\ buffer[1] \in Units /\ Len(Stream) \in Nat
  BY StreamUnits DEF Linked
<1>2. p \in 1 .. Current /\ buffer[1][2] = p
  BY <1>1, InPacket
<1>3. \A i \in 1 .. Len(Stream) - 1 : Stream[i + 1] = After(Stream[i])
  BY DEF Linked
<1>4. Len(Header(p)) \in Nat
      /\ \A i \in 1 .. Len(Header(p)) - 1 : After(<<"head", p, i>>) = <<"head", p, i + 1>>
  BY <1>2, AfterUnit, HeaderUnits
<1>5. \A i \in 1 .. Len(Header(p)) : i <= Len(Stream) => Stream[i] = <<"head", p, i>>
  <2> DEFINE T   == {i \in Nat : i <= Len(Stream) => Stream[i] = <<"head", p, i>>}
             len == Len(Header(p))
  <2>1. len \in Nat /\ 1 \in T
    BY <1>1, <1>4
  <2>2. ASSUME NEW i \in 1 .. len - 1, i \in T
        PROVE  i + 1 \in T
    <3>1. i \in Nat /\ i + 1 \in Nat /\ (i + 1 <= Len(Stream) => i \in 1 .. Len(Stream) - 1)
      BY <1>1, <2>1
    <3>2. After(<<"head", p, i>>) = <<"head", p, i + 1>>
      BY <1>4
    <3>3. i + 1 <= Len(Stream) => Stream[i] = <<"head", p, i>>
      BY <1>1, <2>2, <3>1
    <3> QED
      BY <1>3, <3>1, <3>2, <3>3
  <2>3. 1 .. len \subseteq T
    <3> HIDE DEF T, len
    <3> QED
      BY <2>1, <2>2, UpTo
  <2> QED
    BY <2>3
<1> QED
  BY <1>2, <1>5

(* Or with the data.                                                       *)
LEMMA DataFront ==
  ASSUME TypeOK, NEW p, buffer # <<>>, Linked(Stream, <<"data", p, 1>>)
  PROVE  /\ p \in 1 .. Current
         /\ \A i \in 1 .. sent[p].size :
              i <= Len(Stream) => Stream[i] = <<"data", p, i>>
<1>1. Stream # <<>> /\ Stream[1] = <<"data", p, 1>> /\ buffer[1] = <<"data", p, 1>>
      /\ buffer[1] \in Units /\ Len(Stream) \in Nat
  BY StreamUnits DEF Linked
<1>2. p \in 1 .. Current
  BY <1>1, InPacket
<1>3. \A i \in 1 .. Len(Stream) - 1 : Stream[i + 1] = After(Stream[i])
  BY DEF Linked
<1>4. sent[p].size \in Nat
      /\ \A i \in 1 .. sent[p].size - 1 : After(<<"data", p, i>>) = <<"data", p, i + 1>>
  BY <1>2, AfterUnit, SentTypes
<1>5. \A i \in 1 .. sent[p].size : i <= Len(Stream) => Stream[i] = <<"data", p, i>>
  <2> DEFINE T   == {i \in Nat : i <= Len(Stream) => Stream[i] = <<"data", p, i>>}
             len == sent[p].size
  <2>1. len \in Nat /\ 1 \in T
    BY <1>1, <1>4
  <2>2. ASSUME NEW i \in 1 .. len - 1, i \in T
        PROVE  i + 1 \in T
    <3>1. i \in Nat /\ i + 1 \in Nat /\ (i + 1 <= Len(Stream) => i \in 1 .. Len(Stream) - 1)
      BY <1>1, <2>1
    <3>2. After(<<"data", p, i>>) = <<"data", p, i + 1>>
      BY <1>4
    <3>3. i + 1 <= Len(Stream) => Stream[i] = <<"data", p, i>>
      BY <1>1, <2>2, <3>1
    <3> QED
      BY <1>3, <3>1, <3>2, <3>3
  <2>3. 1 .. len \subseteq T
    <3> HIDE DEF T, len
    <3> QED
      BY <2>1, <2>2, UpTo
  <2> QED
    BY <2>3
<1> QED
  BY <1>2, <1>5

(* What the reader parses is the header of that packet.                    *)
LEMMA Parsed ==
  ASSUME TypeOK, NEW p, Linked(Stream, <<"head", p, 1>>),
         NEW k \in 1 .. Len(Header(p)), k <= Len(buffer)
  PROVE  p \in 1 .. Current /\ ReadFromCursor(k) = p
<1>1. k \in Nat /\ k >= 1 /\ Len(Header(p)) \in Nat /\ k <= Len(Header(p))
  BY HeaderUnits
<1>2. buffer # <<>> /\ Len(buffer) \in Nat /\ buffer \in Seq(Units)
  BY <1>1, StreamUnits DEF TypeOK
<1>3. p \in 1 .. Current /\ buffer[1][2] = p
  BY <1>2, HeaderFront
<1>4. \A i \in 1 .. k : buffer[i] = Header(p)[i]
  <2> TAKE i \in 1 .. k
  <2>1. i \in 1 .. Len(Header(p)) /\ i \in 1 .. Len(buffer) /\ i <= Len(Stream)
    BY <1>1, <1>2, StreamUnits
  <2>2. Stream[i] = <<"head", p, i>>
    BY <1>2, <2>1, HeaderFront
  <2> QED
    BY <2>1, <2>2, StreamUnits, HeaderUnits
<1>5. SubSeq(buffer, 1, k) = SubSeq(Header(p), 1, k)
  <2>1. Header(p) \in Seq(Units)
    BY <1>3, PacketUnits
  <2> DEFINE h == Header(p)
             b == SubSeq(buffer, 1, k)
             c == SubSeq(h, 1, k)
  <2> HIDE DEF Units
  <2>2. 0 \in 0 .. Len(buffer) /\ k \in 0 .. Len(buffer) /\ 0 \in 0 .. Len(h) /\ k \in 0 .. Len(h)
        /\ 0 + 1 = 1 /\ k - 0 = k
    BY <1>1, <1>2
  <2>3. h \in Seq(Units)
    BY <2>1
  <2> HIDE DEF h
  <2>4. b \in Seq(Units) /\ Len(b) = k /\ \A i \in 1 .. k : b[i] = buffer[i]
    <3>1. \A i \in 1 .. k : 0 + i = i
      BY <1>1
    <3> QED
      BY <1>2, <2>2, <3>1, Part
  <2>5. c \in Seq(Units) /\ Len(c) = k /\ \A i \in 1 .. k : c[i] = h[i]
    <3>1. \A i \in 1 .. k : 0 + i = i
      BY <1>1
    <3> QED
      BY <2>2, <2>3, <3>1, Part
  <2>6. \A i \in 1 .. k : b[i] = c[i]
    BY <1>4, <2>4, <2>5 DEF h
  <2> HIDE DEF b, c
  <2>7. b = c
    BY <2>4, <2>5, <2>6, SeqEqual
  <2> QED
    BY <2>7 DEF b, c, h
<1> QED
  BY <1>3, <1>5 DEF ReadFromCursor

-----------------------------------------------------------------------------
(* What a step that returns no datagram leaves as it was.                  *)
LEMMA GotFrame ==
  ASSUME TypeOK, DatagramsAreWhole, PacketsInOrder,
         NEW r, sent' = sent \/ sent' = Append(sent, r),
         kind' = kind, got' = got, torn' = torn,
         reader' = reader \/ (reader # "ended" /\ reader' # "garbled")
  PROVE  DatagramsAreWhole' /\ PacketsInOrder'
<1>1. /\ Current \in Nat /\ Current' \in Nat /\ Current <= Current'
      /\ \A p \in 1 .. Current : p \in 1 .. Current' /\ sent'[p] = sent[p] /\ Whole(p)' = Whole(p)
  <2>1. /\ Current \in Nat /\ Current' \in Nat /\ Current <= Current'
        /\ \A p \in 1 .. Current : sent'[p] = sent[p] /\ Whole(p)' = Whole(p)
    BY SentFrame
  <2> QED
    BY <2>1
<1>2. DatagramsAreWhole'
  <2>1. SUFFICES ASSUME ~torn PROVE DatagramsAreWhole'
    BY DEF DatagramsAreWhole
  <2>2. reader' # "garbled"
    BY <2>1 DEF DatagramsAreWhole
  <2>3. ASSUME NEW k \in DOMAIN got
        PROVE  \/ \E p \in 1 .. Current' : got'[k] = Whole(p)'
               \/ kind' = "trojan" /\ k = Len(got') /\ reader' = "ended" /\ got'[k].data = <<>>
    <3>1. CASE \E p \in 1 .. Current : got[k] = Whole(p)
      BY <1>1, <3>1
    <3>2. CASE kind = "trojan" /\ k = Len(got) /\ reader = "ended" /\ got[k].data = <<>>
      BY <3>2
    <3> QED
      BY <2>1, <3>1, <3>2 DEF DatagramsAreWhole
  <2> QED
    BY <2>2, <2>3 DEF DatagramsAreWhole
<1>3. PacketsInOrder'
  <2>1. SUFFICES ASSUME kind = "trojan", ~torn, NEW k \in Full
                 PROVE  /\ Number(k) \in 1 .. Current' /\ got[k] = Whole(Number(k))'
                        /\ \A j \in Full : j < k => Number(j) < Number(k)
                        /\ \A q \in 1 .. Number(k) - 1 :
                             sent'[q].size > 0 => \E j \in 1 .. k - 1 : got[j] = Whole(q)'
    BY DEF PacketsInOrder, Full, Number
  <2>2. PICK m : m = Number(k) /\ m = Number(k)'
    BY DEF Number
  <2>3. /\ m \in 1 .. Current /\ got[k] = Whole(m)
        /\ \A j \in Full : j < k => Number(j) < m
        /\ \A q \in 1 .. m - 1 : sent[q].size > 0 => \E j \in 1 .. k - 1 : got[j] = Whole(q)
    BY <2>1, <2>2 DEF PacketsInOrder
  <2>4. m \in 1 .. Current' /\ got[k] = Whole(m)'
    BY <1>1, <2>3
  <2>5. ASSUME NEW q \in 1 .. m - 1, sent'[q].size > 0
        PROVE  \E j \in 1 .. k - 1 : got[j] = Whole(q)'
    <3>1. q \in 1 .. Current
      BY <1>1, <2>3
    <3> QED
      BY <1>1, <2>3, <2>5, <3>1
  <2> QED
    BY <2>2, <2>3, <2>4, <2>5
<1> QED
  BY <1>2, <1>3

LEMMA ReturnedFrame ==
  ASSUME TypeOK, NEW r, sent' = sent \/ sent' = Append(sent, r), got' = got,
         NEW n \in 0 .. Current, ReturnedTo(n)
  PROVE  ReturnedTo(n)'
<1>1. Current \in Nat /\ \A p \in 1 .. Current : sent'[p] = sent[p] /\ Whole(p)' = Whole(p)
  BY SentFrame
<1>2. ASSUME NEW q \in 1 .. n, sent'[q].size > 0
      PROVE  \E k \in DOMAIN got' : got'[k] = Whole(q)'
  <2>1. q \in 1 .. Current
    BY <1>1
  <2> QED
    BY <1>1, <1>2, <2>1 DEF ReturnedTo
<1>3. \A k \in Full' : Number(k)' <= n
  BY DEF ReturnedTo, Full, Number
<1> QED
  BY <1>2, <1>3 DEF ReturnedTo

(* The units in flight are the same, whoever holds them.                   *)
LEMMA StreamFrame ==
  ASSUME TypeOK, StreamInv, NEW r, sent' = sent \/ sent' = Append(sent, r),
         kind = "trojan" => \A x : Writes(x) => Writes(x)',
         Stream' = Stream, UNCHANGED <<kind, torn, reader, data_length, addr, got>>
  PROVE  StreamInv'
<1>1. SUFFICES ASSUME kind = "trojan", ~torn, reader \in {"open", "header", "payload"}
               PROVE  \E n \in 0 .. Current' : At(n)'
  BY DEF StreamInv
<1>2. PICK n \in 0 .. Current : At(n)
  BY <1>1 DEF StreamInv
<1>3. Current \in Nat /\ Current' \in Nat /\ Current <= Current' /\ n \in 0 .. Current'
  BY SentFrame
<1>4. n < Current => sent'[n + 1] = sent[n + 1] /\ Header(n + 1)' = Header(n + 1) /\ n < Current'
  <2>1. n < Current => n + 1 \in 1 .. Current /\ n < Current'
    BY <1>3
  <2>2. \A p \in 1 .. Current : sent'[p] = sent[p] /\ Header(p)' = Header(p)
    BY SentFrame
  <2> QED
    BY <2>1, <2>2
<1>5. ReturnedTo(n)'
  BY <1>2, ReturnedFrame DEF At
<1>6. Linked(Stream, Expected(n))'
  <2>1. PICK s, u : s = Stream /\ u = Expected(n)
    OBVIOUS
  <2>2. s \in Seq(Units) /\ Linked(s, u)
    BY <1>2, <2>1, StreamUnits DEF At
  <2>3. Linked(s, u)'
    BY <1>1, <2>2, LinkedFrame
  <2>4. s = Stream' /\ u = Expected(n)'
    BY <2>1 DEF Expected
  <2> QED
    BY <2>3, <2>4
<1> QED
  BY <1>2, <1>3, <1>4, <1>5, <1>6 DEF At

(* What was a unit or a datagram stays one. *)
LEMMA TypeFrame ==
  ASSUME TypeOK, NEW r, sent' = sent \/ (sent' = Append(sent, r) /\ r \in [addr : Addrs, size : Sizes \cup {0}])
  PROVE  /\ sent' \in Seq([addr : Addrs, size : Sizes \cup {0}])
         /\ wire \in Seq(Units') /\ buffer \in Seq(Units')
         /\ got \in Seq([addr : Addrs \cup {Dummy}, data : Seq(Units')])
<1>1. Units \subseteq Units'
  BY SentFrame
<1>2. Seq(Units) \subseteq Seq(Units')
  BY <1>1, Larger
<1>3. [addr : Addrs \cup {Dummy}, data : Seq(Units)] \subseteq [addr : Addrs \cup {Dummy}, data : Seq(Units')]
  BY <1>2
<1>4. Seq([addr : Addrs \cup {Dummy}, data : Seq(Units)]) \subseteq
        Seq([addr : Addrs \cup {Dummy}, data : Seq(Units')])
  BY <1>3, Larger
<1>5. sent' \in Seq([addr : Addrs, size : Sizes \cup {0}])
  <2> DEFINE Packet == [addr : Addrs, size : Sizes \cup {0}]
  <2>1. sent \in Seq(Packet) /\ (sent' = sent \/ (sent' = Append(sent, r) /\ r \in Packet))
    BY DEF TypeOK
  <2> HIDE DEF Packet
  <2>2. sent' \in Seq(Packet)
    BY <2>1
  <2> QED
    BY <2>2 DEF Packet
<1> QED
  BY <1>2, <1>4, <1>5 DEF TypeOK

-----------------------------------------------------------------------------
LEMMA HeaderUnitsNext ==
  \A p : /\ Len(Header(p))' \in Nat /\ Len(Header(p))' >= 4
         /\ Len(Header(p))' = SerializedLen(sent'[p].addr) + 2
<1> TAKE p
<1> DEFINE n == SerializedLen(sent'[p].addr) + 2
<1>1. n \in Nat /\ n >= 4
  BY DEF SerializedLen
<1> HIDE DEF n
<1>2. Header(p)' = [i \in 1 .. n |-> <<"head", p, i>>]
  BY DEF Header, n
<1> QED
  BY <1>1, <1>2 DEF n

(* send_to is called. *)
LEMMA SendToInv ==
  ASSUME IInv, NEW a \in Addrs, NEW n \in Sizes, SendTo(a, n)
  PROVE  IInv'
<1> DEFINE r == [addr |-> a, size |-> n]
<1>1. TypeOK /\ WriterInv /\ StreamInv /\ DatagramsAreWhole /\ PacketsInOrder
  BY DEF IInv
<1>2. /\ writer \in {"idle", "ended"} /\ Current < MaxPackets /\ sent' = Append(sent, r)
      /\ writer' = (IF writer = "ended" THEN "ended"
                    ELSE IF kind # "trojan" THEN "data"
                    ELSE IF n = 0 THEN "ended" ELSE "header")
      /\ UNCHANGED <<kind, pos, torn, wire, closed, net, reader, buffer, data_length, addr, got>>
  BY DEF SendTo, readerVars
<1>3. r \in [addr : Addrs, size : Sizes \cup {0}] /\ n \in Nat /\ r.size = n /\ pos = 0
  BY <1>1, <1>2, PacketsAssumption DEF WriterInv
<1> HIDE DEF r
<1>4. Current \in Nat /\ Current' = Current + 1 /\ sent'[Current'] = r /\ Current' > 0
  <2> DEFINE Packet == [addr : Addrs, size : Sizes \cup {0}]
  <2>1. sent \in Seq(Packet)
    BY <1>1 DEF TypeOK
  <2> HIDE DEF Packet
  <2> QED
    BY <1>2, <2>1 DEF Current
<1>5. /\ sent' \in Seq([addr : Addrs, size : Sizes \cup {0}])
      /\ wire \in Seq(Units') /\ buffer \in Seq(Units')
      /\ got \in Seq([addr : Addrs \cup {Dummy}, data : Seq(Units')])
  BY <1>1, <1>2, <1>3, TypeFrame
<1>6. TypeOK'
  <2>1. net \subseteq 1 .. Current'
    BY <1>1, <1>4 DEF TypeOK
  <2>2. writer' = "header" => pos' < Len(Header(Current))'
    <3>1. Len(Header(Current))' \in Nat /\ Len(Header(Current))' >= 4
      BY HeaderUnitsNext
    <3> QED
      BY <1>2, <1>3, <3>1
  <2>3. writer' = "data" => pos' <= sent'[Current'].size
    BY <1>2, <1>3, <1>4
  <2> QED
    BY <1>1, <1>2, <1>5, <2>1, <2>2, <2>3 DEF TypeOK
<1>7. WriterInv'
  <2>1. kind' = "trojan" /\ writer' \in {"header", "data", "failed"} => sent'[Current'].size > 0 /\ writer' = "header"
    BY <1>2, <1>3, <1>4
  <2> QED
    BY <1>1, <1>2, <1>3, <1>4, <2>1, PacketsAssumption DEF WriterInv
<1>8. StreamInv'
  <2>1. ASSUME NEW x, Writes(x), kind = "trojan" PROVE Writes(x)'
    <3>1. CASE writer' = "header"
      <4>1. writer = "idle" /\ x = <<"head", Current + 1, 1>> /\ pos' + 1 = 1
        BY <1>2, <1>3, <2>1, <3>1 DEF Writes
      <4> QED
        BY <1>4, <3>1, <4>1 DEF Writes
    <3>2. CASE writer' = "ended"
      BY <3>2 DEF Writes
    <3> QED
      BY <1>2, <2>1, <3>1, <3>2
  <2>2. Stream' = Stream
    BY <1>2 DEF Stream
  <2> QED
    BY <1>1, <1>2, <2>1, <2>2, StreamFrame
<1>9. DatagramsAreWhole' /\ PacketsInOrder'
  BY <1>1, <1>2, GotFrame
<1> QED
  BY <1>6, <1>7, <1>8, <1>9 DEF IInv

(* The stream takes the units that the writer goes on with.                *)
LEMMA Written ==
  ASSUME TypeOK, StreamInv, NEW r, sent' = sent \/ sent' = Append(sent, r),
         UNCHANGED <<kind, torn, reader, buffer, data_length, addr, got>>,
         NEW t \in Seq(Units'), wire' = wire \o t, t # <<>>,
         \A x : Writes(x) => x = t[1],
         \A i \in 1 .. Len(t) - 1 : t[i + 1] = After(t[i])',
         Writes(After(t[Len(t)]))'
  PROVE  StreamInv'
<1>1. SUFFICES ASSUME kind = "trojan", ~torn, reader \in {"open", "header", "payload"}
               PROVE  \E n \in 0 .. Current' : At(n)'
  BY DEF StreamInv
<1>2. PICK n \in 0 .. Current : At(n)
  BY <1>1 DEF StreamInv
<1>3. Current \in Nat /\ Current' \in Nat /\ Current <= Current' /\ n \in 0 .. Current'
  <2>1. Current \in Nat /\ Current' \in Nat /\ Current <= Current'
    BY SentFrame
  <2> QED
    BY <2>1
<1>4. n < Current => sent'[n + 1] = sent[n + 1] /\ Header(n + 1)' = Header(n + 1) /\ n < Current'
  <2>1. n < Current => n + 1 \in 1 .. Current /\ n < Current'
    BY <1>3
  <2>2. \A p \in 1 .. Current : sent'[p] = sent[p] /\ Header(p)' = Header(p)
    BY SentFrame
  <2> QED
    BY <2>1, <2>2
<1>5. ReturnedTo(n)'
  BY <1>2, ReturnedFrame DEF At
<1>6. Linked(Stream, Expected(n))'
  <2>1. PICK s, u : s = Stream /\ u = Expected(n)
    OBVIOUS
  <2>2. s \in Seq(Units) /\ Linked(s, u) /\ u = Expected(n)'
    BY <1>2, <2>1, StreamUnits DEF At, Expected
  <2>3. Units \subseteq Units' /\ \A v \in Units : After(v)' = After(v)
    BY SentFrame
  <2>4. Seq(Units) \subseteq Seq(Units')
    BY <2>3, Larger
  <2>5. s \o t = Stream'
    <3>1. PICK S : S = Units'
      OBVIOUS
    <3>2. buffer \in Seq(S) /\ wire \in Seq(S) /\ t \in Seq(S)
      BY <2>4, <3>1 DEF TypeOK
    <3> QED
      BY <2>1, <3>2, StreamGrows
  <2>6. /\ \A i \in 1 .. Len(s) : s[i] \in Units /\ After(s[i])' = After(s[i])
        /\ Len(s) \in Nat /\ (s # <<>> => Len(s) \in 1 .. Len(s))
    <3>1. /\ \A i \in 1 .. Len(s) : s[i] \in Units
          /\ Len(s) \in Nat /\ (s # <<>> => Len(s) \in 1 .. Len(s))
      BY <2>2
    <3> QED
      BY <2>3, <3>1
  <2>7. /\ s = <<>> => t[1] = u
        /\ s # <<>> => s[1] = u /\ t[1] = After(s[Len(s)])'
        /\ \A i \in 1 .. Len(s) - 1 : s[i + 1] = After(s[i])'
    <3>1. s = <<>> => t[1] = u
      BY <2>2 DEF Linked
    <3>2. s # <<>> => s[1] = u /\ t[1] = After(s[Len(s)])'
      <4>1. SUFFICES ASSUME s # <<>> PROVE s[1] = u /\ t[1] = After(s[Len(s)])'
        OBVIOUS
      <4>2. PICK x : x = After(s[Len(s)])
        OBVIOUS
      <4>3. s[1] = u /\ Writes(x)
        BY <2>2, <4>1, <4>2 DEF Linked
      <4> QED
        BY <2>6, <4>1, <4>2, <4>3
    <3>3. \A i \in 1 .. Len(s) - 1 : s[i + 1] = After(s[i])'
      BY <2>2, <2>6 DEF Linked
    <3> QED
      BY <3>1, <3>2, <3>3
  <2>8. Linked(s \o t, u)'
    <3>1. PICK S : S = Units'
      OBVIOUS
    <3>2. s \in Seq(S) /\ t \in Seq(S)
      BY <2>2, <2>4, <3>1
    <3> HIDE DEF Units
    <3> QED
      BY <2>7, <3>2, Extend, SMTT(30)
  <2>9. PICK c : c = s \o t
    OBVIOUS
  <2> QED
    BY <2>2, <2>5, <2>8, <2>9
<1> QED
  BY <1>2, <1>3, <1>4, <1>5, <1>6 DEF At

(* write_buffer_data and write_data. *)
LEMMA WriteHeaderInv ==
  ASSUME IInv, NEW k \in 1 .. Room + 5, WriteHeader(k)
  PROVE  IInv'
<1>1. TypeOK /\ WriterInv /\ StreamInv /\ DatagramsAreWhole /\ PacketsInOrder
  BY DEF IInv
<1>2. PICK p, len, t :
        p = Current /\ len = Len(Header(Current)) /\ t = SubSeq(Header(Current), pos + 1, pos + k)
  OBVIOUS
<1>3. /\ kind = "trojan" /\ writer = "header" /\ ~closed /\ pos + k <= len /\ wire' = wire \o t
      /\ writer' = (IF pos + k = len THEN "data" ELSE "header")
      /\ pos' = (IF pos + k = len THEN 0 ELSE pos + k)
      /\ UNCHANGED <<kind, sent, torn, closed, net, reader, buffer, data_length, addr, got>>
  BY <1>1, <1>2 DEF WriteHeader, readerVars, WriterInv
<1>4. /\ p \in Nat /\ p \in 1 .. Current /\ pos \in Nat /\ len \in Nat /\ k \in Nat /\ k >= 1
      /\ sent[p].size \in Nat /\ sent[p].size > 0
  <2>1. Current \in Nat /\ Current > 0 /\ sent[Current].size > 0 /\ pos \in Nat
    BY <1>1, <1>3, SentTypes DEF WriterInv, TypeOK
  <2>2. Room \in Nat
    BY PacketsAssumption
  <2>3. p \in 1 .. Current /\ len \in Nat
    BY <1>1, <1>2, <2>1, HeaderUnits, SentTypes
  <2>4. sent[p].size \in Nat
    BY <1>1, <2>3, SentTypes
  <2> QED
    BY <1>2, <2>1, <2>2, <2>3, <2>4
<1>5. Current' = Current /\ sent'[p] = sent[p] /\ Len(Header(p))' = Len(Header(p)) /\ Units' = Units
      /\ \A u : After(u)' = After(u)
  BY <1>3 DEF Current, Header, Units, After
<1>6. /\ t \in Seq(Units) /\ Len(t) = k /\ t # <<>>
      /\ \A i \in 1 .. k : t[i] = <<"head", p, pos + i>>
  <2>1. PICK s : s = Header(p)
    OBVIOUS
  <2>2. s \in Seq(Units) /\ Len(s) = len /\ \A i \in 1 .. len : s[i] = <<"head", p, i>>
    BY <1>1, <1>2, <1>4, <2>1, PacketUnits, HeaderUnits, PayloadUnits
  <2>3. pos \in 0 .. Len(s) /\ pos + k \in pos .. Len(s) /\ (pos + k) - pos = k
    BY <1>3, <1>4, <2>2
  <2>4. PICK n : n = pos + k
    OBVIOUS
  <2>5. t = SubSeq(s, pos + 1, n)
    BY <1>2, <2>1, <2>4
  <2> HIDE DEF Units
  <2>6. t \in Seq(Units) /\ Len(t) = k /\ \A i \in 1 .. k : t[i] = s[pos + i]
    BY <2>2, <2>3, <2>4, <2>5, Part
  <2>7. ASSUME NEW i \in 1 .. k
        PROVE  t[i] = <<"head", p, pos + i>>
    <3>1. pos + i \in 1 .. len
      BY <1>3, <1>4
    <3> QED
      BY <2>2, <2>6, <3>1
  <2> QED
    BY <1>4, <2>6, <2>7
<1>7. TypeOK'
  <2>1. wire' \in Seq(Units')
    <3>1. wire \in Seq(Units)
      BY <1>1 DEF TypeOK
    <3> HIDE DEF Units
    <3> QED
      BY <1>3, <1>5, <1>6, <3>1, Concat
  <2>2. writer' = "header" => pos' < Len(Header(Current))'
    BY <1>2, <1>3, <1>4, <1>5
  <2>3. writer' = "data" => pos' <= sent'[Current'].size
    BY <1>2, <1>3, <1>4, <1>5
  <2>4. pos' \in Nat
    BY <1>3, <1>4
  <2>5. /\ kind' \in Kinds /\ sent' \in Seq([addr : Addrs, size : Sizes \cup {0}])
        /\ writer' \in {"idle", "header", "data", "ended", "failed"}
        /\ net' \subseteq 1 .. Current' /\ buffer' \in Seq(Units')
        /\ reader' \in {"open", "header", "payload", "ended", "garbled"}
        /\ data_length' \in Nat /\ addr' \in Addrs \cup {Dummy}
        /\ got' \in Seq([addr : Addrs \cup {Dummy}, data : Seq(Units')])
        /\ torn' \in BOOLEAN /\ closed' \in BOOLEAN
    BY <1>1, <1>3, <1>5 DEF TypeOK
  <2> QED
    BY <2>1, <2>2, <2>3, <2>4, <2>5 DEF TypeOK
<1>8. WriterInv'
  BY <1>1, <1>2, <1>3, <1>4, <1>5 DEF WriterInv
<1>9. StreamInv'
  <2>1. \A x : Writes(x) => x = t[1]
    <3>1. t[1] = <<"head", p, pos + 1>>
      BY <1>4, <1>6
    <3> QED
      BY <1>2, <1>3, <3>1 DEF Writes
  <2>2. ASSUME NEW i \in 1 .. Len(t) - 1
        PROVE  t[i + 1] = After(t[i])'
    <3>1. i \in 1 .. k /\ i + 1 \in 1 .. k /\ pos + i \in 1 .. len - 1 /\ pos + (i + 1) = (pos + i) + 1
      BY <1>3, <1>4, <1>6
    <3>2. PICK j : j = pos + i
      OBVIOUS
    <3>3. t[i] = <<"head", p, j>> /\ t[i + 1] = <<"head", p, j + 1>>
      BY <1>6, <3>1, <3>2
    <3>4. After(<<"head", p, j>>) = <<"head", p, j + 1>>
      BY <1>1, <1>2, <1>4, <3>1, <3>2, AfterUnit
    <3> QED
      BY <1>5, <3>3, <3>4
  <2>3. Writes(After(t[Len(t)]))'
    <3>1. PICK j : j = pos + k
      OBVIOUS
    <3>2. t[Len(t)] = <<"head", p, j>>
      BY <1>4, <1>6, <3>1
    <3>3. PICK x : x = After(<<"head", p, j>>)
      OBVIOUS
    <3>4. x = After(t[Len(t)])'
      BY <1>5, <3>2, <3>3
    <3>5. CASE j = len
      <4>1. x = <<"data", p, 1>>
        BY <1>1, <1>2, <1>4, <3>3, <3>5, AfterUnit
      <4>2. writer' = "data" /\ pos' = 0 /\ Current' = p
        BY <1>2, <1>3, <1>5, <3>1, <3>5
      <4>3. Writes(x)'
        BY <4>1, <4>2 DEF Writes
      <4> QED
        BY <3>4, <4>3
    <3>6. CASE j # len
      <4>1. j \in 1 .. len - 1
        BY <1>3, <1>4, <3>1, <3>6
      <4>2. x = <<"head", p, j + 1>>
        BY <1>1, <1>2, <1>4, <3>3, <4>1, AfterUnit
      <4>3. writer' = "header" /\ pos' = j /\ Current' = p
        BY <1>2, <1>3, <1>5, <3>1, <3>6
      <4>4. Writes(x)'
        BY <4>2, <4>3 DEF Writes
      <4> QED
        BY <3>4, <4>4
    <3> QED
      BY <3>5, <3>6
  <2>4. t \in Seq(Units')
    BY <1>5, <1>6
  <2>5. UNCHANGED <<kind, torn, reader, buffer, data_length, addr, got>>
    BY <1>3
  <2> QED
    BY <1>1, <1>3, <1>6, <2>1, <2>2, <2>3, <2>4, <2>5, Written
<1>10. DatagramsAreWhole' /\ PacketsInOrder'
  BY <1>1, <1>3, GotFrame
<1> QED
  BY <1>7, <1>8, <1>9, <1>10 DEF IInv

LEMMA WriteDataInv ==
  ASSUME IInv, NEW k \in 1 .. Room + 5, WriteData(k)
  PROVE  IInv'
<1>1. TypeOK /\ WriterInv /\ StreamInv /\ DatagramsAreWhole /\ PacketsInOrder
  BY DEF IInv
<1>2. PICK p, len, t :
        p = Current /\ len = sent[Current].size /\ t = SubSeq(Payload(Current), pos + 1, pos + k)
  OBVIOUS
<1>3. /\ kind = "trojan" /\ writer = "data" /\ ~closed /\ pos + k <= len /\ wire' = wire \o t
      /\ writer' = (IF pos + k = len THEN "idle" ELSE "data")
      /\ pos' = (IF pos + k = len THEN 0 ELSE pos + k)
      /\ UNCHANGED <<kind, sent, torn, closed, net, reader, buffer, data_length, addr, got>>
  BY <1>1, <1>2 DEF WriteData, readerVars, WriterInv
<1>4. /\ p \in Nat /\ p \in 1 .. Current /\ pos \in Nat /\ len \in Nat /\ k \in Nat /\ k >= 1
      /\ sent[p].size \in Nat /\ sent[p].size > 0
  <2>1. Current \in Nat /\ Current > 0 /\ sent[Current].size > 0 /\ pos \in Nat
    BY <1>1, <1>3, SentTypes DEF WriterInv, TypeOK
  <2>2. Room \in Nat
    BY PacketsAssumption
  <2>3. p \in 1 .. Current /\ len \in Nat
    BY <1>1, <1>2, <2>1, HeaderUnits, SentTypes
  <2>4. sent[p].size \in Nat
    BY <1>1, <2>3, SentTypes
  <2> QED
    BY <1>2, <2>1, <2>2, <2>3, <2>4
<1>5. Current' = Current /\ sent'[p] = sent[p] /\ Len(Header(p))' = Len(Header(p)) /\ Units' = Units
      /\ \A u : After(u)' = After(u)
  BY <1>3 DEF Current, Header, Units, After
<1>6. /\ t \in Seq(Units) /\ Len(t) = k /\ t # <<>>
      /\ \A i \in 1 .. k : t[i] = <<"data", p, pos + i>>
  <2>1. PICK s : s = Payload(p)
    OBVIOUS
  <2>2. s \in Seq(Units) /\ Len(s) = len /\ \A i \in 1 .. len : s[i] = <<"data", p, i>>
    BY <1>1, <1>2, <1>4, <2>1, PacketUnits, HeaderUnits, PayloadUnits
  <2>3. pos \in 0 .. Len(s) /\ pos + k \in pos .. Len(s) /\ (pos + k) - pos = k
    BY <1>3, <1>4, <2>2
  <2>4. PICK n : n = pos + k
    OBVIOUS
  <2>5. t = SubSeq(s, pos + 1, n)
    BY <1>2, <2>1, <2>4
  <2> HIDE DEF Units
  <2>6. t \in Seq(Units) /\ Len(t) = k /\ \A i \in 1 .. k : t[i] = s[pos + i]
    BY <2>2, <2>3, <2>4, <2>5, Part
  <2>7. ASSUME NEW i \in 1 .. k
        PROVE  t[i] = <<"data", p, pos + i>>
    <3>1. pos + i \in 1 .. len
      BY <1>3, <1>4
    <3> QED
      BY <2>2, <2>6, <3>1
  <2> QED
    BY <1>4, <2>6, <2>7
<1>7. TypeOK'
  <2>1. wire' \in Seq(Units')
    <3>1. wire \in Seq(Units)
      BY <1>1 DEF TypeOK
    <3> HIDE DEF Units
    <3> QED
      BY <1>3, <1>5, <1>6, <3>1, Concat
  <2>2. writer' = "header" => pos' < Len(Header(Current))'
    BY <1>2, <1>3, <1>4, <1>5
  <2>3. writer' = "data" => pos' <= sent'[Current'].size
    BY <1>2, <1>3, <1>4, <1>5
  <2>4. pos' \in Nat
    BY <1>3, <1>4
  <2>5. /\ kind' \in Kinds /\ sent' \in Seq([addr : Addrs, size : Sizes \cup {0}])
        /\ writer' \in {"idle", "header", "data", "ended", "failed"}
        /\ net' \subseteq 1 .. Current' /\ buffer' \in Seq(Units')
        /\ reader' \in {"open", "header", "payload", "ended", "garbled"}
        /\ data_length' \in Nat /\ addr' \in Addrs \cup {Dummy}
        /\ got' \in Seq([addr : Addrs \cup {Dummy}, data : Seq(Units')])
        /\ torn' \in BOOLEAN /\ closed' \in BOOLEAN
    BY <1>1, <1>3, <1>5 DEF TypeOK
  <2> QED
    BY <2>1, <2>2, <2>3, <2>4, <2>5 DEF TypeOK
<1>8. WriterInv'
  <2>1. /\ writer' = "idle" => pos' = 0
        /\ writer' = "data" => pos' < sent'[Current'].size
        /\ writer' = "idle" \/ writer' = "data"
    <3>1. sent'[Current'].size = len
      BY <1>2, <1>5
    <3>2. CASE pos + k = len
      BY <1>3, <3>2
    <3>3. CASE pos + k # len
      BY <1>3, <1>4, <3>1, <3>3
    <3> QED
      BY <3>2, <3>3
  <2>2. Current' > 0 /\ sent'[Current'].size > 0 /\ Current' <= MaxPackets
    BY <1>1, <1>2, <1>4, <1>5 DEF WriterInv
  <2> QED
    BY <1>1, <1>3, <2>1, <2>2 DEF WriterInv
<1>9. StreamInv'
  <2>1. \A x : Writes(x) => x = t[1]
    <3>1. t[1] = <<"data", p, pos + 1>>
      BY <1>4, <1>6
    <3> QED
      BY <1>2, <1>3, <3>1 DEF Writes
  <2>2. ASSUME NEW i \in 1 .. Len(t) - 1
        PROVE  t[i + 1] = After(t[i])'
    <3>1. i \in 1 .. k /\ i + 1 \in 1 .. k /\ pos + i \in 1 .. len - 1 /\ pos + (i + 1) = (pos + i) + 1
      BY <1>3, <1>4, <1>6
    <3>2. PICK j : j = pos + i
      OBVIOUS
    <3>3. t[i] = <<"data", p, j>> /\ t[i + 1] = <<"data", p, j + 1>>
      BY <1>6, <3>1, <3>2
    <3>4. After(<<"data", p, j>>) = <<"data", p, j + 1>>
      BY <1>1, <1>2, <1>4, <3>1, <3>2, AfterUnit
    <3> QED
      BY <1>5, <3>3, <3>4
  <2>3. Writes(After(t[Len(t)]))'
    <3>1. PICK j : j = pos + k
      OBVIOUS
    <3>2. t[Len(t)] = <<"data", p, j>>
      BY <1>4, <1>6, <3>1
    <3>3. PICK x : x = After(<<"data", p, j>>)
      OBVIOUS
    <3>4. x = After(t[Len(t)])'
      BY <1>5, <3>2, <3>3
    <3>5. CASE j = len
      <4>1. x = <<"head", p + 1, 1>>
        BY <1>1, <1>2, <1>4, <3>3, <3>5, AfterUnit
      <4>2. writer' = "idle" /\ pos' = 0 /\ Current' = p
        BY <1>2, <1>3, <1>5, <3>1, <3>5
      <4>3. Writes(x)'
        BY <4>1, <4>2 DEF Writes
      <4> QED
        BY <3>4, <4>3
    <3>6. CASE j # len
      <4>1. j \in 1 .. len - 1
        BY <1>3, <1>4, <3>1, <3>6
      <4>2. x = <<"data", p, j + 1>>
        BY <1>1, <1>2, <1>4, <3>3, <4>1, AfterUnit
      <4>3. writer' = "data" /\ pos' = j /\ Current' = p
        BY <1>2, <1>3, <1>5, <3>1, <3>6
      <4>4. Writes(x)'
        BY <4>2, <4>3 DEF Writes
      <4> QED
        BY <3>4, <4>4
    <3> QED
      BY <3>5, <3>6
  <2>4. t \in Seq(Units')
    BY <1>5, <1>6
  <2>5. UNCHANGED <<kind, torn, reader, buffer, data_length, addr, got>>
    BY <1>3
  <2> QED
    BY <1>1, <1>3, <1>6, <2>1, <2>2, <2>3, <2>4, <2>5, Written
<1>10. DatagramsAreWhole' /\ PacketsInOrder'
  BY <1>1, <1>3, GotFrame
<1> QED
  BY <1>7, <1>8, <1>9, <1>10 DEF IInv

(* A header that fails tears the stream. *)
LEMMA HeaderFailsInv ==
  ASSUME IInv, HeaderFails
  PROVE  IInv'
<1>1. TypeOK /\ WriterInv
  BY DEF IInv
<1>2. /\ writer = "header" /\ writer' = "data" /\ pos' = 0 /\ torn' = TRUE
      /\ UNCHANGED <<kind, sent, wire, closed, net, reader, buffer, data_length, addr, got>>
  BY DEF HeaderFails, readerVars
<1>3. Current' = Current /\ Units' = Units /\ sent'[Current'] = sent[Current]
  BY <1>2 DEF Current, Units
<1>4. sent[Current].size > 0 /\ sent[Current].size \in Nat
  <2>1. Current \in Nat /\ Current > 0 /\ sent[Current].size > 0
    BY <1>1, <1>2, SentTypes DEF WriterInv
  <2>2. Current \in 1 .. Current
    BY <2>1
  <2> QED
    BY <1>1, <2>1, <2>2, SentTypes
<1>5. TypeOK'
  BY <1>1, <1>2, <1>3, <1>4 DEF TypeOK
<1>6. WriterInv'
  BY <1>1, <1>2, <1>3, <1>4 DEF WriterInv
<1> QED
  BY <1>2, <1>5, <1>6 DEF IInv, StreamInv, DatagramsAreWhole, PacketsInOrder

(* Steps of the writer and of the stream that put nothing into it.         *)
LEMMA QuietWriterInv ==
  ASSUME IInv, SendDatagram \/ SendFails \/ StreamEnds
  PROVE  IInv'
<1>1. TypeOK /\ WriterInv /\ StreamInv /\ DatagramsAreWhole /\ PacketsInOrder
  BY DEF IInv
<1>2. /\ UNCHANGED <<kind, sent, pos, torn, wire, reader, buffer, data_length, addr, got>>
      /\ closed' \in BOOLEAN
      /\ \/ kind # "trojan" /\ writer = "data" /\ net' = net \cup {Current} /\ writer' = "idle"
         \/ writer = "data" /\ writer' = "failed" /\ net' = net
         \/ writer' = writer /\ net' = net
  BY <1>1 DEF SendDatagram, SendFails, StreamEnds, writerVars, readerVars, TypeOK
<1>3. Current' = Current /\ Units' = Units /\ Header(Current)' = Header(Current) /\ Current \in Nat
  BY <1>1, <1>2, SentTypes DEF Current, Units, Header
<1>4. TypeOK'
  <2>1. net' \subseteq 1 .. Current'
    <3>1. writer = "data" => Current \in 1 .. Current
      BY <1>1, <1>3 DEF WriterInv
    <3>2. net \subseteq 1 .. Current
      BY <1>1 DEF TypeOK
    <3> QED
      BY <1>2, <1>3, <3>1, <3>2
  <2> QED
    BY <1>1, <1>2, <1>3, <2>1 DEF TypeOK
<1>5. WriterInv'
  BY <1>1, <1>2, <1>3 DEF WriterInv
<1>6. StreamInv'
  <2>1. kind = "trojan" => \A x : Writes(x) => Writes(x)'
    BY <1>2, <1>3 DEF Writes
  <2>2. Stream' = Stream
    BY <1>2 DEF Stream
  <2> QED
    BY <1>1, <1>2, <2>1, <2>2, StreamFrame
<1>7. DatagramsAreWhole' /\ PacketsInOrder'
  BY <1>1, <1>2, GotFrame
<1> QED
  BY <1>4, <1>5, <1>6, <1>7 DEF IInv

(* An empty datagram of another implementation. *)
LEMMA PeerSendsEmptyInv ==
  ASSUME IInv, NEW a \in Addrs, PeerSendsEmpty(a)
  PROVE  IInv'
<1>1. TypeOK /\ WriterInv /\ StreamInv /\ DatagramsAreWhole /\ PacketsInOrder
  BY DEF IInv
<1>2. PICK r, p, len, t :
        /\ r = [addr |-> a, size |-> 0] /\ p = Current + 1 /\ len = SerializedLen(a) + 2
        /\ t = [i \in 1 .. len |-> <<"head", p, i>>]
  OBVIOUS
<1>3. /\ kind = "trojan" /\ writer = "idle" /\ Current < MaxPackets /\ sent' = Append(sent, r)
      /\ wire' = wire \o t
      /\ UNCHANGED <<kind, writer, pos, torn, closed, net, reader, buffer, data_length, addr, got>>
  BY <1>2 DEF PeerSendsEmpty, readerVars
<1>4. r \in [addr : Addrs, size : Sizes \cup {0}] /\ r.size = 0 /\ r.addr = a
  BY <1>2
<1>5. Current \in Nat /\ Current' = p /\ sent'[p] = r /\ p \in 1 .. Current'
  <2> DEFINE Packet == [addr : Addrs, size : Sizes \cup {0}]
  <2>1. sent \in Seq(Packet)
    BY <1>1 DEF TypeOK
  <2> HIDE DEF Packet
  <2> QED
    BY <1>2, <1>3, <2>1 DEF Current
<1>6. len \in Nat /\ len >= 4 /\ Len(Header(p))' = len
  <2>1. Len(Header(p))' \in Nat /\ Len(Header(p))' >= 4
        /\ Len(Header(p))' = SerializedLen(sent'[p].addr) + 2
    BY HeaderUnitsNext
  <2> QED
    BY <1>2, <1>4, <1>5, <2>1
<1>7. /\ sent' \in Seq([addr : Addrs, size : Sizes \cup {0}])
      /\ wire \in Seq(Units') /\ buffer \in Seq(Units')
      /\ got \in Seq([addr : Addrs \cup {Dummy}, data : Seq(Units')])
  BY <1>1, <1>3, <1>4, TypeFrame
<1>8. t \in Seq(Units') /\ Len(t) = len /\ \A i \in 1 .. len : t[i] = <<"head", p, i>>
  <2>1. \A i \in Nat \ {0} : <<"head", p, i>> \in Units'
    BY <1>2, <1>5 DEF Units
  <2>2. PICK S : S = Units'
    OBVIOUS
  <2>3. \A i \in 1 .. len : t[i] = <<"head", p, i>>
    BY <1>2
  <2>4. ASSUME NEW i \in 1 .. len
        PROVE  t[i] \in S
    <3>1. i \in Nat \ {0}
      BY <1>6
    <3> QED
      BY <2>1, <2>2, <2>3, <3>1
  <2>5. t = [i \in 1 .. len |-> t[i]]
    BY <1>2
  <2>6. t \in Seq(S) /\ Len(t) = len
    BY <1>6, <2>4, <2>5, Tabulate
  <2> QED
    BY <2>2, <2>3, <2>6
<1>9. TypeOK'
  <2>1. wire' \in Seq(Units')
    <3>1. PICK S : S = Units'
      OBVIOUS
    <3>2. wire \in Seq(S) /\ t \in Seq(S)
      BY <1>7, <1>8, <3>1
    <3> QED
      BY <1>3, <3>1, <3>2, Concat
  <2>2. net \subseteq 1 .. Current'
    BY <1>1, <1>2, <1>5 DEF TypeOK
  <2> QED
    BY <1>1, <1>3, <1>7, <2>1, <2>2 DEF TypeOK
<1>10. WriterInv'
  <2>1. Current' <= MaxPackets
    BY <1>2, <1>3, <1>5, PacketsAssumption
  <2> QED
    BY <1>1, <1>3, <2>1 DEF WriterInv
<1>11. StreamInv'
  <2>1. \A x : Writes(x) => x = t[1]
    <3>1. t[1] = <<"head", p, 1>>
      BY <1>6, <1>8
    <3> QED
      BY <1>2, <1>3, <3>1 DEF Writes
  <2>2. ASSUME NEW i \in 1 .. Len(t) - 1
        PROVE  t[i + 1] = After(t[i])'
    <3>1. i \in 1 .. len /\ i + 1 \in 1 .. len /\ i < len
      BY <1>6, <1>8
    <3>2. t[i] = <<"head", p, i>> /\ t[i + 1] = <<"head", p, i + 1>>
      BY <1>8, <3>1
    <3> QED
      BY <1>6, <3>1, <3>2 DEF After
  <2>3. Writes(After(t[Len(t)]))'
    <3>1. t[Len(t)] = <<"head", p, len>>
      BY <1>6, <1>8
    <3>2. PICK x : x = <<"head", p + 1, 1>>
      OBVIOUS
    <3>3. x = After(t[Len(t)])'
      <4>1. ~(len < Len(Header(p))')
        BY <1>6
      <4>2. ~(sent'[p].size > 0)
        BY <1>4, <1>5
      <4> QED
        BY <3>1, <3>2, <4>1, <4>2 DEF After
    <3>4. Writes(x)'
      BY <1>3, <1>5, <3>2 DEF Writes
    <3> QED
      BY <3>3, <3>4
  <2>4. t # <<>>
    BY <1>6, <1>8
  <2>5. UNCHANGED <<kind, torn, reader, buffer, data_length, addr, got>>
    BY <1>3
  <2> QED
    BY <1>1, <1>3, <1>8, <2>1, <2>2, <2>3, <2>4, <2>5, Written
<1>12. DatagramsAreWhole' /\ PacketsInOrder'
  BY <1>1, <1>3, GotFrame
<1> QED
  BY <1>9, <1>10, <1>11, <1>12 DEF IInv

-----------------------------------------------------------------------------
(* The reader's side of the frame: the writer stands still.                *)
LEMMA ReaderFrame ==
  ASSUME TypeOK, WriterInv, UNCHANGED <<kind, sent, writer, pos, torn, net>>
  PROVE  /\ Current' = Current /\ Units' = Units
         /\ (reader' = "header" => data_length' > 0) => WriterInv'
         /\ (/\ wire' \in Seq(Units) /\ buffer' \in Seq(Units) /\ data_length' \in Nat
             /\ reader' \in {"open", "header", "payload", "ended", "garbled"}
             /\ addr' \in Addrs \cup {Dummy} /\ closed' \in BOOLEAN
             /\ got' \in Seq([addr : Addrs \cup {Dummy}, data : Seq(Units)])) => TypeOK'
         /\ \A p : Header(p)' = Header(p) /\ Payload(p)' = Payload(p) /\ Whole(p)' = Whole(p)
         /\ \A s, u : Linked(s, u) => Linked(s, u)'
<1>1. Current' = Current
  BY DEF Current
<1>2. Units' = Units
  BY <1>1 DEF Units
<1>3. \A p : Header(p)' = Header(p) /\ Payload(p)' = Payload(p) /\ Whole(p)' = Whole(p)
  BY DEF Header, Payload, Whole
<1>4. \A s, u : Linked(s, u) => Linked(s, u)'
  BY <1>1, <1>3, SMTT(30) DEF Linked, Writes, After
<1>5. (reader' = "header" => data_length' > 0) => WriterInv'
  BY <1>1 DEF WriterInv
<1>6. (/\ wire' \in Seq(Units) /\ buffer' \in Seq(Units) /\ data_length' \in Nat
       /\ reader' \in {"open", "header", "payload", "ended", "garbled"}
       /\ addr' \in Addrs \cup {Dummy} /\ closed' \in BOOLEAN
       /\ got' \in Seq([addr : Addrs \cup {Dummy}, data : Seq(Units)])) => TypeOK'
  <2>1. /\ kind' \in Kinds /\ sent' \in Seq([addr : Addrs, size : Sizes \cup {0}])
        /\ writer' \in {"idle", "header", "data", "ended", "failed"}
        /\ pos' \in Nat /\ (writer' = "header" => pos' < Len(Header(Current))')
        /\ (writer' = "data" => pos' <= sent'[Current'].size)
        /\ net' \subseteq 1 .. Current' /\ torn' \in BOOLEAN
    BY <1>1, <1>3 DEF TypeOK
  <2> QED
    BY <1>2, <2>1 DEF TypeOK
<1> QED
  BY <1>1, <1>2, <1>3, <1>4, <1>5, <1>6

(* poll_read of the stream below fills the buffer. *)
LEMMA FillInv ==
  ASSUME IInv, NEW k \in 1 .. Len(wire), Fill(k)
  PROVE  IInv'
<1>1. TypeOK /\ WriterInv /\ StreamInv /\ DatagramsAreWhole /\ PacketsInOrder
  BY DEF IInv
<1>2. /\ buffer' = buffer \o SubSeq(wire, 1, k) /\ wire' = SubSeq(wire, k + 1, Len(wire))
      /\ UNCHANGED <<kind, sent, writer, pos, torn, closed, net, reader, data_length, addr, got>>
  BY DEF Fill, writerVars
<1>3. buffer' \in Seq(Units) /\ wire' \in Seq(Units) /\ Stream' = Stream
  <2>1. buffer \in Seq(Units) /\ wire \in Seq(Units) /\ Len(wire) \in Nat
    BY <1>1 DEF TypeOK
  <2> HIDE DEF Units
  <2>2. k \in 0 .. Len(wire) /\ Len(wire) \in k .. Len(wire) /\ 0 \in 0 .. Len(wire) /\ 0 + 1 = 1
    BY <2>1
  <2>3. SubSeq(wire, 1, k) \in Seq(Units) /\ SubSeq(wire, k + 1, Len(wire)) \in Seq(Units)
    BY <2>1, <2>2, Part
  <2>4. buffer \o SubSeq(wire, 1, k) \in Seq(Units)
    BY <2>1, <2>3, Concat
  <2>5. (buffer \o SubSeq(wire, 1, k)) \o SubSeq(wire, k + 1, Len(wire)) = buffer \o wire
    BY <2>1, <2>2, Moved
  <2> QED
    BY <1>2, <2>3, <2>4, <2>5 DEF Stream
<1>4. TypeOK' /\ WriterInv'
  <2>1. /\ data_length' \in Nat /\ reader' \in {"open", "header", "payload", "ended", "garbled"}
        /\ addr' \in Addrs \cup {Dummy} /\ closed' \in BOOLEAN
        /\ got' \in Seq([addr : Addrs \cup {Dummy}, data : Seq(Units)])
    BY <1>1, <1>2 DEF TypeOK
  <2>2. reader' = "header" => data_length' > 0
    BY <1>1, <1>2 DEF WriterInv
  <2> QED
    BY <1>1, <1>2, <1>3, <2>1, <2>2, ReaderFrame
<1>5. StreamInv'
  <2>1. \A x : Writes(x) => Writes(x)'
    BY <1>2 DEF Writes, Current
  <2> QED
    BY <1>1, <1>2, <1>3, <2>1, StreamFrame
<1>6. DatagramsAreWhole' /\ PacketsInOrder'
  BY <1>1, <1>2, GotFrame
<1> QED
  BY <1>4, <1>5, <1>6 DEF IInv

(* A read error, or a datagram that cannot be opened, ends the read task.  *)
LEMMA ReadEndsInv ==
  ASSUME IInv, ReadErr \/ ReceiveInvalid
  PROVE  IInv'
<1>1. TypeOK /\ WriterInv /\ StreamInv /\ DatagramsAreWhole /\ PacketsInOrder
  BY DEF IInv
<1>2. /\ reader # "ended" /\ reader' = "ended" /\ closed' \in BOOLEAN
      /\ UNCHANGED <<kind, sent, writer, pos, torn, wire, net, buffer, data_length, addr, got>>
  BY <1>1 DEF ReadErr, ReceiveInvalid, Waiting, writerVars, TypeOK
<1>3. TypeOK' /\ WriterInv'
  <2>1. /\ wire' \in Seq(Units) /\ buffer' \in Seq(Units) /\ data_length' \in Nat
        /\ addr' \in Addrs \cup {Dummy}
        /\ got' \in Seq([addr : Addrs \cup {Dummy}, data : Seq(Units)])
    BY <1>1, <1>2 DEF TypeOK
  <2> QED
    BY <1>1, <1>2, <2>1, ReaderFrame
<1>4. StreamInv'
  BY <1>2 DEF StreamInv
<1>5. DatagramsAreWhole' /\ PacketsInOrder'
  BY <1>1, <1>2, GotFrame
<1> QED
  BY <1>3, <1>4, <1>5 DEF IInv

(* recv_from returns one more. *)
LEMMA Appended ==
  ASSUME TypeOK, NEW d \in [addr : Addrs \cup {Dummy}, data : Seq(Units)], got' = Append(got, d)
  PROVE  /\ Len(got) \in Nat /\ DOMAIN got = 1 .. Len(got)
         /\ Len(got') = Len(got) + 1 /\ DOMAIN got' = 1 .. Len(got) + 1
         /\ got' \in Seq([addr : Addrs \cup {Dummy}, data : Seq(Units)])
         /\ \A k \in 1 .. Len(got) : got'[k] = got[k]
         /\ got'[Len(got) + 1] = d
<1> DEFINE Datagram == [addr : Addrs \cup {Dummy}, data : Seq(Units)]
<1>1. got \in Seq(Datagram) /\ d \in Datagram
  BY DEF TypeOK
<1> HIDE DEF Datagram
<1>2. /\ Len(got) \in Nat /\ DOMAIN got = 1 .. Len(got)
      /\ Len(got') = Len(got) + 1 /\ DOMAIN got' = 1 .. Len(got) + 1
      /\ got' \in Seq(Datagram)
      /\ \A k \in 1 .. Len(got) : got'[k] = got[k]
      /\ got'[Len(got) + 1] = d
  BY <1>1, AppendProperties
<1> QED
  BY <1>2 DEF Datagram

LEMMA AllWhole ==
  ASSUME DatagramsAreWhole, ~torn, reader # "ended", NEW k \in DOMAIN got
  PROVE  \E p \in 1 .. Current : got[k] = Whole(p)
BY DEF DatagramsAreWhole

LEMMA ReadZeroInv ==
  ASSUME IInv, ReadZero
  PROVE  IInv'
<1>1. TypeOK /\ WriterInv /\ StreamInv /\ DatagramsAreWhole /\ PacketsInOrder
  BY DEF IInv
<1>2. PICK d : d = [addr |-> addr, data |-> <<>>]
  OBVIOUS
<1>3. /\ kind = "trojan" /\ reader # "ended" /\ reader # "garbled" /\ reader' = "ended"
      /\ got' = Append(got, d) /\ addr' = Dummy
      /\ UNCHANGED <<kind, sent, writer, pos, torn, wire, closed, net, buffer, data_length>>
  BY <1>2 DEF ReadZero, Waiting, writerVars
<1>4. d \in [addr : Addrs \cup {Dummy}, data : Seq(Units)] /\ d.data = <<>>
  <2>1. addr \in Addrs \cup {Dummy} /\ <<>> \in Seq(Units)
    BY <1>1 DEF TypeOK
  <2> QED
    BY <1>2, <2>1
<1>5. /\ Len(got) \in Nat /\ DOMAIN got = 1 .. Len(got)
      /\ Len(got') = Len(got) + 1 /\ DOMAIN got' = 1 .. Len(got) + 1
      /\ got' \in Seq([addr : Addrs \cup {Dummy}, data : Seq(Units)])
      /\ \A k \in 1 .. Len(got) : got'[k] = got[k]
      /\ got'[Len(got) + 1] = d
  BY <1>1, <1>3, <1>4, Appended
<1>6. TypeOK' /\ WriterInv'
  <2>1. /\ wire' \in Seq(Units) /\ buffer' \in Seq(Units) /\ data_length' \in Nat
        /\ addr' \in Addrs \cup {Dummy} /\ closed' \in BOOLEAN
    BY <1>1, <1>3 DEF TypeOK
  <2> QED
    BY <1>1, <1>3, <1>5, <2>1, ReaderFrame
<1>7. Current' = Current /\ \A p : Whole(p)' = Whole(p)
  BY <1>1, <1>3, ReaderFrame
<1>8. DatagramsAreWhole'
  <2>1. SUFFICES ASSUME ~torn, NEW k \in 1 .. Len(got) + 1
                 PROVE  \/ \E p \in 1 .. Current' : got'[k] = Whole(p)'
                        \/ k = Len(got') /\ got'[k].data = <<>>
    BY <1>3, <1>5 DEF DatagramsAreWhole
  <2>2. CASE k \in 1 .. Len(got)
    <3>1. PICK p \in 1 .. Current : got[k] = Whole(p)
      BY <1>1, <1>3, <1>5, <2>1, <2>2, AllWhole
    <3> QED
      BY <1>5, <1>7, <2>2, <3>1
  <2>3. CASE k = Len(got) + 1
    BY <1>4, <1>5, <2>3
  <2> QED
    BY <1>5, <2>2, <2>3
<1>9. PacketsInOrder'
  <2>1. Full' = Full
    BY <1>4, <1>5 DEF Full
  <2>2. \A k \in Full : k \in 1 .. Len(got) /\ got'[k] = got[k] /\ Number(k)' = Number(k)
    BY <1>5 DEF Full, Number
  <2>3. SUFFICES ASSUME kind = "trojan", ~torn, NEW k \in Full
                 PROVE  /\ Number(k)' \in 1 .. Current' /\ got'[k] = Whole(Number(k))'
                        /\ \A j \in Full' : j < k => Number(j)' < Number(k)'
                        /\ \A q \in 1 .. Number(k)' - 1 :
                             sent'[q].size > 0 => \E j \in 1 .. k - 1 : got'[j] = Whole(q)'
    BY <1>3, <2>1 DEF PacketsInOrder
  <2>4. PICK m : m = Number(k) /\ m = Number(k)'
    BY <2>2, <2>3
  <2>5. /\ m \in 1 .. Current /\ got[k] = Whole(m)
        /\ \A j \in Full : j < k => Number(j) < m
        /\ \A q \in 1 .. m - 1 : sent[q].size > 0 => \E j \in 1 .. k - 1 : got[j] = Whole(q)
    BY <1>1, <2>3, <2>4 DEF PacketsInOrder
  <2>6. m \in 1 .. Current' /\ got'[k] = Whole(m)'
    BY <1>7, <2>2, <2>3, <2>5
  <2>7. ASSUME NEW q \in 1 .. m - 1, sent'[q].size > 0
        PROVE  \E j \in 1 .. k - 1 : got'[j] = Whole(q)'
    <3>1. PICK j \in 1 .. k - 1 : got[j] = Whole(q)
      BY <1>3, <2>5, <2>7
    <3>2. j \in 1 .. Len(got)
      BY <1>5, <2>2, <2>3
    <3> QED
      BY <1>5, <1>7, <3>1, <3>2
  <2>8. \A j \in Full' : j < k => Number(j)' < m
    BY <2>1, <2>2, <2>5
  <2> QED
    BY <2>4, <2>6, <2>7, <2>8
<1> QED
  BY <1>3, <1>6, <1>8, <1>9 DEF IInv, StreamInv

(* Shadowsocks: any datagram that was sent, any number of times.           *)
LEMMA ReceiveDatagramInv ==
  ASSUME IInv, NEW p \in net, ReceiveDatagram(p)
  PROVE  IInv'
<1>1. TypeOK /\ WriterInv /\ StreamInv /\ DatagramsAreWhole /\ PacketsInOrder
  BY DEF IInv
<1>2. PICK d : d = Whole(p)
  OBVIOUS
<1>3. /\ reader = "open" /\ got' = Append(got, d) /\ kind # "trojan"
      /\ UNCHANGED <<kind, sent, writer, pos, torn, wire, closed, net, reader, buffer, data_length, addr>>
  BY <1>1, <1>2 DEF ReceiveDatagram, Whole, writerVars, WriterInv
<1>4. p \in 1 .. Current
  BY <1>1 DEF TypeOK
<1>5. d \in [addr : Addrs \cup {Dummy}, data : Seq(Units)]
  <2>1. sent[p].addr \in Addrs /\ Payload(p) \in Seq(Units)
    BY <1>1, <1>4, SentTypes, PacketUnits
  <2> QED
    BY <1>2, <2>1 DEF Whole
<1>6. /\ Len(got) \in Nat /\ DOMAIN got = 1 .. Len(got)
      /\ Len(got') = Len(got) + 1 /\ DOMAIN got' = 1 .. Len(got) + 1
      /\ got' \in Seq([addr : Addrs \cup {Dummy}, data : Seq(Units)])
      /\ \A k \in 1 .. Len(got) : got'[k] = got[k]
      /\ got'[Len(got) + 1] = d
  BY <1>1, <1>3, <1>5, Appended
<1>7. TypeOK' /\ WriterInv'
  <2>1. /\ wire' \in Seq(Units) /\ buffer' \in Seq(Units) /\ data_length' \in Nat
        /\ addr' \in Addrs \cup {Dummy} /\ closed' \in BOOLEAN
    BY <1>1, <1>3 DEF TypeOK
  <2> QED
    BY <1>1, <1>3, <1>6, <2>1, ReaderFrame
<1>8. Current' = Current /\ \A q : Whole(q)' = Whole(q)
  BY <1>1, <1>3, ReaderFrame
<1>9. DatagramsAreWhole'
  <2>1. SUFFICES ASSUME ~torn, NEW k \in 1 .. Len(got) + 1
                 PROVE  \E q \in 1 .. Current' : got'[k] = Whole(q)'
    BY <1>3, <1>6 DEF DatagramsAreWhole
  <2>2. CASE k \in 1 .. Len(got)
    <3>1. PICK q \in 1 .. Current : got[k] = Whole(q)
      BY <1>1, <1>3, <1>6, <2>1, <2>2, AllWhole
    <3> QED
      BY <1>6, <1>8, <2>2, <3>1
  <2>3. CASE k = Len(got) + 1
    BY <1>2, <1>4, <1>6, <1>8, <2>3
  <2> QED
    BY <1>6, <2>2, <2>3
<1> QED
  BY <1>3, <1>7, <1>9 DEF IInv, StreamInv, PacketsInOrder

LEMMA TornFrame ==
  ASSUME torn, torn' = torn
  PROVE  StreamInv' /\ DatagramsAreWhole' /\ PacketsInOrder'
BY DEF StreamInv, DatagramsAreWhole, PacketsInOrder

(* The type and one more byte. *)
LEMMA ReadTypeInv ==
  ASSUME IInv, ReadType
  PROVE  IInv'
<1>1. TypeOK /\ WriterInv /\ StreamInv /\ DatagramsAreWhole /\ PacketsInOrder
  BY DEF IInv
<1>2. PICK p : p = ReadFromCursor(2)
  OBVIOUS
<1>3. /\ kind = "trojan" /\ reader = "open" /\ Len(buffer) >= 2
      /\ \/ p # 0 /\ reader' = "header" /\ data_length' = Len(Header(p))
         \/ p = 0 /\ reader' \in {"garbled", "ended"} /\ data_length' = 0
      /\ UNCHANGED <<kind, sent, writer, pos, torn, wire, closed, net, buffer, addr, got>>
  BY <1>2 DEF ReadType, Enough, Needed, writerVars
<1>4. Len(Header(p)) \in Nat /\ Len(Header(p)) >= 4
  BY HeaderUnits
<1>5. TypeOK' /\ WriterInv'
  <2>1. /\ wire' \in Seq(Units) /\ buffer' \in Seq(Units)
        /\ addr' \in Addrs \cup {Dummy} /\ closed' \in BOOLEAN
        /\ got' \in Seq([addr : Addrs \cup {Dummy}, data : Seq(Units)])
    BY <1>1, <1>3 DEF TypeOK
  <2>2. /\ data_length' \in Nat /\ (reader' = "header" => data_length' > 0)
        /\ reader' \in {"open", "header", "payload", "ended", "garbled"}
    BY <1>3, <1>4
  <2> QED
    BY <1>1, <1>3, <2>1, <2>2, ReaderFrame
<1>6. CASE torn
  BY <1>3, <1>5, <1>6, TornFrame DEF IInv
<1>7. CASE ~torn
  <2>1. PICK n \in 0 .. Current : At(n)
    BY <1>1, <1>3, <1>7 DEF StreamInv
  <2>2. Linked(Stream, <<"head", n + 1, 1>>)
    BY <1>3, <2>1 DEF At, Expected
  <2>3. n + 1 \in 1 .. Current /\ p = n + 1 /\ n \in Nat /\ Current \in Nat
    <3>1. 2 \in 1 .. Len(Header(n + 1))
      <4>1. PICK q : q = n + 1
        OBVIOUS
      <4>2. Len(Header(q)) \in Nat /\ Len(Header(q)) >= 4
        BY HeaderUnits
      <4> QED
        BY <4>1, <4>2
    <3>2. PICK q : q = n + 1
      OBVIOUS
    <3>3. Linked(Stream, <<"head", q, 1>>) /\ 2 \in 1 .. Len(Header(q)) /\ 2 <= Len(buffer)
      BY <1>1, <1>3, <2>2, <3>1, <3>2, StreamUnits
    <3>4. q \in 1 .. Current /\ ReadFromCursor(2) = q
      BY <1>1, <3>3, Parsed
    <3> QED
      BY <1>1, <1>2, <3>2, <3>4, SentTypes
  <2>4. reader' = "header" /\ data_length' = Len(Header(n + 1)) /\ n < Current
    BY <1>3, <2>3
  <2>5. Linked(Stream, Expected(n))'
    <3>1. PICK c, u : c = Stream /\ u = <<"head", n + 1, 1>>
      OBVIOUS
    <3>2. c = Stream' /\ u = Expected(n)' /\ Linked(c, u)
      BY <1>3, <2>2, <2>4, <3>1 DEF Stream, Expected
    <3>3. Linked(c, u)'
      BY <1>1, <1>3, <3>2, ReaderFrame
    <3> QED
      BY <3>2, <3>3
  <2>6. ReturnedTo(n)'
    BY <1>1, <1>3, <2>1, ReturnedFrame DEF At
  <2>7. Current' = Current /\ Header(n + 1)' = Header(n + 1)
    BY <1>1, <1>3, ReaderFrame
  <2>8. StreamInv'
    <3>1. At(n)'
      BY <2>4, <2>5, <2>6, <2>7 DEF At
    <3> QED
      BY <2>7, <3>1 DEF StreamInv
  <2>9. DatagramsAreWhole' /\ PacketsInOrder'
    BY <1>1, <1>3, <2>4, GotFrame
  <2> QED
    BY <1>5, <2>8, <2>9 DEF IInv
<1> QED
  BY <1>6, <1>7

(* What is left of the buffer after the first k units of it.               *)
LEMMA Used ==
  ASSUME TypeOK, NEW k \in 1 .. Len(buffer), NEW u, Linked(Stream, u),
         UNCHANGED <<kind, sent, writer, pos, torn, net, wire>>, WriterInv,
         buffer' = SubSeq(buffer, k + 1, Len(buffer))
  PROVE  /\ buffer' \in Seq(Units)
         /\ \A x : x = After(Stream[k]) => \A r : r = Stream' => Linked(r, x)'
<1>1. buffer \in Seq(Units) /\ wire \in Seq(Units) /\ Len(buffer) \in Nat /\ Len(wire) \in Nat
  BY StreamUnits DEF TypeOK
<1>2. buffer' \in Seq(Units)
  <2> HIDE DEF Units
  <2>1. k \in 0 .. Len(buffer) /\ Len(buffer) \in k .. Len(buffer)
    BY <1>1
  <2> QED
    BY <1>1, <2>1, Part
<1>3. PICK s, r : s = Stream /\ r = Stream'
  OBVIOUS
<1>4. s \in Seq(Units) /\ Len(s) = Len(buffer) + Len(wire) /\ Linked(s, u) /\ k \in 1 .. Len(s)
  <2>1. s \in Seq(Units) /\ Len(s) = Len(buffer) + Len(wire) /\ Linked(s, u)
    BY <1>3, StreamUnits
  <2> QED
    BY <1>1, <2>1
<1>5. r \in Seq(Units) /\ Len(r) = Len(s) - k /\ \A i \in 1 .. Len(s) - k : r[i] = s[k + i]
  <2> HIDE DEF Units
  <2>1. r = buffer' \o wire /\ s = buffer \o wire
    BY <1>3 DEF Stream
  <2>2. r \in Seq(Units)
    BY <1>1, <1>2, <2>1, Concat
  <2>3. k \in 0 .. Len(buffer)
    BY <1>1
  <2>4. PICK b, w, S : b = buffer /\ w = wire /\ S = Units
    OBVIOUS
  <2>5. b \in Seq(S) /\ w \in Seq(S) /\ k \in 0 .. Len(b)
    BY <1>1, <2>3, <2>4
  <2>6. /\ Len(SubSeq(b, k + 1, Len(b)) \o w) = Len(b \o w) - k
        /\ \A i \in 1 .. Len(b \o w) - k : (SubSeq(b, k + 1, Len(b)) \o w)[i] = (b \o w)[k + i]
    BY <2>5, Taken
  <2>7. r = SubSeq(b, k + 1, Len(b)) \o w /\ s = b \o w
    BY <2>1, <2>4
  <2> QED
    BY <2>2, <2>6, <2>7
<1>6. PICK x : x = After(s[k]) /\ x = After(s[k])'
  BY DEF After, Header
<1>7. Linked(r, x)
  BY <1>4, <1>5, <1>6, Drop
<1>8. Linked(r, x)'
  BY <1>7, ReaderFrame
<1> QED
  BY <1>2, <1>3, <1>6, <1>8

(* The rest of the header. *)
LEMMA ReadHeaderInv ==
  ASSUME IInv, ReadHeader
  PROVE  IInv'
<1>1. TypeOK /\ WriterInv /\ StreamInv /\ DatagramsAreWhole /\ PacketsInOrder
  BY DEF IInv
<1>2. PICK p : p = ReadFromCursor(data_length)
  OBVIOUS
<1>3. /\ kind = "trojan" /\ reader = "header" /\ Len(buffer) >= data_length
      /\ \/ /\ p # 0 /\ reader' = "payload" /\ data_length' = sent[p].size /\ addr' = sent[p].addr
            /\ buffer' = SubSeq(buffer, data_length + 1, Len(buffer))
         \/ p = 0 /\ reader' = "garbled" /\ UNCHANGED <<buffer, data_length, addr>>
      /\ UNCHANGED <<kind, sent, writer, pos, torn, wire, closed, net, got>>
  BY <1>2 DEF ReadHeader, Enough, Needed, writerVars
<1>4. data_length \in Nat /\ data_length > 0 /\ data_length \in 1 .. Len(buffer)
      /\ buffer # <<>> /\ buffer \in Seq(Units)
  <2>1. data_length \in Nat /\ data_length > 0 /\ Len(buffer) \in Nat /\ buffer \in Seq(Units)
    BY <1>1, <1>3, StreamUnits DEF TypeOK, WriterInv
  <2> QED
    BY <1>3, <2>1
<1>5. TypeOK' /\ WriterInv'
  <2>1. wire' \in Seq(Units) /\ closed' \in BOOLEAN
        /\ got' \in Seq([addr : Addrs \cup {Dummy}, data : Seq(Units)])
    BY <1>1, <1>3 DEF TypeOK
  <2>2. buffer' \in Seq(Units) /\ data_length' \in Nat /\ addr' \in Addrs \cup {Dummy}
    <3>1. CASE p # 0
      <4>1. buffer[1] \in Units
        BY <1>1, <1>4, StreamUnits
      <4>2. p \in 1 .. Current
        BY <1>1, <1>2, <3>1, <4>1, InPacket DEF ReadFromCursor
      <4>3. sent[p].size \in Nat /\ sent[p].addr \in Addrs
        BY <1>1, <4>2, SentTypes
      <4>4. SubSeq(buffer, data_length + 1, Len(buffer)) \in Seq(Units)
        <5> HIDE DEF Units
        <5>1. data_length \in 0 .. Len(buffer) /\ Len(buffer) \in data_length .. Len(buffer)
          BY <1>4
        <5> QED
          BY <1>4, <5>1, Part
      <4> QED
        BY <1>3, <3>1, <4>3, <4>4
    <3>2. CASE p = 0
      BY <1>1, <1>3, <1>4, <3>2 DEF TypeOK
    <3> QED
      BY <3>1, <3>2
  <2> QED
    BY <1>1, <1>3, <2>1, <2>2, ReaderFrame
<1>6. CASE torn
  BY <1>3, <1>5, <1>6, TornFrame DEF IInv
<1>7. CASE ~torn
  <2>1. PICK n \in 0 .. Current : At(n)
    BY <1>1, <1>3, <1>7 DEF StreamInv
  <2>2. PICK q, k : q = n + 1 /\ k = data_length
    OBVIOUS
  <2>3. Linked(Stream, <<"head", q, 1>>) /\ k = Len(Header(q)) /\ k \in 1 .. Len(buffer)
    BY <1>3, <1>4, <2>1, <2>2 DEF At, Expected
  <2>4. q \in 1 .. Current /\ p = q /\ Stream[k] = <<"head", q, k>>
    <3>1. k \in 1 .. Len(Header(q)) /\ k <= Len(buffer) /\ k <= Len(Stream)
      BY <1>1, <1>4, <2>2, <2>3, StreamUnits
    <3> QED
      BY <1>1, <1>2, <1>4, <2>2, <2>3, <3>1, Parsed, HeaderFront
  <2>5. /\ p # 0 /\ reader' = "payload" /\ data_length' = sent[q].size /\ addr' = sent[q].addr
        /\ buffer' = SubSeq(buffer, k + 1, Len(buffer))
    BY <1>1, <1>3, <2>2, <2>4, SentTypes
  <2>6. PICK r, x : r = Stream' /\ x = After(Stream[k])
    OBVIOUS
  <2>7. Linked(r, x)'
    BY <1>1, <1>3, <2>3, <2>5, <2>6, Used
  <2>8. /\ Current' = Current /\ Current \in Nat /\ n \in Nat /\ n < Current
        /\ sent[q].size \in Nat /\ sent' = sent
    BY <1>1, <1>3, <2>2, <2>4, ReaderFrame, SentTypes
  <2>9. ReturnedTo(n)'
    BY <1>1, <1>3, <2>1, ReturnedFrame DEF At
  <2>10. ASSUME sent[q].size > 0
         PROVE  StreamInv'
    <3>1. x = <<"data", q, 1>> /\ x = Expected(n)'
      BY <1>1, <2>2, <2>3, <2>4, <2>5, <2>6, <2>10, AfterUnit DEF Expected
    <3>2. At(n)'
      BY <2>2, <2>5, <2>6, <2>7, <2>8, <2>9, <3>1 DEF At
    <3> QED
      BY <2>8, <3>2 DEF StreamInv
  <2>11. ASSUME sent[q].size = 0
         PROVE  StreamInv'
    <3>1. x = <<"head", q + 1, 1>> /\ x = Expected(q)'
      <4>1. After(<<"head", q, Len(Header(q))>>) = <<"head", q + 1, 1>>
        BY <1>1, <2>4, <2>11, AfterUnit
      <4>2. ~(data_length' > 0)
        BY <2>5, <2>11
      <4> QED
        BY <2>3, <2>4, <2>6, <4>1, <4>2 DEF Expected
    <3>2. ReturnedTo(q)'
      <4>1. \A i \in 1 .. q : i \in 1 .. n \/ i = q
        BY <2>2, <2>8
      <4>2. \A k1 \in Full' : Number(k1)' <= q
        <5>1. ASSUME NEW j \in Full' PROVE Number(j)' <= q
          <6>1. j \in Full /\ Number(j)' = Number(j) /\ Number(j) <= n
            BY <1>3, <2>1 DEF Full, Number, At, ReturnedTo
          <6>2. Number(j) \in Nat
            BY <1>1, <1>3, <1>7, <2>8, <6>1 DEF PacketsInOrder
          <6> QED
            BY <2>2, <2>8, <6>1, <6>2
        <5> QED
          BY <5>1
      <4> QED
        BY <2>8, <2>9, <2>11, <4>1, <4>2 DEF ReturnedTo
    <3>3. At(q)'
      BY <2>5, <2>6, <2>7, <2>8, <2>11, <3>1, <3>2 DEF At
    <3> QED
      BY <2>4, <2>8, <3>3 DEF StreamInv
  <2>12. StreamInv'
    BY <2>8, <2>10, <2>11
  <2>13. DatagramsAreWhole' /\ PacketsInOrder'
    BY <1>1, <1>3, <2>5, GotFrame
  <2> QED
    BY <1>5, <2>12, <2>13 DEF IInv
<1> QED
  BY <1>6, <1>7

(* On to the next packet. *)
LEMMA NextPacketInv ==
  ASSUME IInv, NextPacket
  PROVE  IInv'
<1>1. TypeOK /\ WriterInv /\ StreamInv /\ DatagramsAreWhole /\ PacketsInOrder
  BY DEF IInv
<1>2. /\ kind = "trojan" /\ reader = "payload" /\ data_length = 0 /\ reader' = "open"
      /\ UNCHANGED <<kind, sent, writer, pos, torn, wire, closed, net, buffer, data_length, addr, got>>
  BY DEF NextPacket, Enough, writerVars
<1>3. TypeOK' /\ WriterInv'
  <2>1. /\ wire' \in Seq(Units) /\ buffer' \in Seq(Units) /\ data_length' \in Nat
        /\ addr' \in Addrs \cup {Dummy} /\ closed' \in BOOLEAN
        /\ got' \in Seq([addr : Addrs \cup {Dummy}, data : Seq(Units)])
    BY <1>1, <1>2 DEF TypeOK
  <2> QED
    BY <1>1, <1>2, <2>1, ReaderFrame
<1>4. CASE torn
  BY <1>2, <1>3, <1>4, TornFrame DEF IInv
<1>5. CASE ~torn
  <2>1. PICK n \in 0 .. Current : At(n)
    BY <1>1, <1>2, <1>5 DEF StreamInv
  <2>2. PICK c, u : c = Stream /\ u = Expected(n)
    OBVIOUS
  <2>3. c = Stream' /\ u = Expected(n)' /\ Linked(c, u)
    BY <1>2, <2>1, <2>2 DEF Stream, Expected, At
  <2>4. Linked(c, u)'
    BY <1>1, <1>2, <2>3, ReaderFrame
  <2>5. ReturnedTo(n)'
    BY <1>1, <1>2, <2>1, ReturnedFrame DEF At
  <2>6. Current' = Current
    BY <1>1, <1>2, ReaderFrame
  <2>7. At(n)'
    BY <1>2, <2>3, <2>4, <2>5 DEF At
  <2>8. StreamInv'
    BY <2>6, <2>7 DEF StreamInv
  <2>9. DatagramsAreWhole' /\ PacketsInOrder'
    BY <1>1, <1>2, GotFrame
  <2> QED
    BY <1>3, <2>8, <2>9 DEF IInv
<1> QED
  BY <1>4, <1>5

(* The data of a packet is returned: all of it, for recv_from has room for *)
(* every datagram.                                                         *)
LEMMA PutInv ==
  ASSUME IInv, Put
  PROVE  IInv'
<1>1. TypeOK /\ WriterInv /\ StreamInv /\ DatagramsAreWhole /\ PacketsInOrder
  BY DEF IInv
<1>2. PICK m, d : /\ m = (IF data_length <= Room THEN data_length ELSE Room)
                  /\ d = [addr |-> addr, data |-> SubSeq(buffer, 1, m)]
  OBVIOUS
<1>3. /\ kind = "trojan" /\ reader = "payload" /\ Len(buffer) >= data_length /\ data_length > 0
      /\ got' = Append(got, d) /\ buffer' = SubSeq(buffer, m + 1, Len(buffer))
      /\ data_length' = data_length - m /\ addr' = Dummy
      /\ UNCHANGED <<kind, sent, writer, pos, torn, wire, closed, net, reader>>
  BY <1>2 DEF Put, Enough, Needed, writerVars
<1>4. /\ data_length \in Nat /\ Len(buffer) \in Nat /\ buffer \in Seq(Units) /\ m \in Nat
      /\ m <= data_length /\ m \in 0 .. Len(buffer) /\ addr \in Addrs \cup {Dummy}
  <2>1. /\ data_length \in Nat /\ Len(buffer) \in Nat /\ buffer \in Seq(Units)
        /\ addr \in Addrs \cup {Dummy} /\ Room \in Nat
    BY <1>1, StreamUnits, PacketsAssumption DEF TypeOK
  <2> QED
    BY <1>2, <1>3, <2>1
<1>5. /\ SubSeq(buffer, 1, m) \in Seq(Units) /\ Len(SubSeq(buffer, 1, m)) = m
      /\ \A i \in 1 .. m : SubSeq(buffer, 1, m)[i] = buffer[i]
      /\ SubSeq(buffer, m + 1, Len(buffer)) \in Seq(Units)
  <2> HIDE DEF Units
  <2>1. 0 \in 0 .. Len(buffer) /\ Len(buffer) \in m .. Len(buffer) /\ 0 + 1 = 1 /\ m - 0 = m
        /\ \A i \in 1 .. m : 0 + i = i
    BY <1>4
  <2> QED
    BY <1>4, <2>1, Part
<1>6. d \in [addr : Addrs \cup {Dummy}, data : Seq(Units)] /\ d.addr = addr
      /\ d.data = SubSeq(buffer, 1, m)
  BY <1>2, <1>4, <1>5
<1>7. /\ Len(got) \in Nat /\ DOMAIN got = 1 .. Len(got)
      /\ Len(got') = Len(got) + 1 /\ DOMAIN got' = 1 .. Len(got) + 1
      /\ got' \in Seq([addr : Addrs \cup {Dummy}, data : Seq(Units)])
      /\ \A k \in 1 .. Len(got) : got'[k] = got[k]
      /\ got'[Len(got) + 1] = d
  BY <1>1, <1>3, <1>6, Appended
<1>8. TypeOK' /\ WriterInv'
  <2>1. wire' \in Seq(Units) /\ closed' \in BOOLEAN
    BY <1>1, <1>3 DEF TypeOK
  <2>2. buffer' \in Seq(Units) /\ data_length' \in Nat /\ addr' \in Addrs \cup {Dummy}
    BY <1>3, <1>4, <1>5
  <2> QED
    BY <1>1, <1>3, <1>7, <2>1, <2>2, ReaderFrame
<1>9. CASE torn
  BY <1>3, <1>8, <1>9, TornFrame DEF IInv
<1>10. CASE ~torn
  <2>1. PICK n \in 0 .. Current : At(n)
    BY <1>1, <1>3, <1>10 DEF StreamInv
  <2>2. PICK q : q = n + 1
    OBVIOUS
  <2>3. /\ Linked(Stream, <<"data", q, 1>>) /\ ReturnedTo(n)
        /\ data_length = sent[q].size /\ addr = sent[q].addr
    BY <1>3, <2>1, <2>2 DEF At, Expected
  <2>4. /\ q \in 1 .. Current /\ buffer # <<>>
        /\ \A i \in 1 .. sent[q].size : i <= Len(Stream) => Stream[i] = <<"data", q, i>>
    <3>1. buffer # <<>>
      BY <1>3, <1>4
    <3> QED
      BY <1>1, <2>3, <3>1, DataFront
  <2>5. /\ Current \in Nat /\ n \in Nat /\ n < Current /\ sent[q].size \in Nat
        /\ m = sent[q].size /\ m > 0 /\ m \in 1 .. Len(buffer)
    <3>1. Current \in Nat /\ sent[q].size \in Nat /\ sent[q].size <= Room
      BY <1>1, <2>4, SentTypes
    <3> QED
      BY <1>2, <1>3, <1>4, <2>2, <2>3, <2>4, <3>1
  <2>6. \A i \in 1 .. m : buffer[i] = <<"data", q, i>> /\ Stream[i] = <<"data", q, i>>
    <3> TAKE i \in 1 .. m
    <3>1. i \in 1 .. sent[q].size /\ i \in 1 .. Len(buffer) /\ i <= Len(Stream)
      BY <1>1, <1>4, <2>5, StreamUnits
    <3> QED
      BY <1>1, <2>4, <3>1, StreamUnits
  <2>7. d = Whole(q)
    <3>1. Payload(q) \in Seq(Units) /\ Len(Payload(q)) = m
          /\ \A i \in 1 .. m : Payload(q)[i] = <<"data", q, i>>
      BY <1>1, <2>4, <2>5, PacketUnits, PayloadUnits
    <3>2. PICK a, b, S : a = Payload(q) /\ b = SubSeq(buffer, 1, m) /\ S = Units
      OBVIOUS
    <3>3. a \in Seq(S) /\ b \in Seq(S) /\ Len(a) = m /\ Len(b) = m /\ \A i \in 1 .. m : a[i] = b[i]
      BY <1>5, <2>6, <3>1, <3>2
    <3>4. a = b
      BY <3>3, SeqEqual
    <3> QED
      BY <1>2, <2>3, <3>2, <3>4 DEF Whole
  <2>8. PICK r, x : r = Stream' /\ x = After(Stream[m])
    OBVIOUS
  <2>9. Linked(r, x)'
    BY <1>1, <1>3, <2>3, <2>5, <2>8, Used
  <2>10. data_length' = 0 /\ x = <<"head", q + 1, 1>> /\ x = Expected(q)'
    <3>1. data_length' = 0
      BY <1>3, <1>4, <2>3, <2>5
    <3>2. Stream[m] = <<"data", q, sent[q].size>>
      BY <2>5, <2>6
    <3>3. After(<<"data", q, sent[q].size>>) = <<"head", q + 1, 1>>
      BY <1>1, <2>4, <2>5, AfterUnit
    <3> QED
      BY <2>8, <3>1, <3>2, <3>3 DEF Expected
  <2>11. Current' = Current /\ sent' = sent /\ \A p : Whole(p)' = Whole(p)
    BY <1>1, <1>3, ReaderFrame
  <2>12. /\ Full' = Full \cup {Len(got) + 1}
         /\ \A k \in Full : k \in 1 .. Len(got) /\ Number(k)' = Number(k) /\ Number(k) <= n
         /\ \A k \in Full : Number(k) \in 1 .. Current
         /\ \A k : k = Len(got) + 1 => Number(k)' = q
    <3>1. d.data # <<>> /\ d.data[1] = <<"data", q, 1>>
      <4>1. 1 \in 1 .. m
        BY <2>5
      <4>2. SubSeq(buffer, 1, m)[1] = <<"data", q, 1>>
        BY <1>5, <2>6, <4>1
      <4>3. PICK b : b = SubSeq(buffer, 1, m)
        OBVIOUS
      <4>4. Len(b) = m /\ b # <<>> /\ b[1] = <<"data", q, 1>> /\ d.data = b
        <5>1. Len(b) = m /\ b[1] = <<"data", q, 1>> /\ d.data = b
          BY <1>5, <1>6, <4>2, <4>3
        <5>2. Len(b) # 0
          BY <2>5, <5>1
        <5> QED
          BY <5>1, <5>2
      <4> QED
        BY <4>4
    <3>2. Full' = Full \cup {Len(got) + 1}
      BY <1>7, <3>1 DEF Full
    <3>3. \A k \in Full : k \in 1 .. Len(got) /\ Number(k)' = Number(k) /\ Number(k) <= n
      BY <1>7, <2>3 DEF Full, Number, ReturnedTo
    <3>4. \A k \in Full : Number(k) \in 1 .. Current
      BY <1>1, <1>3, <1>10 DEF PacketsInOrder
    <3>5. \A k : k = Len(got) + 1 => Number(k)' = q
      BY <1>7, <3>1 DEF Number
    <3> QED
      BY <3>2, <3>3, <3>4, <3>5
  <2>13. StreamInv'
    <3>1. ASSUME NEW i \in 1 .. q, sent'[i].size > 0
          PROVE  \E k \in DOMAIN got' : got'[k] = Whole(i)'
      <4>1. CASE i = q
        BY <1>7, <2>7, <2>11, <4>1
      <4>2. CASE i \in 1 .. n
        <5>1. PICK k \in DOMAIN got : got[k] = Whole(i)
          BY <2>3, <2>11, <3>1, <4>2 DEF ReturnedTo
        <5> QED
          BY <1>7, <2>11, <5>1
      <4> QED
        BY <2>2, <2>5, <4>1, <4>2
    <3>2. ASSUME NEW k \in Full'
          PROVE  Number(k)' <= q
      <4>1. CASE k \in Full
        BY <2>2, <2>5, <2>12, <4>1
      <4>2. CASE k = Len(got) + 1
        <5>1. Number(k)' = q
          BY <2>12, <4>2
        <5> QED
          BY <2>2, <2>5, <5>1
      <4> QED
        BY <2>12, <4>1, <4>2
    <3>3. ReturnedTo(q)'
      BY <3>1, <3>2 DEF ReturnedTo
    <3>4. At(q)'
      BY <1>3, <2>8, <2>9, <2>10, <3>3 DEF At
    <3> QED
      BY <2>4, <2>11, <3>4 DEF StreamInv
  <2>14. DatagramsAreWhole'
    <3>1. SUFFICES ASSUME NEW k \in 1 .. Len(got) + 1
                   PROVE  \E p \in 1 .. Current' : got'[k] = Whole(p)'
      BY <1>3, <1>7 DEF DatagramsAreWhole
    <3>2. CASE k \in 1 .. Len(got)
      <4>1. PICK p \in 1 .. Current : got[k] = Whole(p)
        BY <1>1, <1>3, <1>7, <1>10, <3>2, AllWhole
      <4> QED
        BY <1>7, <2>11, <3>2, <4>1
    <3>3. CASE k = Len(got) + 1
      BY <1>7, <2>4, <2>7, <2>11, <3>3
    <3> QED
      BY <1>7, <3>2, <3>3
  <2>15. PacketsInOrder'
    <3>1. SUFFICES ASSUME NEW k \in Full'
                   PROVE  /\ Number(k)' \in 1 .. Current' /\ got'[k] = Whole(Number(k))'
                          /\ \A j \in Full' : j < k => Number(j)' < Number(k)'
                          /\ \A i \in 1 .. Number(k)' - 1 :
                               sent'[i].size > 0 => \E j \in 1 .. k - 1 : got'[j] = Whole(i)'
      BY DEF PacketsInOrder
    <3>2. CASE k = Len(got) + 1
      <4>1. Number(k)' = q
        BY <2>12, <3>2
      <4>2. q \in 1 .. Current' /\ got'[k] = Whole(q)'
        BY <1>7, <2>4, <2>7, <2>11, <3>2
      <4>3. ASSUME NEW j \in Full', j < k PROVE Number(j)' < q
        <5>1. j \in Full
          BY <2>12, <3>2, <4>3, <1>7
        <5> QED
          BY <2>2, <2>5, <2>12, <5>1
      <4>4. ASSUME NEW i \in 1 .. q - 1, sent'[i].size > 0
            PROVE  \E j \in 1 .. k - 1 : got'[j] = Whole(i)'
        <5>1. i \in 1 .. n
          BY <2>2, <2>5
        <5>2. PICK j \in DOMAIN got : got[j] = Whole(i)
          BY <2>3, <2>11, <4>4, <5>1 DEF ReturnedTo
        <5>3. j \in 1 .. k - 1 /\ got'[j] = Whole(i)'
          BY <1>7, <2>11, <3>2, <5>2
        <5> QED
          BY <5>3
      <4> QED
        BY <4>1, <4>2, <4>3, <4>4
    <3>3. CASE k \in Full
      <4>1. PICK p : p = Number(k) /\ p = Number(k)'
        BY <2>12, <3>3
      <4>2. /\ p \in 1 .. Current /\ got[k] = Whole(p) /\ k \in 1 .. Len(got)
            /\ \A j \in Full : j < k => Number(j) < p
            /\ \A i \in 1 .. p - 1 : sent[i].size > 0 => \E j \in 1 .. k - 1 : got[j] = Whole(i)
        BY <1>1, <1>3, <1>10, <2>12, <3>3, <4>1 DEF PacketsInOrder
      <4>3. p \in 1 .. Current' /\ got'[k] = Whole(p)'
        BY <1>7, <2>11, <4>2
      <4>4. ASSUME NEW j \in Full', j < k PROVE Number(j)' < p
        <5>1. j \in Full
          BY <1>7, <2>12, <4>2, <4>4
        <5> QED
          BY <2>12, <4>2, <4>4, <5>1
      <4>5. ASSUME NEW i \in 1 .. p - 1, sent'[i].size > 0
            PROVE  \E j \in 1 .. k - 1 : got'[j] = Whole(i)'
        <5>1. PICK j \in 1 .. k - 1 : got[j] = Whole(i)
          BY <2>11, <4>2, <4>5
        <5>2. j \in 1 .. Len(got)
          BY <1>7, <4>2
        <5> QED
          BY <1>7, <2>11, <5>1, <5>2
      <4> QED
        BY <4>1, <4>3, <4>4, <4>5
    <3> QED
      BY <2>12, <3>2, <3>3
  <2> QED
    BY <1>8, <2>13, <2>14, <2>15 DEF IInv
<1> QED
  BY <1>9, <1>10

-----------------------------------------------------------------------------
LEMMA InitIInv == Init => IInv
<1> SUFFICES ASSUME Init PROVE IInv
  OBVIOUS
<1>1. /\ kind \in Kinds /\ sent = <<>> /\ writer = "idle" /\ pos = 0 /\ torn = FALSE
      /\ wire = <<>> /\ closed = FALSE /\ net = {}
      /\ reader = "open" /\ buffer = <<>> /\ data_length = 0 /\ addr = Dummy /\ got = <<>>
  BY DEF Init
<1>2. Current = 0 /\ Full = {} /\ Stream = <<>>
  BY <1>1 DEF Current, Full, Stream
<1>3. TypeOK
  <2>1. wire \in Seq(Units) /\ buffer \in Seq(Units)
        /\ got \in Seq([addr : Addrs \cup {Dummy}, data : Seq(Units)])
        /\ sent \in Seq([addr : Addrs, size : Sizes \cup {0}])
    BY <1>1
  <2> QED
    BY <1>1, <2>1 DEF TypeOK
<1>4. WriterInv
  BY <1>1, <1>2, PacketsAssumption DEF WriterInv
<1>5. StreamInv
  <2>1. ReturnedTo(0)
    BY <1>2 DEF ReturnedTo
  <2>2. Expected(0) = <<"head", 1, 1>>
    BY <1>1 DEF Expected
  <2>3. Linked(Stream, Expected(0))
    BY <1>1, <1>2, <2>2 DEF Linked, Writes
  <2>4. At(0)
    BY <1>1, <2>1, <2>3 DEF At
  <2> QED
    BY <1>2, <2>4 DEF StreamInv
<1>6. DatagramsAreWhole /\ PacketsInOrder
  BY <1>1, <1>2 DEF DatagramsAreWhole, PacketsInOrder
<1> QED
  BY <1>3, <1>4, <1>5, <1>6 DEF IInv

LEMMA NextIInv == IInv /\ [Next]_vars => IInv'
<1> SUFFICES ASSUME IInv, [Next]_vars PROVE IInv'
  OBVIOUS
<1>1. ASSUME NEW a \in Addrs, NEW n \in Sizes, SendTo(a, n) PROVE IInv'
  BY <1>1, SendToInv
<1>2. CASE Write
  BY <1>2, WriteHeaderInv, WriteDataInv DEF Write
<1>3. CASE HeaderFails
  BY <1>3, HeaderFailsInv
<1>4. CASE SendDatagram \/ SendFails \/ StreamEnds
  BY <1>4, QuietWriterInv
<1>5. ASSUME NEW a \in Addrs, PeerSendsEmpty(a) PROVE IInv'
  BY <1>5, PeerSendsEmptyInv
<1>6. CASE Read
  BY <1>6, FillInv, ReadZeroInv, ReadTypeInv, ReadHeaderInv, PutInv, NextPacketInv DEF Read
<1>7. CASE ReadErr \/ ReceiveInvalid
  BY <1>7, ReadEndsInv
<1>8. ASSUME NEW p \in net, ReceiveDatagram(p) PROVE IInv'
  BY <1>8, ReceiveDatagramInv
<1>9. CASE UNCHANGED vars
  <2>1. UNCHANGED <<kind, sent, writer, pos, torn, wire, closed, net,
                    reader, buffer, data_length, addr, got>>
    BY <1>9 DEF vars, writerVars, readerVars
  <2>2. TypeOK' /\ WriterInv'
    BY <2>1, ReaderFrame DEF IInv, TypeOK, WriterInv
  <2>3. StreamInv' /\ DatagramsAreWhole' /\ PacketsInOrder'
    <3>1. \A x : Writes(x) => Writes(x)'
      BY <2>1 DEF Writes, Current
    <3>2. Stream' = Stream
      BY <2>1 DEF Stream
    <3> QED
      BY <2>1, <3>1, <3>2, StreamFrame, GotFrame DEF IInv
  <2> QED
    BY <2>2, <2>3 DEF IInv
<1> QED
  BY <1>1, <1>2, <1>3, <1>4, <1>5, <1>6, <1>7, <1>8, <1>9 DEF Next

(* The state of both ends of a UDP session's stream fits together always.  *)
THEOREM PacketInvariant == Spec => []IInv
BY InitIInv, NextIInv, PTL DEF Spec

(* What recv_from of Trojan or Shadowsocks returns is a datagram as it was *)
(* given to send_to, however the stream is cut, ends or fails and whatever *)
(* the network does; but for the end of a stream and what follows a torn   *)
(* header.                                                                 *)
THEOREM PacketsWhole == Spec => []DatagramsAreWhole
<1>1. IInv => DatagramsAreWhole
  BY DEF IInv
<1> QED
  BY <1>1, PacketInvariant, PTL

(* Over a Trojan stream datagrams come in the order of send_to, none twice *)
(* and none left out but empty ones, however many they are.                *)
THEOREM PacketsOrdered == Spec => []PacketsInOrder
<1>1. IInv => PacketsInOrder
  BY DEF IInv
<1> QED
  BY <1>1, PacketInvariant, PTL

=============================================================================
