--------------------------- MODULE InboundProofs ---------------------------
(***************************************************************************)
(* Proofs about a connection from its first byte to its relay: that all of *)
(* the client's data is relayed and nothing else, that the method answered *)
(* is one that it offered, and that the outbound is one that the rules     *)
(* allow; for every client and configuration.                              *)
(***************************************************************************)
EXTENDS Inbound, SequenceTheorems, WellFoundedInduction, TLAPS

-----------------------------------------------------------------------------
(* Sequences.  What is left of s after its first n elements. *)
LEMMA Drop ==
  ASSUME NEW S, NEW s \in Seq(S), NEW n \in 0 .. Len(s)
  PROVE  /\ SubSeq(s, n + 1, Len(s)) \in Seq(S) /\ Len(SubSeq(s, n + 1, Len(s))) = Len(s) - n
         /\ \A i \in 1 .. Len(s) - n : SubSeq(s, n + 1, Len(s))[i] = s[n + i]
<1>1. Len(s) \in Nat /\ n \in Nat /\ n + 1 \in Int /\ Len(s) \in Int /\ n <= Len(s)
  BY LenProperties
<1>2. \A i \in n + 1 .. Len(s) : s[i] \in S
  <2>1. \A i \in n + 1 .. Len(s) : i \in 1 .. Len(s)
    BY <1>1
  <2> QED
    BY <2>1, ElementOfSeq
<1>3. PICK m : m = Len(s)
  OBVIOUS
<1>4. /\ SubSeq(s, n + 1, m) \in Seq(S)
      /\ Len(SubSeq(s, n + 1, m)) = (IF n + 1 <= m THEN m - (n + 1) + 1 ELSE 0)
      /\ \A i \in 1 .. m - (n + 1) + 1 : SubSeq(s, n + 1, m)[i] = s[(n + 1) + i - 1]
  BY <1>1, <1>2, <1>3, SubSeqProperties
<1>5. m - (n + 1) + 1 = m - n /\ (IF n + 1 <= m THEN m - (n + 1) + 1 ELSE 0) = m - n
  BY <1>1, <1>3
<1>6. \A i \in 1 .. m - n : (n + 1) + i - 1 = n + i
  BY <1>1, <1>3
<1> QED
  BY <1>3, <1>4, <1>5, <1>6

LEMMA DropOfConcat ==
  ASSUME NEW S, NEW s \in Seq(S), NEW t \in Seq(S), NEW n \in 0 .. Len(s)
  PROVE  SubSeq(s, n + 1, Len(s)) \o t = SubSeq(s \o t, n + 1, Len(s \o t))
<1>1. PICK a, b, c : a = SubSeq(s, n + 1, Len(s)) /\ b = s \o t /\ c = SubSeq(b, n + 1, Len(b))
  OBVIOUS
<1>2. Len(s) \in Nat /\ Len(t) \in Nat /\ n \in Nat /\ n <= Len(s)
  BY LenProperties
<1>3. a \in Seq(S) /\ Len(a) = Len(s) - n /\ \A i \in 1 .. Len(s) - n : a[i] = s[n + i]
  BY <1>1, Drop
<1>4. /\ b \in Seq(S) /\ Len(b) = Len(s) + Len(t)
      /\ \A i \in 1 .. Len(s) + Len(t) : b[i] = IF i <= Len(s) THEN s[i] ELSE t[i - Len(s)]
  BY <1>1, ConcatProperties
<1>5. n \in 0 .. Len(b)
  BY <1>2, <1>4
<1>6. c \in Seq(S) /\ Len(c) = Len(b) - n /\ \A i \in 1 .. Len(b) - n : c[i] = b[n + i]
  BY <1>1, <1>4, <1>5, Drop
<1>7. /\ a \o t \in Seq(S) /\ Len(a \o t) = Len(a) + Len(t)
      /\ \A i \in 1 .. Len(a) + Len(t) : (a \o t)[i] = IF i <= Len(a) THEN a[i] ELSE t[i - Len(a)]
  BY <1>3, ConcatProperties
<1>8. Len(a \o t) = Len(c)
  BY <1>2, <1>3, <1>4, <1>6, <1>7
<1>9. ASSUME NEW i \in 1 .. Len(a \o t) PROVE (a \o t)[i] = c[i]
  <2>1. i \in 1 .. Len(a) + Len(t) /\ i \in 1 .. Len(b) - n /\ n + i \in 1 .. Len(s) + Len(t)
    BY <1>2, <1>3, <1>4, <1>6, <1>7, <1>8
  <2>2. c[i] = IF n + i <= Len(s) THEN s[n + i] ELSE t[(n + i) - Len(s)]
    BY <1>4, <1>6, <2>1
  <2>3. CASE i <= Len(a)
    <3>1. i \in 1 .. Len(s) - n /\ n + i <= Len(s)
      BY <1>2, <1>3, <2>1, <2>3
    <3> QED
      BY <1>3, <1>7, <2>1, <2>2, <2>3, <3>1
  <2>4. CASE ~(i <= Len(a))
    <3>1. ~(n + i <= Len(s)) /\ (n + i) - Len(s) = i - Len(a)
      BY <1>2, <1>3, <2>1, <2>4
    <3> QED
      BY <1>7, <2>1, <2>2, <2>4, <3>1
  <2> QED
    BY <2>3, <2>4
<1>10. a \o t = c
  BY <1>6, <1>7, <1>8, <1>9, SeqEqual
<1> QED
  BY <1>1, <1>10

LEMMA DropAll ==
  ASSUME NEW S, NEW s \in Seq(S), NEW t \in Seq(S)
  PROVE  SubSeq(s \o t, Len(s) + 1, Len(s \o t)) = t
<1>1. Len(s) \in Nat /\ Len(s) \in 0 .. Len(s) /\ Len(s) < Len(s) + 1 /\ Len(s) + 1 \in Int
  BY LenProperties
<1>2. SubSeq(s, Len(s) + 1, Len(s)) = <<>>
  BY <1>1, SubSeqEmpty
<1>3. <<>> \o t = t
  BY ConcatEmptySeq
<1> QED
  BY <1>1, <1>2, <1>3, DropOfConcat

LEMMA DropTwice ==
  ASSUME NEW S, NEW s \in Seq(S), NEW j \in 0 .. Len(s), NEW n \in 0 .. Len(s) - j
  PROVE  SubSeq(SubSeq(s, j + 1, Len(s)), n + 1, Len(s) - j) = SubSeq(s, (j + n) + 1, Len(s))
<1>1. PICK a, b, c : a = SubSeq(s, j + 1, Len(s)) /\ b = SubSeq(a, n + 1, Len(a))
                     /\ c = SubSeq(s, (j + n) + 1, Len(s))
  OBVIOUS
<1>2. Len(s) \in Nat /\ j \in Nat /\ n \in Nat /\ j + n \in 0 .. Len(s) /\ j <= Len(s)
  BY LenProperties
<1>3. a \in Seq(S) /\ Len(a) = Len(s) - j /\ \A i \in 1 .. Len(s) - j : a[i] = s[j + i]
  BY <1>1, Drop
<1>4. n \in 0 .. Len(a)
  BY <1>3
<1>5. b \in Seq(S) /\ Len(b) = Len(a) - n /\ \A i \in 1 .. Len(a) - n : b[i] = a[n + i]
  BY <1>1, <1>3, <1>4, Drop
<1>6. /\ c \in Seq(S) /\ Len(c) = Len(s) - (j + n)
      /\ \A i \in 1 .. Len(s) - (j + n) : c[i] = s[(j + n) + i]
  BY <1>1, <1>2, Drop
<1>7. Len(b) = Len(c)
  BY <1>2, <1>3, <1>5, <1>6
<1>8. ASSUME NEW i \in 1 .. Len(b) PROVE b[i] = c[i]
  <2>1. /\ i \in 1 .. Len(a) - n /\ n + i \in 1 .. Len(s) - j /\ i \in 1 .. Len(s) - (j + n)
        /\ j + (n + i) = (j + n) + i
    BY <1>2, <1>3, <1>5, <1>6, <1>7
  <2> QED
    BY <1>3, <1>5, <1>6, <2>1
<1>9. b = c
  BY <1>5, <1>6, <1>7, <1>8, SeqEqual
<1> QED
  BY <1>1, <1>3, <1>9

LEMMA AssocUnits == \A s, t, u \in Seq(Units) : (s \o t) \o u = s \o (t \o u)
BY ConcatAssociative

(* What is taken from the front of one sequence to the end of another.     *)
LEMMA Move ==
  \A s, t \in Seq(Units) : \A k \in 0 .. Len(t) :
    /\ s \o SubSeq(t, 1, k) \in Seq(Units) /\ SubSeq(t, k + 1, Len(t)) \in Seq(Units)
    /\ Len(s \o SubSeq(t, 1, k)) = Len(s) + k
    /\ (s \o SubSeq(t, 1, k)) \o SubSeq(t, k + 1, Len(t)) = s \o t
    /\ \A u \in Seq(Units) :
         (s \o SubSeq(t, 1, k)) \o (SubSeq(t, k + 1, Len(t)) \o u) = s \o (t \o u)
<1>1. ASSUME NEW s \in Seq(Units), NEW t \in Seq(Units), NEW k \in 0 .. Len(t)
      PROVE  /\ s \o SubSeq(t, 1, k) \in Seq(Units) /\ SubSeq(t, k + 1, Len(t)) \in Seq(Units)
             /\ Len(s \o SubSeq(t, 1, k)) = Len(s) + k
             /\ (s \o SubSeq(t, 1, k)) \o SubSeq(t, k + 1, Len(t)) = s \o t
             /\ \A u \in Seq(Units) :
                  (s \o SubSeq(t, 1, k)) \o (SubSeq(t, k + 1, Len(t)) \o u) = s \o (t \o u)
  <2>1. PICK a, b : a = SubSeq(t, 1, k) /\ b = SubSeq(t, k + 1, Len(t))
    OBVIOUS
  <2>2. Len(t) \in Nat /\ Len(s) \in Nat /\ k \in Nat /\ k \in Int /\ 1 \in Int /\ k <= Len(t)
    BY LenProperties
  <2>3. a \in Seq(Units) /\ Len(a) = k
    <3>1. \A i \in 1 .. k : t[i] \in Units
      <4>1. \A i \in 1 .. k : i \in 1 .. Len(t)
        BY <2>2
      <4> QED
        BY <4>1, ElementOfSeq
    <3>2. a \in Seq(Units) /\ Len(a) = IF 1 <= k THEN k - 1 + 1 ELSE 0
      BY <2>1, <2>2, <3>1, SubSeqProperties
    <3> QED
      BY <2>2, <3>2
  <2>4. b \in Seq(Units)
    BY <2>1, Drop
  <2>5. a \o b = t
    <3>1. 1 \in 1 .. Len(t) + 1 /\ k \in 1 - 1 .. Len(t) /\ Len(t) \in k .. Len(t)
      BY <2>2
    <3>2. SubSeq(t, 1, k) \o SubSeq(t, k + 1, Len(t)) = SubSeq(t, 1, Len(t))
      BY <3>1, ConcatAdjacentSubSeq
    <3>3. SubSeq(t, 1, Len(t)) = t
      BY SubSeqFull
    <3> QED
      BY <2>1, <3>2, <3>3
  <2>6. s \o a \in Seq(Units) /\ Len(s \o a) = Len(s) + k
    BY <2>3, ConcatProperties
  <2>7. (s \o a) \o b = s \o (a \o b)
    BY <2>3, <2>4, AssocUnits, Zenon
  <2>8. ASSUME NEW u \in Seq(Units)
        PROVE  (s \o a) \o (b \o u) = s \o (t \o u)
    <3>1. ((s \o a) \o b) \o u = (s \o a) \o (b \o u)
      BY <2>4, <2>6, AssocUnits, Zenon
    <3>2. (s \o t) \o u = s \o (t \o u)
      BY AssocUnits, Zenon
    <3> QED
      BY <2>5, <2>7, <3>1, <3>2, Zenon
  <2> QED
    BY <2>1, <2>4, <2>5, <2>6, <2>7, <2>8, Zenon
<1> QED
  BY <1>1, Zenon

(* If a \o b = c \o d and a is not shorter than c, then b is an end of d. *)
EndOf(s, t) == \E j \in 0 .. Len(t) : s = SubSeq(t, j + 1, Len(t))

LEMMA Ends ==
  \A a, b, c, d \in Seq(Units) : a \o b = c \o d /\ Len(c) <= Len(a) => EndOf(b, d)
<1> TAKE a, b, c, d \in Seq(Units)
<1> HAVE a \o b = c \o d /\ Len(c) <= Len(a)
<1>1. PICK e, n : e = c \o d /\ n = Len(a) - Len(c)
  OBVIOUS
<1>2. Len(a) \in Nat /\ Len(b) \in Nat /\ Len(c) \in Nat /\ Len(d) \in Nat
  BY LenProperties
<1>3. e \in Seq(Units) /\ Len(e) = Len(c) + Len(d) /\ Len(e) = Len(a) + Len(b)
  BY <1>1, ConcatProperties
<1>4. n \in 0 .. Len(d) /\ Len(c) \in 0 .. Len(e) /\ n \in 0 .. Len(e) - Len(c) /\ Len(c) + n = Len(a)
      /\ Len(e) - Len(c) = Len(d)
  BY <1>1, <1>2, <1>3
<1>5. b = SubSeq(e, Len(a) + 1, Len(e))
  BY <1>1, DropAll
<1>6. d = SubSeq(e, Len(c) + 1, Len(e))
  BY <1>1, DropAll
<1>7. SubSeq(SubSeq(e, Len(c) + 1, Len(e)), n + 1, Len(e) - Len(c)) = SubSeq(e, (Len(c) + n) + 1, Len(e))
  BY <1>3, <1>4, DropTwice
<1>8. b = SubSeq(d, n + 1, Len(d))
  BY <1>1, <1>4, <1>5, <1>6, <1>7
<1> QED
  BY <1>4, <1>8 DEF EndOf

(* If they are as long they are the same. *)
LEMMA SameParts ==
  ASSUME NEW S, NEW a \in Seq(S), NEW b \in Seq(S), NEW c \in Seq(S), NEW d \in Seq(S),
         a \o b = c \o d, Len(c) = Len(a)
  PROVE  a = c /\ b = d
<1>1. PICK e : e = c \o d
  OBVIOUS
<1>2. Len(a) \in Nat /\ Len(b) \in Nat /\ Len(d) \in Nat
  BY LenProperties
<1>3. \A i \in 1 .. Len(a) + Len(b) : e[i] = IF i <= Len(a) THEN a[i] ELSE b[i - Len(a)]
  BY <1>1, ConcatProperties
<1>4. \A i \in 1 .. Len(c) + Len(d) : e[i] = IF i <= Len(c) THEN c[i] ELSE d[i - Len(c)]
  BY <1>1, ConcatProperties
<1>5. ASSUME NEW i \in 1 .. Len(a) PROVE a[i] = c[i]
  <2>1. i \in 1 .. Len(a) + Len(b) /\ i \in 1 .. Len(c) + Len(d) /\ i <= Len(a) /\ i <= Len(c)
    BY <1>2
  <2> QED
    BY <1>3, <1>4, <2>1
<1>6. a = c
  BY <1>5, SeqEqual
<1>7. b = SubSeq(e, Len(a) + 1, Len(e))
  BY <1>1, DropAll
<1>8. d = SubSeq(e, Len(a) + 1, Len(e))
  BY <1>1, DropAll
<1> QED
  BY <1>6, <1>7, <1>8

-----------------------------------------------------------------------------
(* What a client says. *)
LEMMA Client ==
  ASSUME NEW x \in Cases, client = x[2]
  PROVE  /\ client.kind \in {"socks", "http", "doko"} /\ client.data \in Nat
         /\ client.kind = "socks" =>
              /\ client.methods \in Seq(Nat) /\ <<"host", client.addr>> \in Units
              /\ client.user \in Nat /\ client.pass \in Nat /\ client.cmd \in Nat /\ client.atyp \in Nat
         /\ client.kind = "http" =>
              /\ Len(client.reqs) \in Nat /\ DOMAIN client.reqs = 1 .. Len(client.reqs)
              /\ \A i \in DOMAIN client.reqs : client.reqs[i].connect => i = Len(client.reqs)
<1>1. client.kind = "socks" => <<"host", client.addr>> \in Units
  BY DEF Units, Addrs
<1> QED
  BY <1>1, CasesAssumption

(* A unit of a number. *)
LEMMA NumberUnits == \A k \in {"b", "cred", "req", "data"}, n \in Nat : <<k, n>> \in Units
BY DEF Units

LEMMA DataWords ==
  ASSUME NEW x \in Cases, client = x[2]
  PROVE  /\ Data \in Seq(Units) /\ Len(Data) = client.data
         /\ \A i \in 1 .. Len(Data) : Data[i] = <<"data", i>>
<1>1. client.data \in Nat
  BY Client
<1>2. ASSUME NEW i \in 1 .. client.data PROVE <<"data", i>> \in Units
  <2>1. i \in Nat
    BY <1>1
  <2> QED
    BY <2>1, NumberUnits
<1> HIDE DEF Units
<1> QED
  BY <1>1, <1>2 DEF Data

LEMMA RequestsWords ==
  ASSUME NEW x \in Cases, client = x[2], client.kind = "http"
  PROVE  /\ Requests \in Seq(Units) /\ Len(Requests) = Len(client.reqs)
         /\ \A i \in 1 .. Len(client.reqs) : Requests[i] = <<"req", i>>
<1>1. Len(client.reqs) \in Nat /\ DOMAIN client.reqs = 1 .. Len(client.reqs)
  BY Client
<1>2. ASSUME NEW i \in 1 .. Len(client.reqs) PROVE <<"req", i>> \in Units
  <2>1. i \in Nat
    BY <1>1
  <2> QED
    BY <2>1, NumberUnits
<1>3. Requests = [i \in 1 .. Len(client.reqs) |-> <<"req", i>>]
  BY <1>1 DEF Requests
<1> HIDE DEF Units, Requests
<1> QED
  BY <1>1, <1>2, <1>3

LEMMA HelloWords ==
  ASSUME NEW x \in Cases, client = x[2], client.kind = "socks"
  PROVE  /\ Methods \in Seq(Units) /\ Len(Methods) = Len(client.methods)
         /\ \A i \in 1 .. Len(client.methods) : Methods[i] = <<"b", client.methods[i]>>
         /\ Hello = <<<<"b", 5>>, <<"b", Len(client.methods)>>>> \o Methods /\ Hello \in Seq(Units)
         /\ Len(client.methods) \in Nat
         /\ <<<<"b", 5>>, <<"b", Len(client.methods)>>>> \in Seq(Units)
         /\ Len(<<<<"b", 5>>, <<"b", Len(client.methods)>>>>) = 2
<1>1. PICK m : m = client.methods
  OBVIOUS
<1>2. m \in Seq(Nat) /\ Len(m) \in Nat /\ DOMAIN m = 1 .. Len(m)
  BY <1>1, Client, LenProperties
<1>3. \A i \in 1 .. Len(m) : <<"b", m[i]>> \in Units
  <2>1. \A i \in 1 .. Len(m) : m[i] \in Nat
    BY <1>2, ElementOfSeq
  <2> QED
    BY <2>1, NumberUnits
<1>4. Methods = [i \in 1 .. Len(m) |-> <<"b", m[i]>>]
  BY <1>1, <1>2 DEF Methods
<1>5. <<"b", 5>> \in Units /\ <<"b", Len(m)>> \in Units
  BY <1>2, NumberUnits
<1> HIDE DEF Units, Methods
<1>6. Methods \in Seq(Units) /\ Len(Methods) = Len(m) /\ \A i \in 1 .. Len(m) : Methods[i] = <<"b", m[i]>>
  BY <1>2, <1>3, <1>4
<1>7. <<<<"b", 5>>, <<"b", Len(m)>>>> \in Seq(Units) /\ Len(<<<<"b", 5>>, <<"b", Len(m)>>>>) = 2
  BY <1>5
<1>8. Hello = <<<<"b", 5>>, <<"b", Len(m)>>>> \o Methods /\ Hello \in Seq(Units)
  BY <1>1, <1>6, <1>7, ConcatProperties DEF Hello
<1> QED
  BY <1>1, <1>2, <1>6, <1>7, <1>8

LEMMA RepeatWords ==
  ASSUME NEW n \in Nat
  PROVE  /\ Repeat(<<"cred", 0>>, n) \in Seq(Units) /\ Len(Repeat(<<"cred", 0>>, n)) = n
         /\ \A i \in 1 .. n : Repeat(<<"cred", 0>>, n)[i] = <<"cred", 0>>
<1>1. <<"cred", 0>> \in Units
  BY NumberUnits
<1> HIDE DEF Units
<1> QED
  BY <1>1 DEF Repeat

LEMMA LoginWords ==
  ASSUME NEW x \in Cases, client = x[2], client.kind = "socks"
  PROVE  /\ Login \in Seq(Units) /\ Len(Login) = 3 + client.user + client.pass
         /\ Login[1] = <<"b", 1>> /\ Login[2] = <<"b", client.user>>
         /\ Login[3 + client.user] = <<"b", client.pass>>
         /\ \A i \in 3 .. Len(Login) : i # 3 + client.user => Login[i] = <<"cred", 0>>
<1>1. PICK u, p, s1, s2, s3, s4 :
        /\ u = client.user /\ p = client.pass
        /\ s1 = <<<<"b", 1>>, <<"b", u>>>> /\ s2 = Repeat(<<"cred", 0>>, u)
        /\ s3 = <<<<"b", p>>>> /\ s4 = Repeat(<<"cred", 0>>, p)
  OBVIOUS
<1>2. u \in Nat /\ p \in Nat
  BY <1>1, Client
<1>3. <<"b", 1>> \in Units /\ <<"b", u>> \in Units /\ <<"b", p>> \in Units
  BY <1>2, NumberUnits
<1>4. s2 \in Seq(Units) /\ Len(s2) = u /\ \A i \in 1 .. u : s2[i] = <<"cred", 0>>
  BY <1>1, <1>2, RepeatWords
<1>5. s4 \in Seq(Units) /\ Len(s4) = p /\ \A i \in 1 .. p : s4[i] = <<"cred", 0>>
  BY <1>1, <1>2, RepeatWords
<1> HIDE DEF Units
<1>6. s1 \in Seq(Units) /\ Len(s1) = 2 /\ s1[1] = <<"b", 1>> /\ s1[2] = <<"b", u>>
  BY <1>1, <1>3
<1>7. s3 \in Seq(Units) /\ Len(s3) = 1 /\ s3[1] = <<"b", p>>
  BY <1>1, <1>3
<1>8. Login = ((s1 \o s2) \o s3) \o s4
  BY <1>1 DEF Login
<1>9. PICK a : a = s1 \o s2
  OBVIOUS
<1>10. PICK b : b = a \o s3
  OBVIOUS
<1>11. PICK l : l = b \o s4
  OBVIOUS
<1>12. /\ a \in Seq(Units) /\ Len(a) = 2 + u
       /\ \A i \in 1 .. 2 + u : a[i] = IF i <= 2 THEN s1[i] ELSE s2[i - 2]
  <2>1. /\ a \in Seq(Units) /\ Len(a) = Len(s1) + Len(s2)
        /\ \A i \in 1 .. Len(s1) + Len(s2) : a[i] = IF i <= Len(s1) THEN s1[i] ELSE s2[i - Len(s1)]
    BY <1>4, <1>6, <1>9, ConcatProperties
  <2> QED
    BY <1>4, <1>6, <2>1
<1>13. /\ b \in Seq(Units) /\ Len(b) = (2 + u) + 1
       /\ \A i \in 1 .. (2 + u) + 1 : b[i] = IF i <= 2 + u THEN a[i] ELSE s3[i - (2 + u)]
  <2>1. /\ b \in Seq(Units) /\ Len(b) = Len(a) + Len(s3)
        /\ \A i \in 1 .. Len(a) + Len(s3) : b[i] = IF i <= Len(a) THEN a[i] ELSE s3[i - Len(a)]
    BY <1>7, <1>10, <1>12, ConcatProperties
  <2> QED
    BY <1>7, <1>12, <2>1
<1>14. /\ l \in Seq(Units) /\ Len(l) = ((2 + u) + 1) + p
       /\ \A i \in 1 .. ((2 + u) + 1) + p : l[i] = IF i <= (2 + u) + 1 THEN b[i] ELSE s4[i - ((2 + u) + 1)]
  <2>1. /\ l \in Seq(Units) /\ Len(l) = Len(b) + Len(s4)
        /\ \A i \in 1 .. Len(b) + Len(s4) : l[i] = IF i <= Len(b) THEN b[i] ELSE s4[i - Len(b)]
    BY <1>5, <1>11, <1>13, ConcatProperties
  <2> QED
    BY <1>5, <1>13, <2>1
<1>15. ASSUME NEW i \in 1 .. 2 + u
       PROVE  l[i] = IF i <= 2 THEN s1[i] ELSE s2[i - 2]
  <2>1. /\ i \in 1 .. (2 + u) + 1 /\ i \in 1 .. ((2 + u) + 1) + p
        /\ i <= 2 + u /\ i <= (2 + u) + 1
    BY <1>2
  <2> QED
    BY <1>12, <1>13, <1>14, <2>1
<1>16. l[1] = <<"b", 1>> /\ l[2] = <<"b", u>>
  <2>1. 1 \in 1 .. 2 + u /\ 2 \in 1 .. 2 + u
    BY <1>2
  <2> QED
    BY <1>6, <1>15, <2>1
<1>17. l[3 + u] = <<"b", p>>
  <2>1. /\ 3 + u \in 1 .. (2 + u) + 1 /\ 3 + u \in 1 .. ((2 + u) + 1) + p
        /\ ~(3 + u <= 2 + u) /\ 3 + u <= (2 + u) + 1 /\ (3 + u) - (2 + u) = 1
    BY <1>2
  <2> QED
    BY <1>7, <1>13, <1>14, <2>1
<1>18. ASSUME NEW i \in 3 .. ((2 + u) + 1) + p, i # 3 + u
       PROVE  l[i] = <<"cred", 0>>
  <2>1. i <= 2 + u \/ i > 3 + u
    BY <1>2, <1>18
  <2>2. CASE i <= 2 + u
    <3>1. i \in 1 .. 2 + u /\ ~(i <= 2) /\ i - 2 \in 1 .. u
      BY <1>2, <2>2
    <3> QED
      BY <1>4, <1>15, <3>1
  <2>3. CASE i > 3 + u
    <3>1. i \in 1 .. ((2 + u) + 1) + p /\ ~(i <= (2 + u) + 1) /\ i - ((2 + u) + 1) \in 1 .. p
      BY <1>2, <2>3
    <3> QED
      BY <1>5, <1>14, <3>1
  <2> QED
    BY <2>1, <2>2, <2>3
<1>19. Login = l /\ ((2 + u) + 1) + p = 3 + u + p
  BY <1>2, <1>8, <1>9, <1>10, <1>11
<1> QED
  BY <1>1, <1>14, <1>16, <1>17, <1>18, <1>19

LEMMA RequestWords ==
  ASSUME NEW x \in Cases, client = x[2], client.kind = "socks"
  PROVE  /\ Request \in Seq(Units) /\ Len(Request) = 5
         /\ Request[1] = <<"b", 5>> /\ Request[2] = <<"b", client.cmd>> /\ Request[3] = <<"b", 0>>
         /\ Request[4] = <<"b", client.atyp>> /\ Request[5] = <<"host", client.addr>>
<1>1. /\ <<"b", 5>> \in Units /\ <<"b", client.cmd>> \in Units /\ <<"b", 0>> \in Units
      /\ <<"b", client.atyp>> \in Units /\ <<"host", client.addr>> \in Units
  BY Client, NumberUnits
<1> HIDE DEF Units
<1> QED
  BY <1>1 DEF Request

(* All that a client says, and what it says first. *)
LEMMA Words ==
  ASSUME NEW x \in Cases, client = x[2]
  PROVE  /\ Data \in Seq(Units)
         /\ client.kind = "socks" =>
              /\ Hello \in Seq(Units) /\ Methods \in Seq(Units) /\ Login \in Seq(Units)
              /\ Request \in Seq(Units) /\ Request \o Data \in Seq(Units) /\ AfterHello \in Seq(Units)
         /\ client.kind = "http" => Requests \in Seq(Units)
         /\ FirstWords \in Seq(Units) /\ <<>> \in Seq(Units)
<1>1. Data \in Seq(Units) /\ <<>> \in Seq(Units)
  BY DataWords
<1>2. ASSUME client.kind = "socks"
      PROVE  /\ Hello \in Seq(Units) /\ Methods \in Seq(Units) /\ Login \in Seq(Units)
             /\ Request \in Seq(Units) /\ Request \o Data \in Seq(Units) /\ AfterHello \in Seq(Units)
             /\ FirstWords \in Seq(Units)
  <2>1. Hello \in Seq(Units) /\ Methods \in Seq(Units)
    BY <1>2, HelloWords
  <2>2. Login \in Seq(Units) /\ Request \in Seq(Units)
    BY <1>2, LoginWords, RequestWords
  <2>3. Request \o Data \in Seq(Units)
    BY <1>1, <2>2, ConcatProperties
  <2>4. (IF Contains(client.methods, 2) THEN Login ELSE <<>>) \in Seq(Units)
    BY <1>1, <2>2
  <2>5. AfterHello \in Seq(Units)
    BY <2>3, <2>4, ConcatProperties DEF AfterHello
  <2>6. Eagerly(AfterHello) \in Seq(Units)
    BY <1>1, <2>5 DEF Eagerly
  <2>7. FirstWords \in Seq(Units)
    BY <1>2, <2>1, <2>6, ConcatProperties DEF FirstWords
  <2> QED
    BY <2>1, <2>2, <2>3, <2>5, <2>7
<1>3. ASSUME client.kind = "http"
      PROVE  Requests \in Seq(Units) /\ FirstWords \in Seq(Units)
  <2>1. Requests \in Seq(Units)
    BY <1>3, RequestsWords
  <2>2. Eagerly(Data) \in Seq(Units)
    BY <1>1 DEF Eagerly
  <2>3. FirstWords = Requests \o Eagerly(Data)
    BY <1>3 DEF FirstWords
  <2> QED
    BY <2>1, <2>2, <2>3, ConcatProperties
<1>4. client.kind = "doko" => FirstWords \in Seq(Units)
  BY <1>1 DEF FirstWords
<1>5. client.kind \in {"socks", "http", "doko"}
  BY Client
<1> QED
  BY <1>1, <1>2, <1>3, <1>4, <1>5

LEMMA PartsSame ==
  ASSUME client' = client
  PROVE  /\ Data' = Data /\ Login' = Login /\ Request' = Request /\ Requests' = Requests
         /\ Methods' = Methods /\ Hello' = Hello /\ AfterHello' = AfterHello /\ FirstWords' = FirstWords
         /\ \A w : Eagerly(w)' = Eagerly(w)
<1>1. Data' = Data /\ Login' = Login /\ Request' = Request /\ Requests' = Requests /\ Methods' = Methods
  BY DEF Data, Login, Request, Requests, Methods
<1>2. \A w : Eagerly(w)' = Eagerly(w)
  BY DEF Eagerly
<1>3. Contains(client.methods, 2)' = Contains(client.methods, 2)
  OBVIOUS
<1>4. AfterHello' = AfterHello
  BY <1>1, <1>3 DEF AfterHello
<1>5. Hello' = Hello
  BY <1>1 DEF Hello
<1>6. FirstWords' = FirstWords
  BY <1>1, <1>4, <1>5 DEF FirstWords, Eagerly
<1> QED
  BY <1>1, <1>2, <1>4, <1>5, <1>6

-----------------------------------------------------------------------------
(* Steps.  What is read was first of what was left. *)
LEMMA Taken ==
  ASSUME NEW n \in Nat, inbox \in Seq(Units), todo \in Seq(Units), Take(n)
  PROVE  /\ inbox' \in Seq(Units) /\ Left \in Seq(Units) /\ n \in 0 .. Len(Left)
         /\ inbox' \o todo = SubSeq(Left, n + 1, Len(Left))
         /\ \A i \in 1 .. Len(inbox) : i \in 1 .. Len(Left) /\ inbox[i] = Left[i]
<1>1. PICK a, b, c : a = inbox /\ b = todo /\ c = Left
  OBVIOUS
<1>2. c = a \o b /\ a \in Seq(Units) /\ b \in Seq(Units)
  BY <1>1 DEF Left
<1>3. c \in Seq(Units) /\ Len(c) = Len(a) + Len(b) /\ Len(a) \in Nat /\ Len(b) \in Nat
      /\ \A i \in 1 .. Len(a) + Len(b) : c[i] = IF i <= Len(a) THEN a[i] ELSE b[i - Len(a)]
  BY <1>2, ConcatProperties, LenProperties
<1>4. n <= Len(a) /\ inbox' = SubSeq(a, n + 1, Len(a))
  BY <1>1, <1>3 DEF Take
<1>5. n \in 0 .. Len(a)
  BY <1>3, <1>4
<1>6. inbox' \in Seq(Units)
  BY <1>2, <1>4, <1>5, Drop
<1>7. SubSeq(a, n + 1, Len(a)) \o b = SubSeq(a \o b, n + 1, Len(a \o b))
  BY <1>2, <1>5, DropOfConcat
<1>8. \A i \in 1 .. Len(a) : i \in 1 .. Len(c) /\ c[i] = a[i]
  BY <1>3
<1>9. n \in 0 .. Len(c)
  BY <1>3, <1>5
<1> QED
  BY <1>1, <1>2, <1>3, <1>4, <1>6, <1>7, <1>8, <1>9

(* The same without a read. *)
LEMMA FirstLeft ==
  ASSUME inbox \in Seq(Units), todo \in Seq(Units)
  PROVE  /\ Left \in Seq(Units) /\ Len(inbox) \in Nat /\ Len(Left) >= Len(inbox)
         /\ \A i \in 1 .. Len(inbox) : i \in 1 .. Len(Left) /\ inbox[i] = Left[i]
<1>1. ASSUME NEW a \in Seq(Units), NEW b \in Seq(Units)
      PROVE  /\ a \o b \in Seq(Units) /\ Len(a) \in Nat /\ Len(a \o b) >= Len(a)
             /\ \A i \in 1 .. Len(a) : i \in 1 .. Len(a \o b) /\ a[i] = (a \o b)[i]
  <2>1. a \o b \in Seq(Units) /\ Len(a \o b) = Len(a) + Len(b) /\ Len(a) \in Nat /\ Len(b) \in Nat
        /\ \A i \in 1 .. Len(a) + Len(b) : (a \o b)[i] = IF i <= Len(a) THEN a[i] ELSE b[i - Len(a)]
    BY ConcatProperties, LenProperties
  <2> QED
    BY <2>1
<1>2. /\ inbox \o todo \in Seq(Units) /\ Len(inbox) \in Nat /\ Len(inbox \o todo) >= Len(inbox)
      /\ \A i \in 1 .. Len(inbox) : i \in 1 .. Len(inbox \o todo) /\ inbox[i] = (inbox \o todo)[i]
  BY <1>1, Zenon
<1> QED
  BY <1>2, Zenon DEF Left

LEMMA Answered ==
  ASSUME NEW r \in Answers, NEW s, NEW more \in Seq(Units), NEW box \in Seq(Units),
         todo \in Seq(Units), said \in Seq(Answers), Answer(r, s, more)
  PROVE  \/ at' = "failed" /\ said' = said /\ todo' = todo
         \/ /\ at' = s /\ todo' \in Seq(Units)
            /\ said' \in Seq(Answers) /\ said' # <<>> /\ said'[1] = IF said = <<>> THEN r ELSE said[1]
            /\ client.eager => todo' = todo
            /\ ~client.eager => box \o todo' = (box \o todo) \o more
<1>1. CASE at' = "failed" /\ said' = said /\ todo' = todo
  BY <1>1
<1>2. CASE /\ said' = Append(said, r) /\ at' = s
           /\ todo' = IF client.eager THEN todo ELSE todo \o more
  <2>1. PICK a : a = said
    OBVIOUS
  <2>2. a \in Seq(Answers) /\ said' = Append(a, r)
    BY <1>2, <2>1
  <2>3. said' \in Seq(Answers) /\ said' # <<>> /\ said'[1] = IF a = <<>> THEN r ELSE a[1]
    <3>1. /\ Append(a, r) \in Seq(Answers) /\ Append(a, r) # <<>> /\ Len(a) \in Nat
          /\ \A i \in 1 .. Len(a) : Append(a, r)[i] = a[i]
          /\ Append(a, r)[Len(a) + 1] = r
      <4>1. a \in Seq(Answers) /\ r \in Answers
        BY <2>2
      <4>2. Append(a, r) \in Seq(Answers)
        BY <4>1, AppendProperties
      <4>3. Append(a, r) # <<>>
        BY <4>1, AppendProperties
      <4>4. Len(a) \in Nat
        BY <4>1, LenProperties
      <4>5. \A i \in 1 .. Len(a) : Append(a, r)[i] = a[i]
        BY <4>1, AppendProperties
      <4>6. Append(a, r)[Len(a) + 1] = r
        BY <4>1, AppendProperties
      <4> QED
        BY <4>2, <4>3, <4>4, <4>5, <4>6
    <3>2. CASE a = <<>>
      <4>1. Len(a) + 1 = 1
        BY <3>2
      <4> QED
        BY <2>2, <3>1, <3>2, <4>1
    <3>3. CASE a # <<>>
      <4>1. 1 \in 1 .. Len(a)
        BY <2>2, <3>1, <3>3, EmptySeq
      <4> QED
        BY <2>2, <3>1, <3>3, <4>1
    <3> QED
      BY <3>2, <3>3
  <2>4. todo \o more \in Seq(Units)
    BY ConcatProperties
  <2>5. (box \o todo) \o more = box \o (todo \o more)
    BY AssocUnits, Zenon
  <2>6. ~client.eager => todo' = todo \o more
    BY <1>2
  <2>7. ~client.eager => box \o todo' = (box \o todo) \o more
    BY <2>5, <2>6, Zenon
  <2> QED
    BY <1>2, <2>1, <2>3, <2>4, <2>7
<1> QED
  BY <1>1, <1>2 DEF Answer

(* A connection that has ended. *)
LEMMA Ended ==
  ASSUME IInv, client' = client, swallowed' = swallowed, relayed' = relayed, at # "relay",
         at' \in {"failed", "done", "stopped", "panicked"}
  PROVE  ScriptInv'
<1>1. /\ swallowed => client.kind = "socks" /\ client.eager
      /\ relayed = <<>>
  BY DEF IInv, ScriptInv, OffScript
<1>2. IF swallowed' THEN OffScript' ELSE OnScript'
  BY <1>1 DEF OffScript, OnScript
<1> QED
  BY <1>1, <1>2 DEF ScriptInv

(* The first answer stays the first. *)
LEMMA Offered ==
  ASSUME IInv, client' = client, swallowed => swallowed',
         said' = said \/ (said # <<>> /\ said'[1] = said[1]) \/ client.kind # "socks"
  PROVE  MethodWasOffered'
BY DEF IInv, MethodWasOffered

(* What is left after a read, if bytes have been read as methods.          *)
LEMMA SuffixStep ==
  ASSUME NEW r \in Seq(Units), NEW a, NEW j \in 0 .. Len(r), a = SubSeq(r, j + 1, Len(r)),
         NEW n \in 0 .. Len(a)
  PROVE  /\ j + n \in 0 .. Len(r) /\ SubSeq(a, n + 1, Len(a)) = SubSeq(r, (j + n) + 1, Len(r))
         /\ Len(a) = Len(r) - j /\ \A i \in 1 .. Len(a) : a[i] = r[j + i]
<1>1. /\ a \in Seq(Units) /\ Len(a) = Len(r) - j
      /\ \A i \in 1 .. Len(r) - j : a[i] = r[j + i]
  BY Drop
<1>2. Len(r) \in Nat
  BY LenProperties
<1>3. n \in 0 .. Len(r) - j /\ j + n \in 0 .. Len(r)
  BY <1>1, <1>2
<1>4. SubSeq(SubSeq(r, j + 1, Len(r)), n + 1, Len(r) - j) = SubSeq(r, (j + n) + 1, Len(r))
  BY <1>3, DropTwice
<1> QED
  BY <1>1, <1>3, <1>4

(* A step that leaves the service and what is left as they are.            *)
LEMMA OnlyMoved ==
  ASSUME IInv, UNCHANGED <<client, at, read_buf, nmethods, said, via, swallowed, relayed>>,
         inbox' \in Seq(Units), todo' \in Seq(Units), inbox' \o todo' = inbox \o todo,
         inbox = <<>> /\ closed => inbox' = <<>> /\ closed'
  PROVE  IInv'
<1>1. Left' = Left
  BY DEF Left
<1>2. /\ Data' = Data /\ Login' = Login /\ Request' = Request /\ Requests' = Requests
      /\ Methods' = Methods /\ AfterHello' = AfterHello /\ FirstWords' = FirstWords
      /\ \A w : Eagerly(w)' = Eagerly(w)
  BY PartsSame
<1>3. UnitsInv'
  BY DEF IInv, UnitsInv
<1>4. OnScript => OnScript'
  <2>1. \A w : (IF client'.eager THEN w ELSE <<>>) = (IF client.eager THEN w ELSE <<>>)
    OBVIOUS
  <2> QED
    BY <1>1, <1>2, <2>1 DEF OnScript, Eagerly
<1>5. OffScript => OffScript'
  BY <1>1, <1>2 DEF OffScript, Ending
<1>6. RequestsLeft => RequestsLeft'
  BY <1>1, <1>2 DEF RequestsLeft, Eagerly
<1>7. ScriptInv'
  BY <1>1, <1>2, <1>4, <1>5, <1>6 DEF IInv, ScriptInv
<1>8. MethodWasOffered'
  BY Offered
<1> QED
  BY <1>3, <1>7, <1>8 DEF IInv

LEMMA StepClientSends ==
  ASSUME IInv, NEW k \in 1 .. Len(todo), ClientSends(k)
  PROVE  IInv'
<1>1. PICK a, b, n : a = inbox /\ b = todo /\ n = Len(todo)
  OBVIOUS
<1>2. a \in Seq(Units) /\ b \in Seq(Units)
  BY <1>1 DEF IInv, UnitsInv
<1>3. n \in Nat
  BY <1>1, <1>2, LenProperties
<1>4. k \in 0 .. Len(b)
  BY <1>1, <1>3
<1>5. PICK f, g : f = SubSeq(b, 1, k) /\ g = SubSeq(b, k + 1, Len(b))
  OBVIOUS
<1>6. a \o f \in Seq(Units) /\ g \in Seq(Units) /\ (a \o f) \o g = a \o b
  BY <1>2, <1>4, <1>5, Move, Zenon
<1>7. inbox' = a \o f /\ todo' = g
  BY <1>1, <1>5 DEF ClientSends
<1>8. inbox' \in Seq(Units) /\ todo' \in Seq(Units) /\ inbox' \o todo' = inbox \o todo
  BY <1>1, <1>6, <1>7, Zenon
<1>9. ~closed /\ UNCHANGED <<client, at, read_buf, nmethods, said, via, swallowed, relayed>>
  BY DEF ClientSends
<1> QED
  BY <1>8, <1>9, OnlyMoved

LEMMA StepClientCloses ==
  ASSUME IInv, ClientCloses
  PROVE  IInv'
<1>1. /\ UNCHANGED <<client, at, read_buf, nmethods, said, via, swallowed, relayed, inbox, todo>>
      /\ closed'
  BY DEF ClientCloses
<1>2. inbox \in Seq(Units) /\ todo \in Seq(Units)
  BY DEF IInv, UnitsInv
<1> QED
  BY <1>1, <1>2, OnlyMoved

LEMMA StepStartServer ==
  ASSUME IInv, StartServer
  PROVE  IInv'
<1>0. at = "config" /\ at' \in {"config", "stopped", "listen"}
  BY DEF StartServer, RouterNext, BuildServer, NextSection, AddDomainEntry, AddCidr, OpenFile, ReadTag,
         ReadSite, ReadCidr, ReadHeader, EndOfFile, BuildRouter, InGroup, In
<1>1. /\ UNCHANGED <<client, inbox, todo, closed, read_buf, nmethods, said, via, swallowed, relayed>>
      /\ at = "config" /\ at' \in {"config", "stopped", "listen"}
  BY <1>0 DEF StartServer, clientVars
<1>2. UnitsInv'
  BY <1>1 DEF IInv, UnitsInv
<1>3. MethodWasOffered'
  BY <1>1, Offered
<1>4. CASE at' = "stopped"
  BY <1>1, <1>2, <1>3, <1>4, Ended DEF IInv
<1>5. CASE at' \in {"config", "listen"}
  <2>1. ~swallowed /\ Left = FirstWords /\ read_buf = <<>> /\ relayed = <<>>
        /\ (client.kind = "socks" => said = <<>>)
    BY <1>1 DEF IInv, ScriptInv, OffScript, OnScript
  <2>2. Left' = Left /\ FirstWords' = FirstWords
    BY <1>1, PartsSame DEF Left
  <2>3. OnScript'
    BY <1>1, <1>5, <2>1, <2>2 DEF OnScript
  <2> QED
    BY <1>1, <1>2, <1>3, <1>5, <2>1, <2>3 DEF IInv, ScriptInv
<1> QED
  BY <1>1, <1>4, <1>5

-----------------------------------------------------------------------------
(* The beginning of what a SOCKS5 client says, and of what an HTTP client  *)
(* has yet to say after j requests.                                        *)
LEMMA HelloFirst ==
  ASSUME NEW x \in Cases, client = x[2], client.kind = "socks"
  PROVE  /\ FirstWords \in Seq(Units) /\ Eagerly(AfterHello) \in Seq(Units)
         /\ Methods \o Eagerly(AfterHello) \in Seq(Units)
         /\ FirstWords[1] = <<"b", 5>> /\ FirstWords[2] = <<"b", Len(client.methods)>>
         /\ SubSeq(FirstWords, 2 + 1, Len(FirstWords)) = Methods \o Eagerly(AfterHello)
<1>1. PICK m, e, h, w, v : /\ m = Methods /\ e = Eagerly(AfterHello) /\ w = FirstWords /\ v = m \o e
                           /\ h = <<<<"b", 5>>, <<"b", Len(client.methods)>>>>
  OBVIOUS
<1>2. /\ Methods \in Seq(Units) /\ Hello = h \o Methods /\ h \in Seq(Units) /\ Len(h) = 2
      /\ h[1] = <<"b", 5>> /\ h[2] = <<"b", Len(client.methods)>>
  BY <1>1, HelloWords
<1>3. AfterHello \in Seq(Units) /\ <<>> \in Seq(Units)
  BY Words
<1>4. m \in Seq(Units) /\ e \in Seq(Units)
  BY <1>1, <1>2, <1>3 DEF Eagerly
<1>5. w = (h \o m) \o e
  BY <1>1, <1>2 DEF FirstWords
<1>6. (h \o m) \o e = h \o (m \o e)
  BY <1>2, <1>4, AssocUnits, Zenon
<1>7. w = h \o v
  BY <1>1, <1>5, <1>6, Zenon
<1>8. v \in Seq(Units) /\ Len(v) \in Nat
  BY <1>1, <1>4, ConcatProperties, LenProperties
<1>9. /\ w \in Seq(Units) /\ Len(w) = Len(h) + Len(v)
      /\ \A i \in 1 .. Len(h) + Len(v) : w[i] = IF i <= Len(h) THEN h[i] ELSE v[i - Len(h)]
  BY <1>2, <1>7, <1>8, ConcatProperties
<1>10. 1 \in 1 .. Len(h) + Len(v) /\ 2 \in 1 .. Len(h) + Len(v) /\ 1 <= Len(h) /\ 2 <= Len(h)
  BY <1>2, <1>8
<1>11. w[1] = h[1] /\ w[2] = h[2]
  BY <1>9, <1>10
<1>12. SubSeq(h \o v, Len(h) + 1, Len(h \o v)) = v
  BY <1>2, <1>8, DropAll
<1>13. SubSeq(w, 2 + 1, Len(w)) = v
  BY <1>2, <1>7, <1>12
<1> QED
  BY <1>1, <1>2, <1>4, <1>8, <1>9, <1>11, <1>13

LEMMA HttpWords ==
  ASSUME NEW x \in Cases, client = x[2], client.kind = "http",
         NEW j \in 0 .. Len(client.reqs),
         NEW w, w = SubSeq(Requests, j + 1, Len(client.reqs)) \o Eagerly(Data)
  PROVE  /\ w \in Seq(Units)
         /\ j = Len(client.reqs) => w = Eagerly(Data) /\ (w # <<>> => w[1] = <<"data", 1>>)
         /\ j # Len(client.reqs) =>
              /\ j + 1 \in 1 .. Len(client.reqs) /\ w # <<>> /\ w[1] = <<"req", j + 1>>
              /\ SubSeq(w, 1 + 1, Len(w)) =
                   SubSeq(Requests, (j + 1) + 1, Len(client.reqs)) \o Eagerly(Data)
<1>1. PICK q, n, e, r : /\ q = Requests /\ n = Len(client.reqs) /\ e = Eagerly(Data)
                        /\ r = SubSeq(q, j + 1, n)
  OBVIOUS
<1>2. n \in Nat /\ q \in Seq(Units) /\ Len(q) = n /\ (\A i \in 1 .. n : q[i] = <<"req", i>>)
  BY <1>1, Client, RequestsWords
<1>3. Data \in Seq(Units) /\ <<>> \in Seq(Units) /\ (\A i \in 1 .. Len(Data) : Data[i] = <<"data", i>>)
  BY DataWords, Words
<1>4. e \in Seq(Units) /\ (e # <<>> => e[1] = <<"data", 1>>)
  <2>1. e = Data \/ e = <<>>
    BY <1>1 DEF Eagerly
  <2>2. e = Data /\ e # <<>> => 1 \in 1 .. Len(e)
    BY <1>3, EmptySeq
  <2> QED
    BY <1>3, <2>1, <2>2
<1>5. j \in 0 .. n /\ j \in Nat
  BY <1>1, <1>2
<1>6. r \in Seq(Units) /\ Len(r) = n - j /\ (\A i \in 1 .. n - j : r[i] = q[j + i])
  BY <1>1, <1>2, <1>5, Drop, SMTT(30)
<1>7. w = r \o e
  BY <1>1
<1>8. /\ w \in Seq(Units) /\ Len(w) = Len(r) + Len(e) /\ Len(e) \in Nat
      /\ \A i \in 1 .. Len(r) + Len(e) : w[i] = IF i <= Len(r) THEN r[i] ELSE e[i - Len(r)]
  <2>1. r \in Seq(Units) /\ e \in Seq(Units)
    BY <1>4, <1>6
  <2>2. ASSUME NEW a \in Seq(Units), NEW b \in Seq(Units)
        PROVE  /\ a \o b \in Seq(Units) /\ Len(a \o b) = Len(a) + Len(b) /\ Len(b) \in Nat
               /\ \A i \in 1 .. Len(a) + Len(b) : (a \o b)[i] = IF i <= Len(a) THEN a[i] ELSE b[i - Len(a)]
    BY ConcatProperties, LenProperties
  <2>3. /\ r \o e \in Seq(Units) /\ Len(r \o e) = Len(r) + Len(e) /\ Len(e) \in Nat
        /\ \A i \in 1 .. Len(r) + Len(e) : (r \o e)[i] = IF i <= Len(r) THEN r[i] ELSE e[i - Len(r)]
    BY <2>1, <2>2
  <2> QED
    BY <1>7, <2>3
<1>9. ASSUME j = n PROVE w = e
  <2>1. r = <<>>
    <3>1. Len(r) = 0
      BY <1>2, <1>6, <1>9
    <3> QED
      BY <1>6, <3>1, EmptySeq
  <2> QED
    BY <1>4, <1>7, <2>1, ConcatEmptySeq
<1>10. ASSUME j # n
       PROVE  /\ j + 1 \in 1 .. n /\ w # <<>> /\ w[1] = <<"req", j + 1>>
              /\ SubSeq(w, 1 + 1, Len(w)) = SubSeq(q, (j + 1) + 1, n) \o e
  <2>1. /\ j + 1 \in 1 .. n /\ 1 \in 1 .. n - j /\ 1 \in 0 .. Len(r) /\ 1 \in 1 .. Len(r) + Len(e)
        /\ 1 <= Len(r) /\ Len(w) # 0 /\ 1 \in 0 .. Len(q) - j /\ j \in 0 .. Len(q)
    BY <1>2, <1>5, <1>6, <1>8, <1>10, SMTT(30)
  <2>2. w[1] = <<"req", j + 1>>
    BY <1>2, <1>6, <1>8, <2>1
  <2>3. w # <<>>
    BY <1>8, <2>1, EmptySeq
  <2>4. SubSeq(r, 1 + 1, Len(r)) \o e = SubSeq(r \o e, 1 + 1, Len(r \o e))
    BY <1>4, <1>6, <2>1, DropOfConcat
  <2>5. SubSeq(SubSeq(q, j + 1, Len(q)), 1 + 1, Len(q) - j) = SubSeq(q, (j + 1) + 1, Len(q))
    BY <1>2, <2>1, DropTwice
  <2> QED
    BY <1>1, <1>2, <1>6, <1>7, <2>1, <2>2, <2>3, <2>4, <2>5
<1> QED
  BY <1>1, <1>4, <1>8, <1>9, <1>10

-----------------------------------------------------------------------------
LEMMA StepPeek ==
  ASSUME IInv, Peek
  PROVE  IInv'
<1>1. /\ UNCHANGED <<client, inbox, todo, closed, read_buf, nmethods, said, via, swallowed, relayed>>
      /\ at = "listen" /\ client.kind # "doko" /\ (inbox # <<>> \/ closed)
      /\ at' = IF inbox # <<>> /\ inbox[1] = <<"b", 5>> THEN "header" ELSE "http"
  BY DEF Peek, clientVars
<1>2. PICK x \in Cases : client = x[2]
  BY DEF IInv, UnitsInv
<1>3. /\ ~swallowed /\ Left = FirstWords /\ read_buf = <<>> /\ relayed = <<>>
      /\ (client.kind = "socks" => said = <<>>)
  BY <1>1 DEF IInv, ScriptInv, OffScript, OnScript
<1>4. /\ Left' = Left /\ FirstWords' = FirstWords /\ Requests' = Requests /\ Data' = Data
      /\ Eagerly(Data)' = Eagerly(Data)
  BY <1>1, PartsSame DEF Left, Eagerly
<1>5. UnitsInv'
  <2>1. at' # "methods"
    BY <1>1
  <2> QED
    BY <1>1, <2>1 DEF IInv, UnitsInv
<1>6. MethodWasOffered'
  BY <1>1, Offered
<1>7. inbox # <<>> => inbox[1] = Left[1] /\ Left # <<>>
  <2>1. inbox \in Seq(Units) /\ todo \in Seq(Units)
    BY DEF IInv, UnitsInv
  <2>2. inbox # <<>> => 1 \in 1 .. Len(inbox)
    BY <2>1, EmptySeq
  <2>3. /\ Left \in Seq(Units)
        /\ \A i \in 1 .. Len(inbox) : i \in 1 .. Len(Left) /\ inbox[i] = Left[i]
    BY <2>1, FirstLeft
  <2>4. inbox # <<>> => inbox[1] = Left[1] /\ 1 \in 1 .. Len(Left)
    BY <2>2, <2>3
  <2>5. Len(<<>>) = 0 /\ ~(1 \in 1 .. 0)
    OBVIOUS
  <2> QED
    BY <2>4, <2>5
<1>8. CASE client.kind = "socks"
  <2>1. Left[1] = <<"b", 5>>
    BY <1>2, <1>3, <1>8, HelloFirst
  <2>2. CASE inbox # <<>>
    <3>1. at' = "header"
      BY <1>1, <1>7, <2>1, <2>2
    <3>2. OnScript'
      BY <1>1, <1>3, <1>4, <3>1 DEF OnScript
    <3> QED
      BY <1>1, <1>3, <1>5, <1>6, <1>8, <3>1, <3>2 DEF IInv, ScriptInv
  <2>3. CASE inbox = <<>>
    <3>1. at' = "http" /\ inbox' = <<>> /\ closed'
      BY <1>1, <2>3
    <3>2. OnScript'
      BY <3>1 DEF OnScript
    <3> QED
      BY <1>1, <1>3, <1>5, <1>6, <1>8, <3>1, <3>2 DEF IInv, ScriptInv
  <2> QED
    BY <2>2, <2>3
<1>9. CASE client.kind = "http"
  <2>1. 0 \in 0 .. Len(client.reqs) /\ Len(Requests) = Len(client.reqs) /\ Requests \in Seq(Units)
    BY <1>2, <1>9, Client, RequestsWords
  <2>2. SubSeq(Requests, 0 + 1, Len(client.reqs)) = Requests
    BY <2>1, SubSeqFull
  <2>3. Left = SubSeq(Requests, 0 + 1, Len(client.reqs)) \o Eagerly(Data)
    BY <1>3, <1>9, <2>2 DEF FirstWords
  <2>4. PICK w : w = Left
    OBVIOUS
  <2>5. w # <<>> => w[1] = <<"data", 1>> \/ \E k : w[1] = <<"req", k>>
    BY <1>2, <1>9, <2>1, <2>3, <2>4, HttpWords
  <2>6. at' = "http"
    BY <1>1, <1>7, <2>4, <2>5
  <2>7. RequestsLeft'
    BY <1>1, <1>4, <1>9, <2>1, <2>3 DEF RequestsLeft
  <2>8. OnScript'
    BY <2>6 DEF OnScript
  <2> QED
    BY <1>1, <1>3, <1>5, <1>6, <1>9, <2>6, <2>7, <2>8 DEF IInv, ScriptInv
<1>10. client.kind \in {"socks", "http"}
  BY <1>1, <1>2, Client
<1> QED
  BY <1>8, <1>9, <1>10

LEMMA StepDokodemo ==
  ASSUME IInv, Dokodemo
  PROVE  IInv'
<1>1. /\ UNCHANGED <<client, inbox, todo, closed, read_buf, nmethods, said, swallowed, relayed>>
      /\ at = "listen" /\ client.kind = "doko" /\ via' = "doko"
      /\ at' \in {"relay", "failed", "route"}
  BY DEF Dokodemo, clientVars
<1>2. Left = Data /\ relayed = <<>> /\ ~swallowed
  BY <1>1 DEF IInv, ScriptInv, OnScript, OffScript, FirstWords
<1>3. Left' = Left /\ Data' = Data
  BY <1>1, PartsSame DEF Left
<1>4. UnitsInv' /\ MethodWasOffered'
  BY <1>1, Offered DEF IInv, UnitsInv
<1>5. OnScript'
  BY <1>1 DEF OnScript
<1>6. <<>> \o Data = Data
  <2>1. PICK x \in Cases : client = x[2]
    BY DEF IInv, UnitsInv
  <2>2. Data \in Seq(Units)
    BY <2>1, Words
  <2> QED
    BY <2>2, ConcatEmptySeq
<1>7. CASE at' = "failed"
  BY <1>1, <1>4, <1>7, Ended DEF IInv
<1>8. CASE at' = "relay"
  <2>1. relayed' \o Left' = Data'
    BY <1>1, <1>2, <1>3, <1>6
  <2> QED
    BY <1>1, <1>2, <1>4, <1>5, <1>8, <2>1 DEF IInv, ScriptInv
<1>9. CASE at' = "route"
  BY <1>1, <1>2, <1>3, <1>4, <1>5, <1>9 DEF IInv, ScriptInv
<1> QED
  BY <1>1, <1>7, <1>8, <1>9

LEMMA StepHeader ==
  ASSUME IInv, Header
  PROVE  IInv'
<1>1. /\ UNCHANGED <<client, todo, closed, read_buf, said, via, swallowed, relayed>>
      /\ at = "header" /\ at' = "methods" /\ Take(2) /\ nmethods' = inbox[2][2]
  BY DEF Header
<1>2. PICK x \in Cases : client = x[2]
  BY DEF IInv, UnitsInv
<1>3. /\ ~swallowed /\ Left = FirstWords /\ read_buf = <<>> /\ relayed = <<>>
      /\ client.kind = "socks" /\ said = <<>>
  BY <1>1 DEF IInv, ScriptInv, OffScript, OnScript
<1>4. inbox \in Seq(Units) /\ todo \in Seq(Units) /\ 2 \in Nat
  BY DEF IInv, UnitsInv
<1>5. /\ inbox' \in Seq(Units) /\ inbox' \o todo = SubSeq(Left, 2 + 1, Len(Left))
      /\ \A i \in 1 .. Len(inbox) : inbox[i] = Left[i]
  BY <1>1, <1>4, Taken
<1>6. /\ Methods \o Eagerly(AfterHello) \in Seq(Units) /\ Left[2] = <<"b", Len(client.methods)>>
      /\ inbox' \o todo = Methods \o Eagerly(AfterHello)
  BY <1>2, <1>3, <1>5, HelloFirst
<1>7. Len(client.methods) \in Nat
  BY <1>2, <1>3, HelloWords
<1>8. nmethods' = Len(client.methods)
  <2>1. 2 \in 1 .. Len(inbox)
    BY <1>1, <1>4, LenProperties DEF Take
  <2> QED
    BY <1>1, <1>5, <1>6, <2>1
<1>9. /\ Methods' = Methods /\ AfterHello' = AfterHello /\ Left' = inbox' \o todo
      /\ Eagerly(AfterHello)' = Eagerly(AfterHello)
  BY <1>1, PartsSame DEF Left, Eagerly
<1>10. <<>> \o (Methods \o Eagerly(AfterHello)) = Methods \o Eagerly(AfterHello)
  BY <1>6, ConcatEmptySeq
<1>11. read_buf' = <<>> /\ Len(<<>>) = 0 /\ <<>> \in Seq(Units)
  BY <1>1, <1>3
<1>12. UnitsInv'
  BY <1>1, <1>5, <1>7, <1>8, <1>11 DEF IInv, UnitsInv
<1>13. MethodWasOffered'
  BY <1>1, Offered
<1>14. read_buf' \o Left' = Methods' \o Eagerly(AfterHello)'
  BY <1>6, <1>9, <1>10, <1>11
<1>15. Len(read_buf') <= nmethods'
  BY <1>7, <1>8, <1>11
<1>16. OnScript'
  BY <1>1, <1>8, <1>14, <1>15 DEF OnScript
<1> QED
  BY <1>1, <1>3, <1>12, <1>13, <1>16 DEF IInv, ScriptInv

LEMMA StepReadMethods ==
  ASSUME IInv, NEW k \in 1 .. Len(inbox), ReadMethods(k)
  PROVE  IInv'
<1>1. /\ UNCHANGED <<client, todo, closed, nmethods, said, via, relayed>>
      /\ at = "methods" /\ at' = "methods" /\ Take(k)
      /\ read_buf' = read_buf \o SubSeq(inbox, 1, k)
  BY DEF ReadMethods
<1>2. swallowed' <=> (swallowed \/ Len(read_buf) + k > nmethods)
  BY Zenon DEF ReadMethods
<1>3. PICK x \in Cases : client = x[2]
  BY DEF IInv, UnitsInv
<1>4. client.kind = "socks" /\ said = <<>> /\ relayed = <<>>
  BY <1>1 DEF IInv, ScriptInv
<1>5. /\ inbox \in Seq(Units) /\ todo \in Seq(Units) /\ read_buf \in Seq(Units) /\ nmethods \in Nat
  BY <1>1 DEF IInv, UnitsInv
<1>6. Len(inbox) \in Nat /\ Len(read_buf) \in Nat
  BY <1>5, LenProperties
<1>7. k \in Nat /\ k \in 0 .. Len(inbox)
  BY <1>6
<1>8. PICK rb, box, td, f, g : /\ rb = read_buf /\ box = inbox /\ td = todo
                               /\ f = SubSeq(box, 1, k) /\ g = SubSeq(box, k + 1, Len(box))
  OBVIOUS
<1>9. /\ rb \in Seq(Units) /\ box \in Seq(Units) /\ td \in Seq(Units) /\ k \in 0 .. Len(box)
  BY <1>5, <1>7, <1>8
<1>10. /\ rb \o f \in Seq(Units) /\ Len(rb \o f) = Len(rb) + k
       /\ (rb \o f) \o (g \o td) = rb \o (box \o td)
  <2>1. f = SubSeq(box, 1, k) /\ g = SubSeq(box, k + 1, Len(box))
    BY <1>8
  <2>2. /\ rb \o SubSeq(box, 1, k) \in Seq(Units) /\ SubSeq(box, k + 1, Len(box)) \in Seq(Units)
        /\ Len(rb \o SubSeq(box, 1, k)) = Len(rb) + k
        /\ (rb \o SubSeq(box, 1, k)) \o SubSeq(box, k + 1, Len(box)) = rb \o box
        /\ \A u \in Seq(Units) :
             (rb \o SubSeq(box, 1, k)) \o (SubSeq(box, k + 1, Len(box)) \o u) = rb \o (box \o u)
    BY <1>9, Move, ZenonT(40)
  <2>3. (rb \o SubSeq(box, 1, k)) \o (SubSeq(box, k + 1, Len(box)) \o td) = rb \o (box \o td)
    BY <1>9, <2>2, Zenon
  <2> QED
    BY <2>1, <2>2, <2>3, Zenon
<1>11. /\ read_buf' = rb \o f /\ inbox' = g /\ Left' = g \o td /\ Left = box \o td
  BY <1>1, <1>8 DEF Take, Left
<1>12. read_buf' \in Seq(Units) /\ Len(read_buf') = Len(read_buf) + k /\ read_buf' \o Left' = read_buf \o Left
  BY <1>8, <1>10, <1>11, Zenon
<1>13. /\ inbox' \in Seq(Units) /\ Left \in Seq(Units) /\ k \in 0 .. Len(Left)
       /\ inbox' \o todo = SubSeq(Left, k + 1, Len(Left))
  BY <1>1, <1>5, <1>7, Taken
<1>14. Left' = SubSeq(Left, k + 1, Len(Left)) /\ Left' \in Seq(Units)
  <2>1. Left' = inbox' \o todo
    BY <1>1 DEF Left
  <2> QED
    BY <1>13, <2>1, Drop
<1>15. /\ Methods' = Methods /\ AfterHello' = AfterHello /\ Eagerly(AfterHello)' = Eagerly(AfterHello)
  BY <1>1, PartsSame DEF Eagerly
<1>16. AfterHello \in Seq(Units) /\ Methods \in Seq(Units) /\ Len(Methods) = Len(client.methods)
       /\ Len(client.methods) \in Nat
  BY <1>3, <1>4, Words, HelloWords
<1>17. UnitsInv'
  BY <1>1, <1>5, <1>12, <1>13 DEF IInv, UnitsInv
<1>18. MethodWasOffered'
  BY <1>1, <1>2, Offered
<1>19. (IF swallowed' THEN OffScript' ELSE OnScript') => ScriptInv'
  BY <1>1, <1>4 DEF ScriptInv
<1>20. CASE swallowed
  <2>1. OffScript
    BY <1>20 DEF IInv, ScriptInv
  <2>2. PICK j \in 0 .. Len(AfterHello) : Left = SubSeq(AfterHello, j + 1, Len(AfterHello))
    BY <1>1, <2>1 DEF OffScript, Ending
  <2>3. PICK r, a : r = AfterHello /\ a = Left
    OBVIOUS
  <2>4. j + k \in 0 .. Len(r) /\ SubSeq(a, k + 1, Len(a)) = SubSeq(r, (j + k) + 1, Len(r))
    <3>1. r \in Seq(Units) /\ j \in 0 .. Len(r) /\ a = SubSeq(r, j + 1, Len(r)) /\ k \in 0 .. Len(a)
      BY <1>13, <1>16, <2>2, <2>3
    <3> QED
      BY <3>1, SuffixStep
  <2>5. OffScript'
    BY <1>1, <1>14, <1>15, <2>1, <2>3, <2>4 DEF OffScript, Ending
  <2> QED
    BY <1>2, <1>17, <1>18, <1>19, <1>20, <2>5 DEF IInv
<1>21. CASE ~swallowed
  <2>1. /\ nmethods = Len(client.methods) /\ Len(read_buf) <= nmethods
        /\ read_buf \o Left = Methods \o Eagerly(AfterHello)
    BY <1>1, <1>21 DEF IInv, ScriptInv, OnScript
  <2>2. read_buf' \o Left' = Methods \o Eagerly(AfterHello)
    BY <1>12, <2>1, Zenon
  <2>3. CASE ~(Len(read_buf) + k > nmethods)
    <3>1. ~swallowed'
      BY <1>2, <1>21, <2>3
    <3>2. Len(read_buf') <= nmethods'
      BY <1>1, <1>5, <1>6, <1>7, <1>12, <2>3
    <3>3. OnScript'
      BY <1>1, <1>15, <2>1, <2>2, <3>2 DEF OnScript
    <3> QED
      BY <1>17, <1>18, <1>19, <3>1, <3>3 DEF IInv
  <2>4. CASE Len(read_buf) + k > nmethods
    <3>1. Eagerly(AfterHello) \in Seq(Units)
      BY <1>3, <1>4, HelloFirst
    <3>2. PICK a, b, c, d : a = read_buf' /\ b = Left' /\ c = Methods /\ d = Eagerly(AfterHello)
      OBVIOUS
    <3>3. /\ a \in Seq(Units) /\ b \in Seq(Units) /\ c \in Seq(Units) /\ d \in Seq(Units)
      BY <1>12, <1>14, <1>16, <3>1, <3>2
    <3>4. a \o b = c \o d
      BY <2>2, <3>2
    <3>5. Len(c) < Len(a) /\ Len(c) <= Len(a) /\ Len(c) \in Nat /\ Len(a) \in Nat
      BY <1>5, <1>6, <1>7, <1>12, <1>16, <2>1, <2>4, <3>2
    <3>6. EndOf(b, d)
      <4>1. Len(c) <= Len(a)
        BY <3>5
      <4> QED
        BY <3>3, <3>4, <4>1, Ends, Zenon
    <3>7. client.eager
      <4>1. /\ Len(a \o b) = Len(a) + Len(b) /\ Len(c \o d) = Len(c) + Len(d)
            /\ Len(b) \in Nat /\ Len(d) \in Nat
        BY <3>3, ConcatProperties, LenProperties
      <4>2. Len(d) > 0
        BY <3>4, <3>5, <4>1
      <4>3. Len(<<>>) = 0
        OBVIOUS
      <4> QED
        BY <3>2, <4>2, <4>3 DEF Eagerly
    <3>8. d = AfterHello
      BY <3>2, <3>7 DEF Eagerly
    <3>9. OffScript'
      BY <1>1, <1>4, <1>15, <3>2, <3>6, <3>7, <3>8 DEF OffScript, Ending, EndOf
    <3> QED
      BY <1>2, <1>17, <1>18, <1>19, <2>4, <3>9 DEF IInv
  <2> QED
    BY <2>3, <2>4
<1> QED
  BY <1>20, <1>21

LEMMA StepRequestFails ==
  ASSUME IInv, RequestFails
  PROVE  IInv'
<1>1. /\ UNCHANGED <<client, inbox, todo, closed, read_buf, nmethods, said, via, swallowed, relayed>>
      /\ at = "request" /\ at' = "failed"
  BY DEF RequestFails, clientVars
<1>2. UnitsInv' /\ MethodWasOffered'
  BY <1>1, Offered DEF IInv, UnitsInv
<1> QED
  BY <1>1, <1>2, Ended DEF IInv

LEMMA StepReadFails ==
  ASSUME IInv, ReadFails
  PROVE  IInv'
<1>1. /\ UNCHANGED <<client, inbox, todo, closed, read_buf, nmethods, said, via, swallowed, relayed>>
      /\ Short /\ at' = "failed"
  BY DEF ReadFails, clientVars
<1>2. at # "relay"
  BY <1>1 DEF Short
<1>3. UnitsInv' /\ MethodWasOffered'
  BY <1>1, Offered DEF IInv, UnitsInv
<1> QED
  BY <1>1, <1>2, <1>3, Ended DEF IInv

LEMMA StepHttpEnds ==
  ASSUME IInv, HttpEnds
  PROVE  IInv'
<1>1. /\ UNCHANGED <<client, inbox, todo, closed, read_buf, nmethods, said, via, swallowed, relayed>>
      /\ at = "http" /\ at' \in {"done", "failed"}
  BY DEF HttpEnds, clientVars
<1>2. UnitsInv' /\ MethodWasOffered'
  BY <1>1, Offered DEF IInv, UnitsInv
<1> QED
  BY <1>1, <1>2, Ended DEF IInv

LEMMA StepRoute ==
  ASSUME IInv, Route
  PROVE  IInv'
<1>1. /\ UNCHANGED <<client, inbox, todo, closed, read_buf, nmethods, said, via, swallowed, relayed>>
      /\ at = "route" /\ at' \in {"build", "panicked"}
  BY DEF Route, clientVars
<1>2. UnitsInv' /\ MethodWasOffered'
  BY <1>1, Offered DEF IInv, UnitsInv
<1>3. CASE at' = "panicked"
  BY <1>1, <1>2, <1>3, Ended DEF IInv
<1>4. CASE at' = "build"
  <2>1. /\ Left' = Left /\ Data' = Data /\ Requests' = Requests /\ Eagerly(Data)' = Eagerly(Data)
    BY <1>1, PartsSame DEF Left, Eagerly
  <2>2. RequestsLeft => RequestsLeft'
    BY <1>1, <2>1 DEF RequestsLeft
  <2>3. IF swallowed' THEN OffScript' ELSE OnScript'
    <3>1. AfterHello' = AfterHello
      BY <1>1, PartsSame
    <3> QED
      BY <1>1, <1>4, <2>1, <3>1 DEF IInv, ScriptInv, OffScript, OnScript, Ending
  <2> QED
    BY <1>1, <1>2, <1>4, <2>1, <2>2, <2>3 DEF IInv, ScriptInv
<1> QED
  BY <1>1, <1>3, <1>4

(* What was offered is what was read. *)
LEMMA OfferRead ==
  ASSUME NEW x \in Cases, client = x[2], client.kind = "socks", NEW m
  PROVE  Contains(Methods, <<"b", m>>) <=> Contains(client.methods, m)
<1>1. PICK c : c = client.methods
  OBVIOUS
<1>2. /\ Len(Methods) = Len(c) /\ \A i \in 1 .. Len(c) : Methods[i] = <<"b", c[i]>>
  BY <1>1, HelloWords
<1>3. \A i \in 1 .. Len(c) : Methods[i] = <<"b", m>> <=> c[i] = m
  BY <1>2
<1> QED
  BY <1>1, <1>2, <1>3 DEF Contains

LEMMA NotOffered ==
  ASSUME NEW x \in Cases, client = x[2], client.kind = "socks",
         ~Contains(client.methods, 0), ~Contains(client.methods, 2)
  PROVE  {0, 2} \cap ToSet(client.methods) = {}
<1>1. PICK c : c = client.methods
  OBVIOUS
<1>2. c \in Seq(Nat)
  BY <1>1, Client
<1>3. DOMAIN c = 1 .. Len(c)
  BY <1>2, LenProperties
<1>4. \A i \in 1 .. Len(c) : c[i] # 0 /\ c[i] # 2
  BY <1>1 DEF Contains
<1>5. \A y \in ToSet(c) : \E i \in 1 .. Len(c) : y = c[i]
  BY <1>3 DEF ToSet
<1>6. 0 \notin ToSet(c) /\ 2 \notin ToSet(c)
  BY <1>4, <1>5
<1> QED
  BY <1>1, <1>6

LEMMA StepChooseMethod ==
  ASSUME IInv, ChooseMethod
  PROVE  IInv'
<1>1. /\ UNCHANGED <<client, inbox, closed, read_buf, nmethods, via, swallowed, relayed>>
      /\ at = "methods" /\ Len(read_buf) >= nmethods
  BY DEF ChooseMethod
<1>3. PICK x \in Cases : client = x[2]
  BY DEF IInv, UnitsInv
<1>4. client.kind = "socks" /\ said = <<>> /\ relayed = <<>>
  BY <1>1 DEF IInv, ScriptInv
<1>5. /\ inbox \in Seq(Units) /\ todo \in Seq(Units) /\ read_buf \in Seq(Units) /\ nmethods \in Nat
      /\ relayed \in Seq(Units) /\ said \in Seq(Answers)
  BY <1>1 DEF IInv, UnitsInv
<1>6. /\ Login \in Seq(Units) /\ Request \in Seq(Units) /\ <<>> \in Seq(Units) /\ Data \in Seq(Units)
      /\ Request \o Data \in Seq(Units) /\ Methods \in Seq(Units) /\ AfterHello \in Seq(Units)
  BY <1>3, <1>4, Words
<1>7. "user_pass" \in Answers /\ "no_auth" \in Answers /\ "no_methods" \in Answers
  BY DEF Answers
<1>8. \/ at' = "failed" /\ said' = said /\ todo' = todo
      \/ /\ todo' \in Seq(Units) /\ said' \in Seq(Answers) /\ said' # <<>>
         /\ client.eager => todo' = todo
         /\ \/ /\ MayHold(2) /\ said'[1] = "user_pass" /\ at' = "login"
               /\ ~client.eager => inbox \o todo' = (inbox \o todo) \o Login
            \/ /\ ~Holds(2) /\ MayHold(0)
               /\ said'[1] = "no_auth" /\ at' = "request"
               /\ ~client.eager => inbox \o todo' = (inbox \o todo) \o Request
            \/ /\ ~Holds(2) /\ ~Holds(0)
               /\ said'[1] = "no_methods" /\ at' = "failed"
  <2>1. CASE MayHold(2) /\ Answer("user_pass", "login", Login)
    <3>1. \/ at' = "failed" /\ said' = said /\ todo' = todo
          \/ /\ at' = "login" /\ todo' \in Seq(Units)
             /\ said' \in Seq(Answers) /\ said' # <<>> /\ said'[1] = "user_pass"
             /\ client.eager => todo' = todo
             /\ ~client.eager => inbox \o todo' = (inbox \o todo) \o Login
      BY <1>4, <1>5, <1>6, <1>7, <2>1, Answered
    <3> QED
      BY <2>1, <3>1
  <2>2. CASE /\ ~Holds(2) /\ MayHold(0)
             /\ Answer("no_auth", "request", Request)
    <3>1. \/ at' = "failed" /\ said' = said /\ todo' = todo
          \/ /\ at' = "request" /\ todo' \in Seq(Units)
             /\ said' \in Seq(Answers) /\ said' # <<>> /\ said'[1] = "no_auth"
             /\ client.eager => todo' = todo
             /\ ~client.eager => inbox \o todo' = (inbox \o todo) \o Request
      BY <1>4, <1>5, <1>6, <1>7, <2>2, Answered
    <3> QED
      BY <2>2, <3>1
  <2>3. CASE /\ ~Holds(2) /\ ~Holds(0)
             /\ Answer("no_methods", "failed", <<>>)
    <3>1. \/ at' = "failed" /\ said' = said /\ todo' = todo
          \/ /\ at' = "failed" /\ todo' \in Seq(Units)
             /\ said' \in Seq(Answers) /\ said' # <<>> /\ said'[1] = "no_methods"
             /\ client.eager => todo' = todo
      BY <1>4, <1>5, <1>6, <1>7, <2>3, Answered
    <3> QED
      BY <2>3, <3>1
  <2> QED
    BY <2>1, <2>2, <2>3 DEF ChooseMethod
<1>9. at' \in {"failed", "login", "request"} /\ (at' # "failed" => said' # <<>>)
  BY <1>8
<1>10. UnitsInv'
  BY <1>1, <1>5, <1>8, <1>9 DEF IInv, UnitsInv
<1>11. (IF swallowed' THEN OffScript' ELSE OnScript') => ScriptInv'
  BY <1>1, <1>4, <1>9 DEF ScriptInv
<1>12. Left' = inbox \o todo' /\ Left = inbox \o todo
  BY <1>1 DEF Left
<1>13. /\ AfterHello' = AfterHello /\ Login' = Login /\ Request' = Request /\ Data' = Data
       /\ Eagerly(Request \o Data)' = Eagerly(Request \o Data) /\ Eagerly(Data)' = Eagerly(Data)
  BY <1>1, PartsSame DEF Eagerly
<1>14. CASE swallowed
  <2>1. OffScript
    BY <1>14 DEF IInv, ScriptInv
  <2>2. Left' = Left
    BY <1>8, <1>12, <2>1 DEF OffScript
  <2>3. OffScript'
    BY <1>1, <1>9, <1>13, <2>1, <2>2 DEF OffScript, Ending
  <2>4. MethodWasOffered'
    BY <1>1, <1>14 DEF MethodWasOffered
  <2> QED
    BY <1>1, <1>10, <1>11, <1>14, <2>3, <2>4 DEF IInv
<1>15. CASE ~swallowed
  <2>1. /\ nmethods = Len(client.methods) /\ Len(read_buf) <= nmethods
        /\ read_buf \o Left = Methods \o Eagerly(AfterHello)
    BY <1>1, <1>15 DEF IInv, ScriptInv, OnScript
  <2>2. Len(read_buf) = Len(Methods)
    <3>1. Len(Methods) = Len(client.methods)
      BY <1>3, <1>4, HelloWords
    <3>2. Len(read_buf) \in Nat
      BY <1>5, LenProperties
    <3> QED
      BY <1>1, <1>5, <2>1, <3>1, <3>2
  <2>3. read_buf = Methods /\ Left = Eagerly(AfterHello)
    <3>1. PICK a, b, c, d : a = read_buf /\ b = Left /\ c = Methods /\ d = Eagerly(AfterHello)
      OBVIOUS
    <3>2. Left \in Seq(Units) /\ Eagerly(AfterHello) \in Seq(Units)
      BY <1>3, <1>4, <1>5, FirstLeft, HelloFirst
    <3>3. /\ a \in Seq(Units) /\ b \in Seq(Units) /\ c \in Seq(Units) /\ d \in Seq(Units)
      BY <1>5, <1>6, <3>1, <3>2
    <3>4. a \o b = c \o d /\ Len(c) = Len(a)
      BY <2>1, <2>2, <3>1
    <3>5. a = c /\ b = d
      BY <3>3, <3>4, SameParts
    <3> QED
      BY <3>1, <3>5
  <2>4. /\ Holds(2) <=> Contains(client.methods, 2)
        /\ Holds(0) <=> Contains(client.methods, 0)
        /\ MayHold(2) <=> Contains(client.methods, 2)
        /\ MayHold(0) <=> Contains(client.methods, 0)
    <3>1. \A i \in DOMAIN Methods : Methods[i][1] = "b"
      BY DEF Methods
    <3>2. /\ Contains(read_buf, <<"b", 2>>) <=> Contains(client.methods, 2)
          /\ Contains(read_buf, <<"b", 0>>) <=> Contains(client.methods, 0)
      BY <1>3, <1>4, <2>3, OfferRead
    <3>3. ~\E i \in DOMAIN read_buf : read_buf[i][1] # "b"
      BY <2>3, <3>1
    <3> QED
      BY <3>2, <3>3, Zenon DEF Holds, MayHold
  <2>5. MethodWasOffered'
    <3>1. CASE at' = "failed" /\ said' = said /\ todo' = todo
      BY <1>1, <3>1, Offered
    <3>2. CASE ~(at' = "failed" /\ said' = said /\ todo' = todo)
      <4>1. \/ said'[1] = "user_pass" /\ Contains(client.methods, 2)
            \/ said'[1] = "no_auth" /\ Contains(client.methods, 0) /\ ~Contains(client.methods, 2)
            \/ said'[1] = "no_methods" /\ {0, 2} \cap ToSet(client.methods) = {}
        BY <1>3, <1>4, <1>8, <2>4, <3>2, NotOffered
      <4> QED
        BY <1>1, <3>2, <4>1 DEF MethodWasOffered
    <3> QED
      BY <3>1, <3>2
  <2>6. CASE at' = "failed"
    <3>1. OnScript'
      BY <2>6 DEF OnScript
    <3> QED
      BY <1>1, <1>10, <1>11, <1>15, <2>5, <3>1 DEF IInv
  <2>7. CASE at' = "login"
    <3>1. /\ Contains(client.methods, 2)
          /\ client.eager => todo' = todo
          /\ ~client.eager => inbox \o todo' = (inbox \o todo) \o Login
      BY <1>8, <2>4, <2>7
    <3>2. Left' = Login \o Eagerly(Request \o Data)
      <4>1. CASE client.eager
        <5>1. Left' = AfterHello
          BY <1>12, <2>3, <3>1, <4>1 DEF Eagerly
        <5>2. AfterHello = Login \o (Request \o Data)
          BY <3>1 DEF AfterHello
        <5> QED
          BY <4>1, <5>1, <5>2 DEF Eagerly
      <4>2. CASE ~client.eager
        <5>1. Left' = <<>> \o Login
          BY <1>12, <2>3, <3>1, <4>2 DEF Eagerly
        <5>2. <<>> \o Login = Login /\ Login \o <<>> = Login
          BY <1>6, ConcatEmptySeq
        <5> QED
          BY <4>2, <5>1, <5>2 DEF Eagerly
      <4> QED
        BY <4>1, <4>2
    <3>3. Left' = Login' \o Eagerly(Request \o Data)'
      BY <1>13, <3>2
    <3>4. OnScript'
      BY <1>1, <2>7, <3>1, <3>3 DEF OnScript
    <3> QED
      BY <1>1, <1>10, <1>11, <1>15, <2>5, <3>4 DEF IInv
  <2>8. CASE at' = "request"
    <3>1. /\ ~Contains(client.methods, 2)
          /\ client.eager => todo' = todo
          /\ ~client.eager => inbox \o todo' = (inbox \o todo) \o Request
      BY <1>8, <2>4, <2>8
    <3>2. Left' = Request \o Eagerly(Data)
      <4>1. CASE client.eager
        <5>1. Left' = AfterHello
          BY <1>12, <2>3, <3>1, <4>1 DEF Eagerly
        <5>2. AfterHello = <<>> \o (Request \o Data)
          BY <3>1 DEF AfterHello
        <5>3. <<>> \o (Request \o Data) = Request \o Data
          BY <1>6, ConcatEmptySeq
        <5> QED
          BY <4>1, <5>1, <5>2, <5>3 DEF Eagerly
      <4>2. CASE ~client.eager
        <5>1. Left' = <<>> \o Request
          BY <1>12, <2>3, <3>1, <4>2 DEF Eagerly
        <5>2. <<>> \o Request = Request /\ Request \o <<>> = Request
          BY <1>6, ConcatEmptySeq
        <5> QED
          BY <4>2, <5>1, <5>2 DEF Eagerly
      <4> QED
        BY <4>1, <4>2
    <3>3. Left' = Request' \o Eagerly(Data)'
      BY <1>13, <3>2
    <3>4. OnScript'
      BY <1>1, <2>8, <3>3 DEF OnScript
    <3> QED
      BY <1>1, <1>10, <1>11, <1>15, <2>5, <3>4 DEF IInv
  <2> QED
    BY <1>9, <2>6, <2>7, <2>8
<1> QED
  BY <1>14, <1>15

LEMMA ByteRead ==
  ASSUME inbox \in Seq(Units), NEW i \in Nat \ {0}, NEW u \in ByteAt(i)
  PROVE  /\ u \in Nat /\ i \in 1 .. Len(inbox)
         /\ \A n : inbox[i] = <<"b", n>> => u = n
<1>1. Len(inbox) \in Nat
  BY LenProperties
<1>2. i \in 1 .. Len(inbox)
  BY <1>1 DEF ByteAt
<1>3. inbox[i] \in Units
  BY <1>2, ElementOfSeq
<1>4. \A y \in Units : y[1] = "b" => y[2] \in Nat
  BY DEF Units
<1>5. IF inbox[i][1] = "b" THEN u = inbox[i][2] ELSE u \in 0 .. ByteBound
  BY <1>1, <1>2 DEF ByteAt
<1>6. 0 .. ByteBound \subseteq Nat
  BY DEF ByteBound
<1> QED
  BY <1>2, <1>3, <1>4, <1>5, <1>6

(* Bytes that are read of what is left after bytes were read as methods.   *)
LEMMA EndStep ==
  \A r \in Seq(Units) : \A a : EndOf(a, r) => \A n \in 0 .. Len(a) : EndOf(SubSeq(a, n + 1, Len(a)), r)
<1> TAKE r \in Seq(Units)
<1> TAKE a
<1> HAVE EndOf(a, r)
<1> TAKE n \in 0 .. Len(a)
<1>1. PICK j \in 0 .. Len(r) : a = SubSeq(r, j + 1, Len(r))
  BY DEF EndOf
<1>2. j + n \in 0 .. Len(r) /\ SubSeq(a, n + 1, Len(a)) = SubSeq(r, (j + n) + 1, Len(r))
  BY <1>1, SuffixStep
<1> QED
  BY <1>2 DEF EndOf

LEMMA TakenOff ==
  ASSUME IInv, NEW n \in Nat, Take(n), swallowed, at \in {"login", "request"}
  PROVE  EndOf(inbox' \o todo, AfterHello)
<1>1. PICK x \in Cases : client = x[2]
  BY DEF IInv, UnitsInv
<1>2. OffScript
  BY DEF IInv, ScriptInv
<1>3. AfterHello \in Seq(Units)
  BY <1>1, <1>2, Words DEF OffScript
<1>4. EndOf(Left, AfterHello)
  BY <1>2 DEF OffScript, Ending, EndOf
<1>5. inbox \in Seq(Units) /\ todo \in Seq(Units)
  BY DEF IInv, UnitsInv
<1>6. n \in 0 .. Len(Left) /\ inbox' \o todo = SubSeq(Left, n + 1, Len(Left))
  BY <1>5, Taken
<1>7. EndOf(SubSeq(Left, n + 1, Len(Left)), AfterHello)
  BY <1>3, <1>4, <1>6, EndStep, Zenon
<1> QED
  BY <1>6, <1>7, Zenon

LEMMA StepAuthenticate ==
  ASSUME IInv, Authenticate
  PROVE  IInv'
<1>1. /\ UNCHANGED <<client, closed, nmethods, via, swallowed, relayed>> /\ at = "login"
  BY DEF Authenticate
<1>2. PICK u \in ByteAt(2) : \E p \in ByteAt(3 + u) :
        /\ Take(3 + u + p)
        /\ IF read_buf' = <<>> THEN Answer("success", "request", Request)
           ELSE Answer("failure", "failed", <<>>)
  BY DEF Authenticate
<1>3. PICK p \in ByteAt(3 + u) :
        /\ Take(3 + u + p)
        /\ IF read_buf' = <<>> THEN Answer("success", "request", Request)
           ELSE Answer("failure", "failed", <<>>)
  BY <1>2
<1>4. PICK x \in Cases : client = x[2]
  BY DEF IInv, UnitsInv
<1>5. client.kind = "socks" /\ said # <<>> /\ relayed = <<>>
  BY <1>1 DEF IInv, ScriptInv
<1>6. /\ inbox \in Seq(Units) /\ todo \in Seq(Units) /\ relayed \in Seq(Units) /\ said \in Seq(Answers)
  BY DEF IInv, UnitsInv
<1>7. /\ u \in Nat /\ 2 \in 1 .. Len(inbox) /\ (\A n : inbox[2] = <<"b", n>> => u = n)
  <2>1. 2 \in Nat \ {0}
    OBVIOUS
  <2> QED
    BY <1>6, <2>1, ByteRead
<1>8. /\ p \in Nat /\ 3 + u \in 1 .. Len(inbox) /\ (\A n : inbox[3 + u] = <<"b", n>> => p = n)
  <2>1. 3 + u \in Nat \ {0}
    BY <1>7
  <2> QED
    BY <1>6, <2>1, ByteRead
<1>9. 3 + u + p \in Nat
  BY <1>7, <1>8
<1>10. /\ inbox' \in Seq(Units) /\ Left \in Seq(Units)
       /\ inbox' \o todo = SubSeq(Left, (3 + u + p) + 1, Len(Left))
       /\ \A i \in 1 .. Len(inbox) : inbox[i] = Left[i]
  BY <1>3, <1>6, <1>9, Taken
<1>11. /\ Login \in Seq(Units) /\ Request \in Seq(Units) /\ <<>> \in Seq(Units) /\ Data \in Seq(Units)
       /\ Request \o Data \in Seq(Units)
       /\ "success" \in Answers /\ "failure" \in Answers
  BY <1>4, <1>5, Words DEF Answers
<1>12. \/ at' = "failed" /\ said' = said /\ todo' = todo
       \/ /\ at' \in {"request", "failed"} /\ todo' \in Seq(Units)
          /\ said' \in Seq(Answers) /\ said' # <<>> /\ said'[1] = said[1]
          /\ client.eager => todo' = todo
          /\ ~client.eager /\ at' = "request" => inbox' \o todo' = (inbox' \o todo) \o Request
  <2>1. CASE Answer("success", "request", Request)
    <3>1. PICK box : box = inbox'
      OBVIOUS
    <3>2. box \in Seq(Units)
      BY <1>10, <3>1
    <3>3. \/ at' = "failed" /\ said' = said /\ todo' = todo
          \/ /\ at' = "request" /\ todo' \in Seq(Units)
             /\ said' \in Seq(Answers) /\ said' # <<>> /\ said'[1] = said[1]
             /\ client.eager => todo' = todo
             /\ ~client.eager => box \o todo' = (box \o todo) \o Request
      BY <1>5, <1>6, <1>11, <2>1, <3>2, Answered, ZenonT(40)
    <3> QED
      BY <3>1, <3>3
  <2>2. CASE Answer("failure", "failed", <<>>)
    <3>1. \/ at' = "failed" /\ said' = said /\ todo' = todo
          \/ /\ at' = "failed" /\ todo' \in Seq(Units)
             /\ said' \in Seq(Answers) /\ said' # <<>> /\ said'[1] = said[1]
             /\ client.eager => todo' = todo
      BY <1>5, <1>6, <1>11, <2>2, Answered
    <3> QED
      BY <3>1
  <2> QED
    BY <1>3, <2>1, <2>2
<1>13. UnitsInv'
  BY <1>1, <1>6, <1>10, <1>12 DEF IInv, UnitsInv
<1>14. MethodWasOffered'
  BY <1>1, <1>5, <1>12, Offered
<1>15. CASE at' = "failed"
  BY <1>1, <1>13, <1>14, <1>15, Ended DEF IInv
<1>16. CASE at' # "failed"
  <2>1. /\ at' = "request" /\ said' # <<>>
        /\ client.eager => todo' = todo
        /\ ~client.eager => inbox' \o todo' = (inbox' \o todo) \o Request
    BY <1>12, <1>16
  <2>2. (IF swallowed' THEN OffScript' ELSE OnScript') => ScriptInv'
    BY <1>1, <1>5, <2>1 DEF ScriptInv
  <2>3. Left' = inbox' \o todo'
    BY DEF Left
  <2>4. /\ AfterHello' = AfterHello /\ Request' = Request /\ Data' = Data /\ Eagerly(Data)' = Eagerly(Data)
    BY <1>1, PartsSame DEF Eagerly
  <2>5. CASE swallowed
    <3>1. EndOf(inbox' \o todo, AfterHello) /\ client.eager
      <4>1. EndOf(inbox' \o todo, AfterHello)
        BY <1>1, <1>3, <1>9, <2>5, TakenOff
      <4> QED
        BY <2>5, <4>1 DEF IInv, ScriptInv, OffScript
    <3>2. Left' = inbox' \o todo
      BY <2>1, <2>3, <3>1
    <3>3. OffScript'
      BY <1>1, <1>5, <2>1, <2>4, <3>1, <3>2 DEF OffScript, Ending, EndOf
    <3> QED
      BY <1>1, <1>13, <1>14, <2>2, <2>5, <3>3 DEF IInv
  <2>6. CASE ~swallowed
    <3>1. PICK l, e, w : l = Login /\ e = Eagerly(Request \o Data) /\ w = Left
      OBVIOUS
    <3>2. w = l \o e
      BY <1>1, <2>6, <3>1 DEF IInv, ScriptInv, OnScript
    <3>3. l \in Seq(Units) /\ e \in Seq(Units)
      BY <1>11, <3>1 DEF Eagerly
    <3>4. /\ Len(w) = Len(l) + Len(e) /\ Len(e) \in Nat /\ Len(l) \in Nat
          /\ \A i \in 1 .. Len(l) + Len(e) : w[i] = IF i <= Len(l) THEN l[i] ELSE e[i - Len(l)]
      BY <3>2, <3>3, ConcatProperties, LenProperties
    <3>5. PICK cu, cp : cu = client.user /\ cp = client.pass
      OBVIOUS
    <3>6. /\ cu \in Nat /\ cp \in Nat /\ Len(l) = 3 + cu + cp
          /\ l[2] = <<"b", cu>> /\ l[3 + cu] = <<"b", cp>>
      BY <1>4, <1>5, <3>1, <3>5, LoginWords, Client
    <3>7. \A i \in 1 .. Len(l) : w[i] = l[i]
      BY <3>4
    <3>8. 2 \in 1 .. Len(l) /\ 3 + cu \in 1 .. Len(l)
      BY <3>6
    <3>9. u = cu
      <4>1. inbox[2] = <<"b", cu>>
        BY <1>7, <1>10, <3>1, <3>6, <3>7, <3>8
      <4> QED
        BY <1>7, <4>1
    <3>10. p = cp
      <4>1. inbox[3 + u] = <<"b", cp>>
        BY <1>8, <1>10, <3>1, <3>6, <3>7, <3>8, <3>9
      <4> QED
        BY <1>8, <4>1
    <3>11. SubSeq(l \o e, Len(l) + 1, Len(l \o e)) = e
      BY <3>3, DropAll
    <3>12. inbox' \o todo = e
      BY <1>10, <3>1, <3>2, <3>6, <3>9, <3>10, <3>11
    <3>13. Left' = Request \o Eagerly(Data)
      <4>1. CASE client.eager
        BY <2>1, <2>3, <3>1, <3>12, <4>1 DEF Eagerly
      <4>2. CASE ~client.eager
        <5>1. Left' = <<>> \o Request
          BY <2>1, <2>3, <3>1, <3>12, <4>2 DEF Eagerly
        <5>2. <<>> \o Request = Request /\ Request \o <<>> = Request
          BY <1>11, ConcatEmptySeq
        <5> QED
          BY <4>2, <5>1, <5>2 DEF Eagerly
      <4> QED
        BY <4>1, <4>2
    <3>14. Left' = Request' \o Eagerly(Data)'
      BY <2>4, <3>13
    <3>15. OnScript'
      BY <2>1, <3>14 DEF OnScript
    <3> QED
      BY <1>1, <1>13, <1>14, <2>2, <2>6, <3>15 DEF IInv
  <2> QED
    BY <2>5, <2>6
<1> QED
  BY <1>15, <1>16

(* What a request takes off, and that it is the client's own if no bytes   *)
(* were read as methods.                                                   *)
LEMMA RequestTaken ==
  ASSUME IInv, ReadRequest
  PROVE  \E n \in Nat : Take(n) /\ (OwnHost => n = 5)
<1>1. PICK a \in Addrs, n \in 1 .. Len(inbox) - 4 : AddressIs(a, n) /\ Take(4 + n)
  BY DEF ReadRequest
<1>2. Len(inbox) \in Nat
  BY LenProperties DEF IInv, UnitsInv
<1>3. 4 + n \in Nat
  BY <1>2
<1>4. OwnHost => 4 + n = 5
  BY <1>1 DEF AddressIs
<1> QED
  BY <1>1, <1>3, <1>4

LEMMA OwnRequest ==
  ASSUME IInv, ReadRequest, ~swallowed
  PROVE  OwnHost /\ inbox[5] = <<"host", client.addr>>
<1>1. at = "request" /\ Len(inbox) >= 5
  BY DEF ReadRequest
<1>2. PICK x \in Cases : client = x[2]
  BY DEF IInv, UnitsInv
<1>3. client.kind = "socks"
  BY <1>1 DEF IInv, ScriptInv
<1>4. inbox \in Seq(Units) /\ todo \in Seq(Units)
  BY DEF IInv, UnitsInv
<1>5. /\ Len(inbox) \in Nat
      /\ \A i \in 1 .. Len(inbox) : inbox[i] = Left[i]
  BY <1>4, FirstLeft
<1>6. 5 \in 1 .. Len(inbox)
  BY <1>1, <1>5
<1>7. PICK q, e : q = Request /\ e = Eagerly(Data)
  OBVIOUS
<1>8. Left = q \o e
  BY <1>1, <1>7 DEF IInv, ScriptInv, OnScript
<1>9. q \in Seq(Units) /\ e \in Seq(Units) /\ Len(q) = 5 /\ q[5] = <<"host", client.addr>>
  BY <1>2, <1>3, <1>7, RequestWords, Words DEF Eagerly
<1>10. /\ Len(q \o e) = Len(q) + Len(e)
       /\ \A i \in 1 .. Len(q) + Len(e) : (q \o e)[i] = IF i <= Len(q) THEN q[i] ELSE e[i - Len(q)]
  <2>1. q \in Seq(Units) /\ e \in Seq(Units)
    BY <1>9
  <2> QED
    BY <2>1, ConcatProperties
<1>11. Len(e) \in Nat
  BY <1>9, LenProperties
<1>12. (q \o e)[5] = q[5]
  BY <1>9, <1>10, <1>11
<1>13. inbox[5] = <<"host", client.addr>>
  BY <1>5, <1>6, <1>8, <1>9, <1>12
<1> QED
  BY <1>1, <1>13 DEF OwnHost

LEMMA StepReadRequest ==
  ASSUME IInv, ReadRequest
  PROVE  IInv'
<1>1. /\ UNCHANGED <<client, closed, nmethods, swallowed, relayed>>
      /\ at = "request" /\ via' = "socks"
  BY DEF ReadRequest
<1>15. PICK n \in Nat : Take(n) /\ (OwnHost => n = 5)
  BY RequestTaken
<1>2. \/ Answer("success", "route", Data)
      \/ Answer("success", "udp", <<>>)
      \/ Answer("not_supported", "failed", <<>>)
      \/ at' = "failed" /\ UNCHANGED <<said, todo>>
  BY DEF ReadRequest
<1>3. PICK x \in Cases : client = x[2]
  BY DEF IInv, UnitsInv
<1>4. client.kind = "socks" /\ said # <<>> /\ relayed = <<>>
  BY <1>1 DEF IInv, ScriptInv
<1>5. /\ inbox \in Seq(Units) /\ todo \in Seq(Units) /\ relayed \in Seq(Units) /\ said \in Seq(Answers)
  BY DEF IInv, UnitsInv
<1>6. /\ inbox' \in Seq(Units) /\ Left \in Seq(Units) /\ n \in 0 .. Len(Left)
      /\ inbox' \o todo = SubSeq(Left, n + 1, Len(Left))
  BY <1>5, <1>15, Taken
<1>7. /\ Request \in Seq(Units) /\ <<>> \in Seq(Units) /\ Data \in Seq(Units) /\ AfterHello \in Seq(Units)
      /\ "success" \in Answers /\ "not_supported" \in Answers
  BY <1>3, <1>4, Words DEF Answers
<1>8. \/ at' = "failed" /\ said' = said /\ todo' = todo
      \/ /\ at' \in {"route", "udp", "failed"} /\ todo' \in Seq(Units)
         /\ said' \in Seq(Answers) /\ said' # <<>> /\ said'[1] = said[1]
         /\ client.eager => todo' = todo
         /\ ~client.eager /\ at' = "route" => inbox' \o todo' = (inbox' \o todo) \o Data
  <2>1. CASE Answer("success", "route", Data)
    <3>1. PICK box : box = inbox'
      OBVIOUS
    <3>2. box \in Seq(Units)
      BY <1>6, <3>1
    <3>3. \/ at' = "failed" /\ said' = said /\ todo' = todo
          \/ /\ at' = "route" /\ todo' \in Seq(Units)
             /\ said' \in Seq(Answers) /\ said' # <<>> /\ said'[1] = said[1]
             /\ client.eager => todo' = todo
             /\ ~client.eager => box \o todo' = (box \o todo) \o Data
      BY <1>4, <1>5, <1>7, <2>1, <3>2, Answered
    <3> QED
      BY <3>1, <3>3
  <2>2. CASE Answer("success", "udp", <<>>)
    <3>1. \/ at' = "failed" /\ said' = said /\ todo' = todo
          \/ /\ at' = "udp" /\ todo' \in Seq(Units)
             /\ said' \in Seq(Answers) /\ said' # <<>> /\ said'[1] = said[1]
             /\ client.eager => todo' = todo
      BY <1>4, <1>5, <1>7, <2>2, Answered
    <3> QED
      BY <3>1
  <2>3. CASE Answer("not_supported", "failed", <<>>)
    <3>1. \/ at' = "failed" /\ said' = said /\ todo' = todo
          \/ /\ at' = "failed" /\ todo' \in Seq(Units)
             /\ said' \in Seq(Answers) /\ said' # <<>> /\ said'[1] = said[1]
             /\ client.eager => todo' = todo
      BY <1>4, <1>5, <1>7, <2>3, Answered
    <3> QED
      BY <3>1
  <2>4. CASE at' = "failed" /\ UNCHANGED <<said, todo>>
    BY <2>4
  <2> QED
    BY <1>2, <2>1, <2>2, <2>3, <2>4
<1>9. UnitsInv'
  BY <1>1, <1>5, <1>6, <1>8 DEF IInv, UnitsInv
<1>10. MethodWasOffered'
  BY <1>1, <1>4, <1>8, Offered
<1>11. CASE at' = "failed"
  BY <1>1, <1>9, <1>10, <1>11, Ended DEF IInv
<1>12. CASE at' = "udp"
  <2>1. said' # <<>>
    BY <1>8, <1>12
  <2>2. OnScript' /\ (swallowed => OffScript')
    BY <1>1, <1>4, <1>12 DEF IInv, ScriptInv, OnScript, OffScript
  <2> QED
    BY <1>1, <1>4, <1>9, <1>10, <1>12, <2>1, <2>2 DEF IInv, ScriptInv
<1>13. CASE at' = "route"
  <2>1. /\ said' # <<>>
        /\ client.eager => todo' = todo
        /\ ~client.eager => inbox' \o todo' = (inbox' \o todo) \o Data
    BY <1>8, <1>13
  <2>2. Left' = inbox' \o todo' /\ Data' = Data /\ AfterHello' = AfterHello
    BY <1>1, PartsSame DEF Left
  <2>3. OnScript'
    BY <1>13 DEF OnScript
  <2>4. CASE swallowed
    <3>1. EndOf(inbox' \o todo, AfterHello) /\ client.eager
      <4>1. EndOf(inbox' \o todo, AfterHello)
        BY <1>1, <1>15, <2>4, TakenOff
      <4> QED
        BY <2>4, <4>1 DEF IInv, ScriptInv, OffScript
    <3>2. Left' = inbox' \o todo
      BY <2>1, <2>2, <3>1
    <3>3. OffScript'
      BY <1>1, <1>4, <1>13, <2>2, <3>1, <3>2 DEF OffScript, Ending, EndOf
    <3> QED
      BY <1>1, <1>4, <1>9, <1>10, <1>13, <2>1, <2>4, <3>3 DEF IInv, ScriptInv
  <2>5. CASE ~swallowed
    <3>1. PICK q, e : q = Request /\ e = Eagerly(Data)
      OBVIOUS
    <3>2. Left = q \o e
      BY <1>1, <2>5, <3>1 DEF IInv, ScriptInv, OnScript
    <3>3. q \in Seq(Units) /\ e \in Seq(Units) /\ Len(q) = 5
      BY <1>3, <1>4, <1>7, <3>1, RequestWords DEF Eagerly
    <3>4. SubSeq(q \o e, Len(q) + 1, Len(q \o e)) = e
      BY <3>3, DropAll
    <3>5. n = 5
      BY <1>15, <2>5, OwnRequest
    <3>6. inbox' \o todo = e
      BY <1>6, <3>2, <3>3, <3>4, <3>5
    <3>7. Left' = Data
      <4>1. CASE client.eager
        BY <2>1, <2>2, <3>1, <3>6, <4>1 DEF Eagerly
      <4>2. CASE ~client.eager
        <5>1. Left' = <<>> \o Data
          BY <2>1, <2>2, <3>1, <3>6, <4>2 DEF Eagerly
        <5> QED
          BY <1>7, <5>1, ConcatEmptySeq
      <4> QED
        BY <4>1, <4>2
    <3> QED
      BY <1>1, <1>4, <1>9, <1>10, <1>13, <2>1, <2>2, <2>3, <2>5, <3>7 DEF IInv, ScriptInv
  <2> QED
    BY <2>4, <2>5
<1> QED
  BY <1>8, <1>11, <1>12, <1>13

(* An answer that the client has nothing to add to. *)
LEMMA AnsweredOnly ==
  ASSUME NEW r \in Answers, NEW s, todo \in Seq(Units), said \in Seq(Answers), Answer(r, s, <<>>)
  PROVE  todo' = todo /\ said' \in Seq(Answers) /\ at' \in {s, "failed"}
<1>1. todo \o <<>> = todo
  BY ConcatEmptySeq
<1>2. Append(said, r) \in Seq(Answers)
  BY AppendProperties
<1> QED
  BY <1>1, <1>2 DEF Answer

LEMMA StepBuild ==
  ASSUME IInv, Build \/ BuildFails
  PROVE  IInv'
<1>1. /\ UNCHANGED <<client, inbox, closed, read_buf, nmethods, via, swallowed, relayed>>
      /\ at = "build"
  BY DEF Build, BuildFails
<1>2. \/ via = "proxy" /\ (Answer("response", "http", <<>>) \/ Answer("500", "http", <<>>))
      \/ via # "proxy" /\ at' \in {"relay", "done", "failed"} /\ UNCHANGED <<said, todo>>
  BY DEF Build, BuildFails
<1>3. /\ inbox \in Seq(Units) /\ todo \in Seq(Units) /\ said \in Seq(Answers)
      /\ "response" \in Answers /\ "500" \in Answers
  BY DEF IInv, UnitsInv, Answers
<1>4. /\ todo' = todo /\ said' \in Seq(Answers)
      /\ at' \in {"relay", "done", "failed", "http"}
      /\ via = "proxy" <=> ~(via # "proxy")
      /\ at' = "http" => via = "proxy"
      /\ at' = "relay" => via # "proxy"
      /\ via # "proxy" => said' = said
  <2>1. CASE via = "proxy" /\ Answer("response", "http", <<>>)
    <3>1. todo' = todo /\ said' \in Seq(Answers) /\ at' \in {"http", "failed"}
      BY <1>3, <2>1, AnsweredOnly
    <3> QED
      BY <2>1, <3>1
  <2>2. CASE via = "proxy" /\ Answer("500", "http", <<>>)
    <3>1. todo' = todo /\ said' \in Seq(Answers) /\ at' \in {"http", "failed"}
      BY <1>3, <2>2, AnsweredOnly
    <3> QED
      BY <2>2, <3>1
  <2>3. CASE via # "proxy" /\ at' \in {"relay", "done", "failed"} /\ UNCHANGED <<said, todo>>
    BY <1>3, <2>3
  <2> QED
    BY <1>2, <2>1, <2>2, <2>3
<1>5. /\ relayed = <<>> /\ (IF via = "proxy" THEN RequestsLeft ELSE swallowed \/ Left = Data)
      /\ swallowed => client.kind = "socks" /\ client.eager /\ Ending(Left)
      /\ client.kind = "socks" => said # <<>>
  BY <1>1 DEF IInv, ScriptInv, OffScript
<1>6. via = "proxy" => client.kind = "http"
  BY <1>5 DEF RequestsLeft
<1>7. UnitsInv'
  BY <1>1, <1>3, <1>4 DEF IInv, UnitsInv
<1>8. MethodWasOffered'
  BY <1>1, <1>4, <1>6, Offered
<1>9. /\ Left' = Left /\ Data' = Data /\ Requests' = Requests /\ Eagerly(Data)' = Eagerly(Data)
      /\ AfterHello' = AfterHello
  BY <1>1, <1>4, PartsSame DEF Left, Eagerly
<1>10. CASE at' \in {"done", "failed"}
  BY <1>1, <1>7, <1>8, <1>10, Ended DEF IInv
<1>11. CASE at' = "http"
  <2>1. client.kind = "http" /\ RequestsLeft
    BY <1>4, <1>5, <1>6, <1>11
  <2>2. RequestsLeft'
    BY <1>1, <1>9, <2>1 DEF RequestsLeft
  <2>3. ~swallowed /\ OnScript'
    BY <1>5, <1>11, <2>1 DEF OnScript
  <2> QED
    BY <1>1, <1>5, <1>7, <1>8, <1>11, <2>1, <2>2, <2>3 DEF IInv, ScriptInv
<1>12. CASE at' = "relay"
  <2>1. (swallowed \/ Left = Data) /\ said' = said
    BY <1>4, <1>5, <1>12
  <2>2. <<>> \o Left = Left
    BY <1>3, FirstLeft, ConcatEmptySeq
  <2>3. relayed' \o Left' = Left
    BY <1>1, <1>5, <1>9, <2>2
  <2>4. swallowed' \/ relayed' \o Left' = Data'
    BY <1>1, <1>9, <2>1, <2>3
  <2>5. OnScript'
    BY <1>12 DEF OnScript
  <2>6. ASSUME swallowed PROVE OffScript'
    <3>1. Ending(relayed' \o Left) /\ client.kind = "socks" /\ client.eager
      BY <1>5, <2>3, <1>9, <2>6
    <3>2. (Ending(relayed \o Left))'
      BY <1>9, <3>1 DEF Ending
    <3> QED
      BY <1>1, <1>12, <3>1, <3>2 DEF OffScript
  <2>7. IF swallowed' THEN OffScript' ELSE OnScript'
    BY <1>1, <2>5, <2>6
  <2> QED
    BY <1>1, <1>5, <1>7, <1>8, <1>12, <2>1, <2>4, <2>7 DEF IInv, ScriptInv
<1> QED
  BY <1>4, <1>10, <1>11, <1>12

LEMMA StepHttpRequest ==
  ASSUME IInv, HttpRequest
  PROVE  IInv'
<1>1. /\ UNCHANGED <<client, closed, read_buf, nmethods, swallowed, relayed>>
      /\ at = "http" /\ inbox # <<>> /\ inbox[1][1] = "req" /\ Take(1)
  BY DEF HttpRequest
<1>2. PICK x \in Cases : client = x[2]
  BY DEF IInv, UnitsInv
<1>3. /\ client.kind = "http" /\ RequestsLeft /\ ~swallowed /\ relayed = <<>>
  BY <1>1 DEF IInv, ScriptInv, OffScript, RequestsLeft
<1>4. /\ inbox \in Seq(Units) /\ todo \in Seq(Units) /\ relayed \in Seq(Units) /\ said \in Seq(Answers)
      /\ 1 \in Nat
  BY DEF IInv, UnitsInv
<1>5. /\ inbox' \in Seq(Units) /\ inbox' \o todo = SubSeq(Left, 1 + 1, Len(Left))
      /\ \A i \in 1 .. Len(inbox) : inbox[i] = Left[i]
  BY <1>1, <1>4, Taken
<1>6. inbox[1] = Left[1]
  <2>1. 1 \in 1 .. Len(inbox)
    BY <1>1, <1>4, EmptySeq
  <2> QED
    BY <1>5, <2>1
<1>7. PICK n, e : n = Len(client.reqs) /\ e = Eagerly(Data)
  OBVIOUS
<1>8. PICK j \in 0 .. n : Left = SubSeq(Requests, j + 1, n) \o e
  BY <1>3, <1>7 DEF RequestsLeft
<1>9. PICK w : w = Left
  OBVIOUS
<1>10. /\ w \in Seq(Units)
       /\ j = n => w = e /\ (w # <<>> => w[1] = <<"data", 1>>)
       /\ j # n =>
            /\ j + 1 \in 1 .. n /\ w # <<>> /\ w[1] = <<"req", j + 1>>
            /\ SubSeq(w, 1 + 1, Len(w)) = SubSeq(Requests, (j + 1) + 1, n) \o e
  BY <1>2, <1>3, <1>7, <1>8, <1>9, HttpWords
<1>11. j # n
  <2>1. SUFFICES ASSUME j = n PROVE FALSE
    OBVIOUS
  <2>2. w # <<>>
    <3>1. Left \in Seq(Units) /\ Len(inbox) \in Nat /\ Len(Left) >= Len(inbox)
      BY <1>4, FirstLeft
    <3>2. Len(inbox) > 0
      BY <1>1, <1>4, EmptySeq
    <3>3. Len(<<>>) = 0
      OBVIOUS
    <3> QED
      BY <1>9, <3>1, <3>2, <3>3
  <2> QED
    BY <1>1, <1>6, <1>9, <1>10, <2>1, <2>2
<1>12. /\ j + 1 \in 1 .. n /\ inbox[1][2] = j + 1
       /\ inbox' \o todo = SubSeq(Requests, (j + 1) + 1, n) \o e
  <2>1. /\ j + 1 \in 1 .. n /\ w[1] = <<"req", j + 1>>
        /\ SubSeq(w, 1 + 1, Len(w)) = SubSeq(Requests, (j + 1) + 1, n) \o e
    BY <1>10, <1>11
  <2>2. inbox[1][2] = j + 1
    BY <1>6, <1>9, <2>1
  <2>3. inbox' \o todo = SubSeq(Requests, (j + 1) + 1, n) \o e
    BY <1>5, <1>9, <2>1
  <2> QED
    BY <2>1, <2>2, <2>3
<1>13. PICK v : v = inbox' \o todo
  OBVIOUS
<1>14. client.reqs[j + 1].connect => v = e
  <2>1. SUFFICES ASSUME client.reqs[j + 1].connect PROVE v = e
    OBVIOUS
  <2>2. j + 1 = n
    BY <1>2, <1>3, <1>7, <1>12, <2>1, Client
  <2>3. n \in 0 .. n /\ n = Len(client.reqs)
    BY <1>7, <1>12, <2>2
  <2>4. v = SubSeq(Requests, n + 1, n) \o e
    BY <1>12, <1>13, <2>2
  <2> QED
    BY <1>2, <1>3, <1>7, <2>3, <2>4, HttpWords
<1>15. /\ Data \in Seq(Units) /\ <<>> \in Seq(Units)
       /\ "200" \in Answers /\ "400" \in Answers /\ "500" \in Answers
  BY <1>2, Words DEF Answers
<1>16. /\ todo' \in Seq(Units) /\ said' \in Seq(Answers)
       /\ \/ at' \in {"failed", "http"} /\ todo' = todo
          \/ at' = "failed"
          \/ at' = "route" /\ via' = "proxy" /\ todo' = todo
          \/ /\ at' = "route" /\ via' = "tunnel" /\ client.reqs[j + 1].connect
             /\ client.eager => todo' = todo
             /\ ~client.eager => inbox' \o todo' = (inbox' \o todo) \o Data
  <2>1. PICK r, addr : r = client.reqs[j + 1] /\ addr = FromStr(r)
    OBVIOUS
  <2>2. /\ via' = (IF r.connect THEN "tunnel" ELSE "proxy")
        /\ \/ r.connect /\ addr = None /\ Answer("400", "http", <<>>)
           \/ r.connect /\ addr # None /\ Answer("200", "route", Data)
           \/ ~r.connect /\ ConnectorRefuses(r, addr) /\ Answer("500", "http", <<>>)
           \/ ~r.connect /\ ~ConnectorRefuses(r, addr) /\ at' = "route" /\ UNCHANGED <<said, todo>>
    BY <1>12, <2>1 DEF HttpRequest
  <2>3. CASE Answer("400", "http", <<>>)
    <3>1. todo' = todo /\ said' \in Seq(Answers) /\ at' \in {"http", "failed"}
      BY <1>4, <1>15, <2>3, AnsweredOnly
    <3> QED
      BY <1>4, <3>1
  <2>4. CASE Answer("500", "http", <<>>)
    <3>1. todo' = todo /\ said' \in Seq(Answers) /\ at' \in {"http", "failed"}
      BY <1>4, <1>15, <2>4, AnsweredOnly
    <3> QED
      BY <1>4, <3>1
  <2>5. CASE ~r.connect /\ at' = "route" /\ UNCHANGED <<said, todo>>
    BY <1>4, <2>2, <2>5
  <2>6. CASE r.connect /\ Answer("200", "route", Data)
    <3>1. PICK box : box = inbox'
      OBVIOUS
    <3>2. box \in Seq(Units)
      BY <1>5, <3>1
    <3>3. \/ at' = "failed" /\ said' = said /\ todo' = todo
          \/ /\ at' = "route" /\ todo' \in Seq(Units) /\ said' \in Seq(Answers)
             /\ client.eager => todo' = todo
             /\ ~client.eager => box \o todo' = (box \o todo) \o Data
      BY <1>4, <1>15, <2>6, <3>2, Answered, ZenonT(40)
    <3> QED
      BY <1>4, <2>1, <2>2, <2>6, <3>1, <3>3
  <2> QED
    BY <2>2, <2>3, <2>4, <2>5, <2>6
<1>17. UnitsInv'
  BY <1>1, <1>4, <1>5, <1>16 DEF IInv, UnitsInv
<1>18. MethodWasOffered'
  BY <1>1, <1>3, Offered
<1>19. OnScript'
  BY <1>16 DEF OnScript
<1>20. /\ Data' = Data /\ Requests' = Requests /\ Eagerly(Data)' = Eagerly(Data) /\ Left' = inbox' \o todo'
  BY <1>1, PartsSame DEF Left, Eagerly
<1>21. ASSUME todo' = todo PROVE RequestsLeft'
  <2>1. j + 1 \in 0 .. n
    BY <1>12
  <2>2. Left' = SubSeq(Requests, (j + 1) + 1, n) \o e
    BY <1>12, <1>20, <1>21
  <2> QED
    BY <1>1, <1>3, <1>7, <1>20, <2>1, <2>2 DEF RequestsLeft
<1>22. CASE at' = "failed"
  BY <1>1, <1>17, <1>18, <1>22, Ended DEF IInv
<1>23. CASE at' = "http"
  <2>1. RequestsLeft'
    BY <1>16, <1>21, <1>23
  <2> QED
    BY <1>1, <1>3, <1>17, <1>18, <1>19, <1>23, <2>1 DEF IInv, ScriptInv
<1>24. CASE at' = "route" /\ via' = "proxy"
  <2>1. RequestsLeft'
    BY <1>16, <1>21, <1>24
  <2> QED
    BY <1>1, <1>3, <1>17, <1>18, <1>19, <1>24, <2>1 DEF IInv, ScriptInv
<1>25. CASE at' = "route" /\ via' # "proxy"
  <2>1. /\ client.reqs[j + 1].connect
        /\ client.eager => todo' = todo
        /\ ~client.eager => inbox' \o todo' = (inbox' \o todo) \o Data
    BY <1>16, <1>25
  <2>2. inbox' \o todo = e
    BY <1>13, <1>14, <2>1
  <2>3. Left' = Data
    <3>1. CASE client.eager
      BY <1>7, <1>20, <2>1, <2>2, <3>1 DEF Eagerly
    <3>2. CASE ~client.eager
      <4>1. Left' = <<>> \o Data
        BY <1>7, <1>20, <2>1, <2>2, <3>2 DEF Eagerly
      <4> QED
        BY <1>15, <4>1, ConcatEmptySeq
    <3> QED
      BY <3>1, <3>2
  <2> QED
    BY <1>1, <1>3, <1>17, <1>18, <1>19, <1>20, <1>25, <2>3 DEF IInv, ScriptInv
<1> QED
  BY <1>16, <1>22, <1>23, <1>24, <1>25

LEMMA StepRelay ==
  ASSUME IInv, Relay
  PROVE  IInv'
<1>1. /\ UNCHANGED <<client, at, todo, closed, read_buf, nmethods, said, via, swallowed>>
      /\ at = "relay" /\ Take(1) /\ relayed' = Append(relayed, inbox[1])
  BY DEF Relay
<1>2. /\ inbox \in Seq(Units) /\ todo \in Seq(Units) /\ relayed \in Seq(Units) /\ 1 \in Nat
  BY DEF IInv, UnitsInv
<1>3. 1 \in 1 .. Len(inbox) /\ 1 \in 0 .. Len(inbox)
  <2>1. Len(inbox) \in Nat
    BY <1>2, LenProperties
  <2> QED
    BY <1>1, <2>1 DEF Take
<1>4. PICK rl, box, td : rl = relayed /\ box = inbox /\ td = todo
  OBVIOUS
<1>5. rl \in Seq(Units) /\ box \in Seq(Units) /\ td \in Seq(Units) /\ 1 \in 0 .. Len(box)
      /\ 1 \in 1 .. Len(box) /\ box[1] \in Units
  BY <1>2, <1>3, <1>4, ElementOfSeq
<1>6. /\ rl \o SubSeq(box, 1, 1) \in Seq(Units) /\ SubSeq(box, 1 + 1, Len(box)) \in Seq(Units)
      /\ Len(rl \o SubSeq(box, 1, 1)) = Len(rl) + 1
      /\ (rl \o SubSeq(box, 1, 1)) \o SubSeq(box, 1 + 1, Len(box)) = rl \o box
      /\ \A u \in Seq(Units) :
           (rl \o SubSeq(box, 1, 1)) \o (SubSeq(box, 1 + 1, Len(box)) \o u) = rl \o (box \o u)
  BY <1>5, Move, ZenonT(40)
<1>7. (rl \o SubSeq(box, 1, 1)) \o (SubSeq(box, 1 + 1, Len(box)) \o td) = rl \o (box \o td)
  BY <1>5, <1>6, Zenon
<1>8. relayed' = rl \o SubSeq(box, 1, 1)
  <2>1. SubSeq(box, 1, 1) = <<box[1]>>
    <3>1. PICK f : f = SubSeq(box, 1, 1)
      OBVIOUS
    <3>2. \A i \in 1 .. 1 : box[i] \in Units
      BY <1>5
    <3>3. /\ f \in Seq(Units) /\ Len(f) = (IF 1 <= 1 THEN 1 - 1 + 1 ELSE 0)
          /\ \A i \in 1 .. 1 - 1 + 1 : f[i] = box[1 + i - 1]
      BY <1>5, <3>1, <3>2, SubSeqProperties
    <3>4. f \in Seq(Units) /\ Len(f) = 1 /\ f[1] = box[1]
      BY <3>3
    <3>5. f = <<box[1]>>
      BY <3>4
    <3> QED
      BY <3>1, <3>5
  <2>2. Append(rl, box[1]) = rl \o <<box[1]>>
    BY <1>5, AppendIsConcat
  <2> QED
    BY <1>1, <1>4, <2>1, <2>2
<1>9. inbox' = SubSeq(box, 1 + 1, Len(box)) /\ Left' = inbox' \o td /\ Left = box \o td
  BY <1>1, <1>4 DEF Take, Left
<1>10. relayed' \o Left' = rl \o Left
  BY <1>7, <1>8, <1>9, Zenon
<1>11. /\ swallowed \/ relayed \o Left = Data
       /\ swallowed => OffScript /\ Ending(relayed \o Left)
  BY <1>1 DEF IInv, ScriptInv, OffScript
<1>16. Data' = Data /\ AfterHello' = AfterHello /\ relayed' \o Left' = relayed \o Left
  BY <1>1, <1>4, <1>10, PartsSame
<1>12. swallowed' \/ relayed' \o Left' = Data'
  BY <1>1, <1>11, <1>16
<1>13. UnitsInv'
  BY <1>1, <1>2, <1>6, <1>8, <1>9 DEF IInv, UnitsInv
<1>14. MethodWasOffered'
  BY <1>1, Offered
<1>15. IF swallowed' THEN OffScript' ELSE OnScript'
  <2>1. OnScript'
    BY <1>1 DEF OnScript
  <2>2. ASSUME swallowed PROVE OffScript'
    <3>1. (Ending(relayed \o Left))'
      BY <1>11, <1>16, <2>2 DEF Ending
    <3> QED
      BY <1>1, <1>11, <2>2, <3>1 DEF OffScript
  <2> QED
    BY <1>1, <2>1, <2>2
<1> QED
  BY <1>1, <1>12, <1>13, <1>14, <1>15 DEF IInv, ScriptInv

-----------------------------------------------------------------------------
LEMMA InitInv == Init => IInv
<1>1. SUFFICES ASSUME Init PROVE IInv
  OBVIOUS
<1>2. PICK x \in Cases : client = x[2]
  BY <1>1 DEF Init
<1>3. FirstWords \in Seq(Units) /\ <<>> \in Seq(Units) /\ <<>> \in Seq(Answers)
  BY <1>2, Words
<1>4. Left = FirstWords
  <2>1. Left = <<>> \o FirstWords
    BY <1>1 DEF Init, Left
  <2> QED
    BY <1>3, <2>1, ConcatEmptySeq
<1>5. UnitsInv
  BY <1>1, <1>2, <1>3 DEF Init, UnitsInv
<1>6. MethodWasOffered
  BY <1>1 DEF Init, MethodWasOffered
<1>7. OnScript
  BY <1>1, <1>4 DEF Init, OnScript
<1>8. ScriptInv
  BY <1>1, <1>7 DEF Init, ScriptInv
<1> QED
  BY <1>5, <1>6, <1>8 DEF IInv

LEMMA NextInv == IInv /\ [Next]_vars => IInv'
<1>1. SUFFICES ASSUME IInv, [Next]_vars PROVE IInv'
  OBVIOUS
<1>2. CASE StartServer
  BY <1>1, <1>2, StepStartServer
<1>3. CASE \E k \in 1 .. Len(todo) : ClientSends(k)
  BY <1>1, <1>3, StepClientSends
<1>4. CASE ClientCloses
  BY <1>1, <1>4, StepClientCloses
<1>5. CASE Peek
  BY <1>1, <1>5, StepPeek
<1>6. CASE Dokodemo
  BY <1>1, <1>6, StepDokodemo
<1>7. CASE Header
  BY <1>1, <1>7, StepHeader
<1>8. CASE \E k \in 1 .. Len(inbox) : ReadMethods(k)
  BY <1>1, <1>8, StepReadMethods
<1>9. CASE ChooseMethod
  BY <1>1, <1>9, StepChooseMethod
<1>10. CASE Authenticate
  BY <1>1, <1>10, StepAuthenticate
<1>11. CASE RequestFails
  BY <1>1, <1>11, StepRequestFails
<1>12. CASE ReadRequest
  BY <1>1, <1>12, StepReadRequest
<1>13. CASE ReadFails
  BY <1>1, <1>13, StepReadFails
<1>14. CASE HttpRequest
  BY <1>1, <1>14, StepHttpRequest
<1>15. CASE HttpEnds
  BY <1>1, <1>15, StepHttpEnds
<1>16. CASE Route
  BY <1>1, <1>16, StepRoute
<1>17. CASE Build \/ BuildFails
  BY <1>1, <1>17, StepBuild
<1>18. CASE Relay
  BY <1>1, <1>18, StepRelay
<1>19. CASE UNCHANGED vars
  <2>1. UNCHANGED <<client, at, read_buf, nmethods, said, via, swallowed, relayed, inbox, todo, closed>>
    BY <1>19 DEF vars, clientVars
  <2>2. inbox \in Seq(Units) /\ todo \in Seq(Units)
    BY <1>1 DEF IInv, UnitsInv
  <2> QED
    BY <1>1, <2>1, <2>2, OnlyMoved
<1> QED
  BY <1>1, <1>2, <1>3, <1>4, <1>5, <1>6, <1>7, <1>8, <1>9, <1>10, <1>11, <1>12, <1>13, <1>14,
     <1>15, <1>16, <1>17, <1>18, <1>19 DEF Next, Serve

(* For every client: what is left to read is what the client says from     *)
(* this step of the handshake on, or, once bytes were read as methods,     *)
(* some end of it.                                                         *)
THEOREM InboundInvariant == Spec => []IInv
<1>1. Init => IInv
  BY InitInv
<1>2. IInv /\ [Next]_vars => IInv'
  BY NextInv
<1> QED
  BY <1>1, <1>2, PTL DEF Spec

(* Whatever the client sends before it has its answers, and however it is  *)
(* cut up by the reads of Socks5Stream::init and of hyper, the relay gets  *)
(* the client's data, all of it, in order and nothing else; or, once bytes *)
(* were read as methods, all that follows what was read as the request.    *)
THEOREM InboundNothingLost == Spec => []NothingLost
<1>1. IInv => NothingLost
  BY DEF IInv, ScriptInv, OffScript, NothingLost, Left
<1> QED
  BY <1>1, InboundInvariant, PTL

(* The method that Socks5Stream::init answers was offered by the client,   *)
(* user name and password before none, unless others of its bytes were     *)
(* read as methods.                                                        *)
THEOREM InboundMethod == Spec => []MethodWasOffered
<1>1. IInv => MethodWasOffered
  BY DEF IInv
<1> QED
  BY <1>1, InboundInvariant, PTL

-----------------------------------------------------------------------------
(* The router.  The order of the places. *)
Places == Nat \X Nat \X Nat \X Nat

Lexically(a1, a2, a3, a4, b1, b2, b3, b4) ==
  \/ a1 < b1
  \/ a1 = b1 /\ a2 < b2
  \/ a1 = b1 /\ a2 = b2 /\ a3 < b3
  \/ a1 = b1 /\ a2 = b2 /\ a3 = b3 /\ a4 < b4

LEMMA BeforeIsLexical ==
  ASSUME NEW a1, NEW a2, NEW a3, NEW a4, NEW b1, NEW b2, NEW b3, NEW b4
  PROVE  Before(<<a1, a2, a3, a4>>, <<b1, b2, b3, b4>>)
         <=> Lexically(a1, a2, a3, a4, b1, b2, b3, b4)
<1> DEFINE p == <<a1, a2, a3, a4>>
           q == <<b1, b2, b3, b4>>
           C(k) == p[k] < q[k] /\ \A j \in 1 .. k - 1 : p[j] = q[j]
<1>1. p[1] = a1 /\ p[2] = a2 /\ p[3] = a3 /\ p[4] = a4 /\ q[1] = b1 /\ q[2] = b2 /\ q[3] = b3 /\ q[4] = b4
  OBVIOUS
<1> HIDE DEF p, q
<1>2. 1 .. 4 = {1, 2, 3, 4} /\ 1 .. 0 = {} /\ 1 .. 1 = {1} /\ 1 .. 2 = {1, 2} /\ 1 .. 3 = {1, 2, 3}
  OBVIOUS
<1>3. 1 - 1 = 0 /\ 2 - 1 = 1 /\ 3 - 1 = 2 /\ 4 - 1 = 3
  OBVIOUS
<1>4. C(1) <=> a1 < b1
  BY <1>1, <1>2, <1>3
<1>5. C(2) <=> a2 < b2 /\ a1 = b1
  BY <1>1, <1>2, <1>3
<1>6. C(3) <=> a3 < b3 /\ a1 = b1 /\ a2 = b2
  BY <1>1, <1>2, <1>3
<1>7. C(4) <=> a4 < b4 /\ a1 = b1 /\ a2 = b2 /\ a3 = b3
  BY <1>1, <1>2, <1>3
<1>8. Before(p, q) <=> \E k \in 1 .. 4 : C(k)
  BY DEF Before
<1>9. Before(p, q) <=> C(1) \/ C(2) \/ C(3) \/ C(4)
  <2> HIDE DEF C
  <2> QED
    BY <1>2, <1>8
<1>10. Before(p, q) <=> Lexically(a1, a2, a3, a4, b1, b2, b3, b4)
  <2> HIDE DEF C
  <2> QED
    BY <1>4, <1>5, <1>6, <1>7, <1>9 DEF Lexically
<1> QED
  BY <1>10 DEF p, q

LEMMA BeforeOrders ==
  ASSUME NEW p \in Places, NEW q \in Places
  PROVE  ~(Before(p, q) /\ Before(q, p)) /\ ~Before(p, p)
<1>1. PICK a1 \in Nat, a2 \in Nat, a3 \in Nat, a4 \in Nat : p = <<a1, a2, a3, a4>>
  BY DEF Places
<1>2. PICK b1 \in Nat, b2 \in Nat, b3 \in Nat, b4 \in Nat : q = <<b1, b2, b3, b4>>
  BY DEF Places
<1>3. Before(p, q) <=> Lexically(a1, a2, a3, a4, b1, b2, b3, b4)
  BY <1>1, <1>2, BeforeIsLexical
<1>4. Before(q, p) <=> Lexically(b1, b2, b3, b4, a1, a2, a3, a4)
  BY <1>1, <1>2, BeforeIsLexical
<1>5. Before(p, p) <=> Lexically(a1, a2, a3, a4, a1, a2, a3, a4)
  BY <1>1, BeforeIsLexical
<1>6. /\ ~(Lexically(a1, a2, a3, a4, b1, b2, b3, b4) /\ Lexically(b1, b2, b3, b4, a1, a2, a3, a4))
      /\ ~Lexically(a1, a2, a3, a4, a1, a2, a3, a4)
  BY DEF Lexically
<1> QED
  BY <1>3, <1>4, <1>5, <1>6

(* The places of the rules and mentions of a configuration. *)
Placed(c, a1, a2, a3, a4) ==
  /\ a1 \in 1 .. 4 /\ a2 \in DOMAIN Sections(c)[a1]
  /\ \/ a3 = 0 /\ a4 > 0 /\ (a1 # 2 => a4 = 1) /\ (a1 = 2 => a4 <= Len(c.ip[a2].cidrs))
     \/ /\ a1 \in {3, 4} /\ a3 \in 1 .. Len(Sections(c)[a1][a2].file)
        /\ a4 \in 1 .. Len(Sections(c)[a1][a2].file[a3].entries)

Positions(c) == {p \in Places : Placed(c, p[1], p[2], p[3], p[4])}

(* From p to q the loops pass the place p and no other. *)
Moves(c, p, q) == \A a \in Positions(c) : Before(a, q) <=> Before(a, p) \/ a = p

Passes(c, p1, p2, p3, p4, q1, q2, q3, q4) ==
  \A a1, a2, a3, a4 \in Nat : Placed(c, a1, a2, a3, a4) =>
    (Lexically(a1, a2, a3, a4, q1, q2, q3, q4) <=>
       \/ Lexically(a1, a2, a3, a4, p1, p2, p3, p4)
       \/ a1 = p1 /\ a2 = p2 /\ a3 = p3 /\ a4 = p4)

LEMMA MovesTuples ==
  ASSUME NEW c, NEW p1, NEW p2, NEW p3, NEW p4, NEW q1, NEW q2, NEW q3, NEW q4,
         Passes(c, p1, p2, p3, p4, q1, q2, q3, q4)
  PROVE  Moves(c, <<p1, p2, p3, p4>>, <<q1, q2, q3, q4>>)
<1>1. SUFFICES ASSUME NEW a \in Positions(c)
               PROVE  Before(a, <<q1, q2, q3, q4>>)
                      <=> Before(a, <<p1, p2, p3, p4>>) \/ a = <<p1, p2, p3, p4>>
  BY DEF Moves
<1>2. PICK a1 \in Nat, a2 \in Nat, a3 \in Nat, a4 \in Nat : a = <<a1, a2, a3, a4>>
  BY DEF Positions, Places
<1>3. Placed(c, a1, a2, a3, a4)
  BY <1>2 DEF Positions
<1>4. Before(a, <<q1, q2, q3, q4>>) <=> Lexically(a1, a2, a3, a4, q1, q2, q3, q4)
  BY <1>2, BeforeIsLexical
<1>5. Before(a, <<p1, p2, p3, p4>>) <=> Lexically(a1, a2, a3, a4, p1, p2, p3, p4)
  BY <1>2, BeforeIsLexical
<1>6. a = <<p1, p2, p3, p4>> <=> a1 = p1 /\ a2 = p2 /\ a3 = p3 /\ a4 = p4
  BY <1>2
<1>7. Lexically(a1, a2, a3, a4, q1, q2, q3, q4) <=>
              \/ Lexically(a1, a2, a3, a4, p1, p2, p3, p4)
              \/ a1 = p1 /\ a2 = p2 /\ a3 = p3 /\ a4 = p4
  BY <1>3 DEF Passes
<1> QED
  BY <1>4, <1>5, <1>6, <1>7

(* The lists of a configuration. *)
Listable(c) ==
  /\ \A s \in 1 .. 4 : IsList(Sections(c)[s])
  /\ \A e \in DOMAIN c.ip : IsList(c.ip[e].cidrs)
  /\ \A s \in {3, 4} : \A e \in DOMAIN Sections(c)[s] :
       /\ IsList(Sections(c)[s][e].file)
       /\ \A g \in DOMAIN Sections(c)[s][e].file : IsList(Sections(c)[s][e].file[g].entries)

LEMMA ConfigLists == ASSUME NEW c, IsConfig(c) PROVE Listable(c)
<1>1. \A s \in {3, 4} : s \in 3 .. 4
  OBVIOUS
<1> QED
  BY <1>1 DEF IsConfig, Listable

LEMMA ListOf ==
  ASSUME NEW s, IsList(s)
  PROVE  Len(s) \in Nat /\ DOMAIN s = 1 .. Len(s) /\ DOMAIN s \subseteq Nat
BY DEF IsList

(* The steps of the loops. *)
InLists(c, a1, a2, a3, a4) ==
  /\ a1 \in 1 .. 4 /\ a2 \in 1 .. Len(Sections(c)[a1]) /\ Len(Sections(c)[a1]) \in Nat
  /\ a3 = 0 => a4 > 0 /\ (a1 # 2 => a4 = 1)
  /\ a3 # 0 => a1 \in {3, 4} /\ a4 > 0

LEMMA PlacedInLists ==
  ASSUME NEW c, Listable(c), NEW a1, NEW a2, NEW a3, NEW a4, Placed(c, a1, a2, a3, a4)
  PROVE  InLists(c, a1, a2, a3, a4)
<1>1. a1 \in 1 .. 4 /\ a2 \in DOMAIN Sections(c)[a1]
  BY DEF Placed
<1>2. Len(Sections(c)[a1]) \in Nat /\ DOMAIN Sections(c)[a1] = 1 .. Len(Sections(c)[a1])
  BY <1>1 DEF Listable, IsList
<1>3. a3 = 0 => a4 > 0 /\ (a1 # 2 => a4 = 1)
  BY DEF Placed
<1>4. ASSUME a3 # 0 PROVE a1 \in {3, 4} /\ a4 > 0
  <2>1. a1 \in {3, 4} /\ a2 \in DOMAIN Sections(c)[a1] /\ a3 \in 1 .. Len(Sections(c)[a1][a2].file)
        /\ a4 \in 1 .. Len(Sections(c)[a1][a2].file[a3].entries)
    BY <1>4 DEF Placed
  <2> QED
    BY <2>1
<1> QED
  BY <1>1, <1>2, <1>3, <1>4 DEF InLists

LEMMA MoveStart ==
  ASSUME NEW c, Listable(c)
  PROVE  Moves(c, <<0, 1, 0, 1>>, <<1, 1, 0, 1>>)
<1>1. ASSUME NEW a1 \in Nat, NEW a2 \in Nat, NEW a3 \in Nat, NEW a4 \in Nat,
             Placed(c, a1, a2, a3, a4)
      PROVE  Lexically(a1, a2, a3, a4, 1, 1, 0, 1) <=>
              \/ Lexically(a1, a2, a3, a4, 0, 1, 0, 1)
              \/ a1 = 0 /\ a2 = 1 /\ a3 = 0 /\ a4 = 1
  <2>0. InLists(c, a1, a2, a3, a4)
    BY <1>1, PlacedInLists
  <2>1. a1 > 0 /\ a2 > 0 /\ (a3 = 0 => a4 > 0)
    BY <2>0 DEF InLists
  <2> QED
    BY <2>1 DEF Lexically
<1>2. Passes(c, 0, 1, 0, 1, 1, 1, 0, 1)
  BY <1>1 DEF Passes
<1> QED
  BY <1>2, MovesTuples

LEMMA MoveSection ==
  ASSUME NEW c, Listable(c), NEW s \in 1 .. 4, NEW e \in Nat, e > Len(Sections(c)[s])
  PROVE  Moves(c, <<s, e, 0, 1>>, <<s + 1, 1, 0, 1>>)
<1>0. s \in Nat /\ s + 1 \in Nat
  OBVIOUS
<1>1. ASSUME NEW a1 \in Nat, NEW a2 \in Nat, NEW a3 \in Nat, NEW a4 \in Nat,
             Placed(c, a1, a2, a3, a4)
      PROVE  Lexically(a1, a2, a3, a4, s + 1, 1, 0, 1) <=>
              \/ Lexically(a1, a2, a3, a4, s, e, 0, 1)
              \/ a1 = s /\ a2 = e /\ a3 = 0 /\ a4 = 1
  <2>0. InLists(c, a1, a2, a3, a4)
    BY <1>1, PlacedInLists
  <2>1. a2 > 0 /\ (a3 = 0 => a4 > 0) /\ a2 \in 1 .. Len(Sections(c)[a1]) /\ Len(Sections(c)[a1]) \in Nat
    BY <2>0 DEF InLists
  <2>2. a1 = s => a2 < e
    BY <2>1
  <2> QED
    BY <2>1, <2>2 DEF Lexically
<1>2. Passes(c, s, e, 0, 1, s + 1, 1, 0, 1)
  BY <1>1 DEF Passes
<1> QED
  BY <1>2, MovesTuples

LEMMA MoveItem ==
  ASSUME NEW c, Listable(c), NEW s \in Nat, NEW e \in Nat, NEW g \in Nat, NEW i \in Nat
  PROVE  Moves(c, <<s, e, g, i>>, <<s, e, g, i + 1>>)
<1>0. i + 1 \in Nat
  OBVIOUS
<1>1. ASSUME NEW a1 \in Nat, NEW a2 \in Nat, NEW a3 \in Nat, NEW a4 \in Nat,
             Placed(c, a1, a2, a3, a4)
      PROVE  Lexically(a1, a2, a3, a4, s, e, g, i + 1) <=>
              \/ Lexically(a1, a2, a3, a4, s, e, g, i)
              \/ a1 = s /\ a2 = e /\ a3 = g /\ a4 = i
  BY DEF Lexically
<1>2. Passes(c, s, e, g, i, s, e, g, i + 1)
  BY <1>1 DEF Passes
<1> QED
  BY <1>2, MovesTuples

(* A group: no rule of it is left, or none has been read. *)
LEMMA MoveGroup ==
  ASSUME NEW c, Listable(c), NEW s \in 3 .. 4, NEW e \in DOMAIN Sections(c)[s], NEW g \in Nat,
         NEW i \in Nat, i > 0, g = 0 => i = 1,
         g > 0 => /\ g \in DOMAIN Sections(c)[s][e].file
                  /\ i > Len(Sections(c)[s][e].file[g].entries)
  PROVE  Moves(c, <<s, e, g, i>>, <<s, e, g + 1, 0>>)
<1>0. s \in Nat /\ e \in Nat /\ g + 1 \in Nat /\ s # 2
  <2>1. s \in Nat /\ g + 1 \in Nat /\ s # 2 /\ s \in 1 .. 4
    OBVIOUS
  <2>2. e \in Nat
    BY <2>1, SMTT(30) DEF Listable, IsList
  <2> QED
    BY <2>1, <2>2
<1>1. ASSUME NEW a1 \in Nat, NEW a2 \in Nat, NEW a3 \in Nat, NEW a4 \in Nat,
             Placed(c, a1, a2, a3, a4)
      PROVE  Lexically(a1, a2, a3, a4, s, e, g + 1, 0) <=>
              \/ Lexically(a1, a2, a3, a4, s, e, g, i)
              \/ a1 = s /\ a2 = e /\ a3 = g /\ a4 = i
  <2>0. InLists(c, a1, a2, a3, a4)
    BY <1>1, PlacedInLists
  <2>1. a4 > 0 /\ (a3 = 0 /\ a1 # 2 => a4 = 1)
    BY <2>0 DEF InLists
  <2>2. ASSUME a1 = s, a2 = e, a3 = g PROVE a4 <= i
    <3>1. CASE g = 0
      BY <1>0, <2>1, <2>2, <3>1
    <3>2. CASE g > 0
      <4>1. a4 \in 1 .. Len(Sections(c)[s][e].file[g].entries) /\ Len(Sections(c)[s][e].file[g].entries) \in Nat
        <5>1. IsList(Sections(c)[s][e].file[g].entries)
          BY <3>2 DEF Listable
        <5>2. a4 \in 1 .. Len(Sections(c)[s][e].file[g].entries)
          BY <1>1, <2>2, <3>2 DEF Placed
        <5> QED
          BY <5>1, <5>2 DEF IsList
      <4> QED
        BY <3>2, <4>1
    <3> QED
      BY <3>1, <3>2
  <2> QED
    BY <1>0, <2>1, <2>2 DEF Lexically
<1>2. Passes(c, s, e, g, i, s, e, g + 1, 0)
  BY <1>1 DEF Passes
<1> QED
  BY <1>2, MovesTuples

(* An entry: no rule of it is left. *)
EntryRead(c, s, e, g, i) ==
  /\ s \in 1 .. 4 /\ e \in DOMAIN Sections(c)[s] /\ g \in Nat /\ i \in Nat
  /\ s \in {1, 2} => g = 0
  /\ s = 1 => i = 1
  /\ s = 2 => i > Len(c.ip[e].cidrs)
  /\ s \in {3, 4} => g = Len(Sections(c)[s][e].file) + 1

LEMMA MoveEntry ==
  ASSUME NEW c, Listable(c), NEW s, NEW e, NEW g, NEW i, EntryRead(c, s, e, g, i)
  PROVE  Moves(c, <<s, e, g, i>>, <<s, e + 1, 0, 1>>)
<1>a. /\ s \in 1 .. 4 /\ e \in DOMAIN Sections(c)[s] /\ g \in Nat /\ i \in Nat
      /\ s \in {1, 2} => g = 0
      /\ s = 1 => i = 1
      /\ s = 2 => i > Len(c.ip[e].cidrs)
      /\ s \in {3, 4} => g = Len(Sections(c)[s][e].file) + 1
  BY DEF EntryRead
<1>0. s \in Nat /\ e \in Nat /\ e + 1 \in Nat
  <2>1. IsList(Sections(c)[s])
    BY <1>a DEF Listable
  <2>2. e \in 1 .. Len(Sections(c)[s]) /\ Len(Sections(c)[s]) \in Nat
    BY <1>a, <2>1 DEF IsList
  <2> QED
    BY <1>a, <2>2
<1>1. ASSUME NEW a1 \in Nat, NEW a2 \in Nat, NEW a3 \in Nat, NEW a4 \in Nat,
             Placed(c, a1, a2, a3, a4)
      PROVE  Lexically(a1, a2, a3, a4, s, e + 1, 0, 1) <=>
              \/ Lexically(a1, a2, a3, a4, s, e, g, i)
              \/ a1 = s /\ a2 = e /\ a3 = g /\ a4 = i
  <2>0. InLists(c, a1, a2, a3, a4)
    BY <1>1, PlacedInLists
  <2>1. a4 > 0 /\ (a3 = 0 /\ a1 # 2 => a4 = 1) /\ (a3 # 0 => a1 \in {3, 4})
    BY <2>0 DEF InLists
  <2>2. ASSUME a1 = s, a2 = e PROVE a3 < g \/ (a3 = g /\ a4 <= i)
    <3>1. CASE s = 1
      BY <1>a, <2>1, <2>2, <3>1
    <3>2. CASE s = 2
      <4>1. a4 <= Len(c.ip[e].cidrs) /\ Sections(c)[2] = c.ip
        BY <1>1, <2>1, <2>2, <3>2 DEF Placed, Sections
      <4>2. e \in DOMAIN c.ip /\ Len(c.ip[e].cidrs) \in Nat
        BY <1>a, <3>2, <4>1 DEF Listable, IsList
      <4> QED
        BY <1>a, <2>1, <2>2, <3>2, <4>1, <4>2
    <3>3. CASE s \in {3, 4}
      <4>1. a3 = 0 \/ a3 \in 1 .. Len(Sections(c)[s][e].file)
        BY <1>1, <2>2 DEF Placed
      <4>2. Len(Sections(c)[s][e].file) \in Nat
        BY <1>a, <3>3 DEF Listable, IsList
      <4> QED
        BY <1>a, <3>3, <4>1, <4>2
    <3> QED
      BY <1>a, <3>1, <3>2, <3>3
  <2> QED
    BY <1>0, <1>a, <2>1, <2>2 DEF Lexically
<1>2. Passes(c, s, e, g, i, s, e + 1, 0, 1)
  BY <1>1 DEF Passes
<1> QED
  BY <1>2, MovesTuples

(* Rules at a place. *)
LEMMA RuleFields ==
  \A p, t, v : Rule(p, t, v).at = p /\ Rule(p, t, v).tag = t /\ Rule(p, t, v).val = v
BY DEF Rule

FileRuleAt(s, es, e, g, i, r) ==
  /\ e \in DOMAIN es /\ g \in Named(es[e]) /\ i \in DOMAIN es[e].file[g].entries
  /\ r = Rule(<<s, e, g, i>>, es[e].tag, es[e].file[g].entries[i])

LEMMA InFileRules ==
  ASSUME NEW s, NEW es, NEW r
  PROVE  r \in FileRules(s, es) <=> \E e, g, i : FileRuleAt(s, es, e, g, i, r)
<1> DEFINE R(e, g, i) == Rule(<<s, e, g, i>>, es[e].tag, es[e].file[g].entries[i])
           G(e, g) == {R(e, g, i) : i \in DOMAIN es[e].file[g].entries}
           E(e) == UNION {G(e, g) : g \in Named(es[e])}
<1>1. FileRules(s, es) = UNION {E(e) : e \in DOMAIN es}
  BY DEF FileRules
<1>2. \A e, g, i : FileRuleAt(s, es, e, g, i, r) <=>
        e \in DOMAIN es /\ g \in Named(es[e]) /\ i \in DOMAIN es[e].file[g].entries /\ r = R(e, g, i)
  BY DEF FileRuleAt
<1>3. \A e, g : r \in G(e, g) <=> \E i \in DOMAIN es[e].file[g].entries : r = R(e, g, i)
  <2> HIDE DEF R
  <2> QED
    OBVIOUS
<1>4. \A e : r \in E(e) <=> \E g \in Named(es[e]) : r \in G(e, g)
  <2> HIDE DEF G
  <2> QED
    OBVIOUS
<1>5. r \in FileRules(s, es) <=> \E e \in DOMAIN es : r \in E(e)
  <2> HIDE DEF E
  <2> QED
    BY <1>1
<1> HIDE DEF R, G, E
<1> QED
  BY <1>2, <1>3, <1>4, <1>5, Zenon

(* The rules for names in the domain section. *)
DomainRuleAt(c, vals, e, r) ==
  e \in DOMAIN c.domain /\ \E v \in vals : r = Rule(<<1, e, 0, 1>>, c.domain[e].tag, v)

NameAt(c, s, e, g, i, r) ==
  \/ s = 1 /\ g = 0 /\ i = 1 /\ DomainRuleAt(c, c.domain[e].rules, e, r)
  \/ s = 3 /\ FileRuleAt(3, c.geosite, e, g, i, r) /\ r.val \notin Regexes

RegexAt(c, s, e, g, i, r) ==
  \/ s = 1 /\ g = 0 /\ i = 1 /\ DomainRuleAt(c, c.domain[e].regex, e, r)
  \/ s = 3 /\ FileRuleAt(3, c.geosite, e, g, i, r) /\ r.val \in Regexes

CidrAt(c, s, e, g, i, r) ==
  /\ r.val.prefix <= Width
  /\ \/ s = 2 /\ g = 0 /\ e \in DOMAIN c.ip /\ i \in DOMAIN c.ip[e].cidrs
        /\ r = Rule(<<2, e, 0, i>>, c.ip[e].tag, c.ip[e].cidrs[i])
     \/ s = 4 /\ FileRuleAt(4, c.geoip, e, g, i, r)

MentionAt(c, s, e, g, i, r) ==
  /\ s \in {1, 3} /\ g = 0 /\ i = 1 /\ e \in DOMAIN Sections(c)[s] /\ Sections(c)[s][e].rules # {}
  /\ r = Rule(<<s, e, 0, 1>>, Sections(c)[s][e].tag, {})

LEMMA InNameRules ==
  ASSUME NEW c, NEW r
  PROVE  r \in NameRules(c) <=> \E s, e, g, i : NameAt(c, s, e, g, i, r)
<1> DEFINE R(e, v) == Rule(<<1, e, 0, 1>>, c.domain[e].tag, v)
           E(e) == {R(e, v) : v \in c.domain[e].rules}
           F == {x \in FileRules(3, c.geosite) : x.val \notin Regexes}
           V == UNION {E(e) : e \in DOMAIN c.domain}
<1>1. NameRules(c) = V \cup F
  BY DEF NameRules
<1>2. \A e : r \in E(e) <=> \E v \in c.domain[e].rules : r = R(e, v)
  <2> HIDE DEF R
  <2> QED
    OBVIOUS
<1>3. \A e : DomainRuleAt(c, c.domain[e].rules, e, r) <=> e \in DOMAIN c.domain /\ r \in E(e)
  <2> HIDE DEF E
  <2> QED
    BY <1>2 DEF DomainRuleAt
<1>4. r \in F <=> r.val \notin Regexes /\ \E e, g, i : FileRuleAt(3, c.geosite, e, g, i, r)
  BY InFileRules, Zenon
<1>5. r \in NameRules(c) <=> (\E e \in DOMAIN c.domain : r \in E(e)) \/ r \in F
  <2> HIDE DEF E, F
  <2>1. r \in V <=> \E e \in DOMAIN c.domain : r \in E(e)
    OBVIOUS
  <2> HIDE DEF V
  <2> QED
    BY <1>1, <2>1, Zenon
<1> HIDE DEF E, F, V
<1>6. r \in NameRules(c) <=> (\E e : DomainRuleAt(c, c.domain[e].rules, e, r)) \/ r \in F
  BY <1>3, <1>5, Zenon
<1> QED
  BY <1>4, <1>6 DEF NameAt

LEMMA InRegexRules ==
  ASSUME NEW c, NEW r
  PROVE  r \in RegexRules(c) <=> \E s, e, g, i : RegexAt(c, s, e, g, i, r)
<1> DEFINE R(e, v) == Rule(<<1, e, 0, 1>>, c.domain[e].tag, v)
           E(e) == {R(e, v) : v \in c.domain[e].regex}
           F == {x \in FileRules(3, c.geosite) : x.val \in Regexes}
           V == UNION {E(e) : e \in DOMAIN c.domain}
<1>1. RegexRules(c) = V \cup F
  BY DEF RegexRules
<1>2. \A e : r \in E(e) <=> \E v \in c.domain[e].regex : r = R(e, v)
  <2> HIDE DEF R
  <2> QED
    OBVIOUS
<1>3. \A e : DomainRuleAt(c, c.domain[e].regex, e, r) <=> e \in DOMAIN c.domain /\ r \in E(e)
  <2> HIDE DEF E
  <2> QED
    BY <1>2 DEF DomainRuleAt
<1>4. r \in F <=> r.val \in Regexes /\ \E e, g, i : FileRuleAt(3, c.geosite, e, g, i, r)
  BY InFileRules, Zenon
<1>5. r \in RegexRules(c) <=> (\E e \in DOMAIN c.domain : r \in E(e)) \/ r \in F
  <2> HIDE DEF E, F
  <2>1. r \in V <=> \E e \in DOMAIN c.domain : r \in E(e)
    OBVIOUS
  <2> HIDE DEF V
  <2> QED
    BY <1>1, <2>1, Zenon
<1> HIDE DEF E, F, V
<1>6. r \in RegexRules(c) <=> (\E e : DomainRuleAt(c, c.domain[e].regex, e, r)) \/ r \in F
  BY <1>3, <1>5, Zenon
<1> QED
  BY <1>4, <1>6 DEF RegexAt

LEMMA InCidrRules ==
  ASSUME NEW c, NEW r
  PROVE  r \in CidrRules(c) <=> \E s, e, g, i : CidrAt(c, s, e, g, i, r)
<1> DEFINE R(e, i) == Rule(<<2, e, 0, i>>, c.ip[e].tag, c.ip[e].cidrs[i])
           E(e) == {R(e, i) : i \in DOMAIN c.ip[e].cidrs}
           F == FileRules(4, c.geoip)
           V == UNION {E(e) : e \in DOMAIN c.ip}
           U == F \cup V
<1>1. CidrRules(c) = {x \in U : x.val.prefix <= Width}
  BY DEF CidrRules
<1>2. \A e : r \in E(e) <=> \E i \in DOMAIN c.ip[e].cidrs : r = R(e, i)
  <2> HIDE DEF R
  <2> QED
    OBVIOUS
<1>3. r \in U <=> (\E e \in DOMAIN c.ip : r \in E(e)) \/ r \in F
  <2> HIDE DEF E, F
  <2>1. r \in V <=> \E e \in DOMAIN c.ip : r \in E(e)
    OBVIOUS
  <2> HIDE DEF V
  <2> QED
    BY <2>1, Zenon
<1>4. r \in F <=> \E e, g, i : FileRuleAt(4, c.geoip, e, g, i, r)
  BY InFileRules, Zenon
<1>5. r \in CidrRules(c) <=> r \in U /\ r.val.prefix <= Width
  <2> HIDE DEF U
  <2> QED
    BY <1>1
<1> HIDE DEF E, F, U, V
<1> QED
  BY <1>2, <1>3, <1>4, <1>5 DEF CidrAt

LEMMA InMentions ==
  ASSUME NEW c, NEW r
  PROVE  r \in Mentions(c) <=> \E s, e, g, i : MentionAt(c, s, e, g, i, r)
<1> DEFINE R(s, e) == Rule(<<s, e, 0, 1>>, Sections(c)[s][e].tag, {})
           X(s) == {x \in DOMAIN Sections(c)[s] : Sections(c)[s][x].rules # {}}
           E(s) == {R(s, e) : e \in X(s)}
<1>1. Mentions(c) = UNION {E(s) : s \in {1, 3}}
  BY DEF Mentions
<1>2. \A s : r \in E(s) <=> \E e \in X(s) : r = R(s, e)
  <2> HIDE DEF R, X
  <2> QED
    OBVIOUS
<1>3. r \in Mentions(c) <=> \E s \in {1, 3} : r \in E(s)
  <2> HIDE DEF E
  <2> QED
    BY <1>1
<1> HIDE DEF E
<1> QED
  BY <1>2, <1>3 DEF MentionAt

LEMMA TupleFields ==
  ASSUME NEW a1, NEW a2, NEW a3, NEW a4, NEW b1, NEW b2, NEW b3, NEW b4,
         <<a1, a2, a3, a4>> = <<b1, b2, b3, b4>>
  PROVE  a1 = b1 /\ a2 = b2 /\ a3 = b3 /\ a4 = b4
OBVIOUS

LEMMA FileRulePlace ==
  ASSUME NEW s, NEW es, NEW e, NEW g, NEW i, NEW r, FileRuleAt(s, es, e, g, i, r)
  PROVE  r.at = <<s, e, g, i>>
BY RuleFields DEF FileRuleAt

(* Each rule is at one place. *)
LEMMA NamePlace ==
  ASSUME NEW c, NEW s, NEW e, NEW g, NEW i, NEW r, NameAt(c, s, e, g, i, r)
  PROVE  r.at = <<s, e, g, i>>
BY RuleFields, FileRulePlace DEF NameAt, DomainRuleAt

LEMMA RegexPlace ==
  ASSUME NEW c, NEW s, NEW e, NEW g, NEW i, NEW r, RegexAt(c, s, e, g, i, r)
  PROVE  r.at = <<s, e, g, i>>
BY RuleFields, FileRulePlace DEF RegexAt, DomainRuleAt

LEMMA CidrPlace ==
  ASSUME NEW c, NEW s, NEW e, NEW g, NEW i, NEW r, CidrAt(c, s, e, g, i, r)
  PROVE  r.at = <<s, e, g, i>>
BY RuleFields, FileRulePlace DEF CidrAt

LEMMA MentionPlace ==
  ASSUME NEW c, NEW s, NEW e, NEW g, NEW i, NEW r, MentionAt(c, s, e, g, i, r)
  PROVE  r.at = <<s, e, g, i>>
BY RuleFields DEF MentionAt

Here(rules, p) == {r \in rules : r.at = p}

LEMMA NameHere ==
  ASSUME NEW c, NEW s, NEW e, NEW g, NEW i, NEW r
  PROVE  r \in Here(NameRules(c), <<s, e, g, i>>) <=> NameAt(c, s, e, g, i, r)
<1>1. r \in Here(NameRules(c), <<s, e, g, i>>) <=> r \in NameRules(c) /\ r.at = <<s, e, g, i>>
  BY DEF Here
<1>2. ASSUME NameAt(c, s, e, g, i, r) PROVE r \in NameRules(c) /\ r.at = <<s, e, g, i>>
  BY <1>2, InNameRules, NamePlace
<1>3. ASSUME r \in NameRules(c), r.at = <<s, e, g, i>> PROVE NameAt(c, s, e, g, i, r)
  <2>1. PICK s2, e2, g2, i2 : NameAt(c, s2, e2, g2, i2, r)
    BY <1>3, InNameRules
  <2>2. <<s, e, g, i>> = <<s2, e2, g2, i2>>
    BY <1>3, <2>1, NamePlace
  <2>3. s = s2 /\ e = e2 /\ g = g2 /\ i = i2
    BY <2>2, TupleFields
  <2> QED
    BY <2>1, <2>3
<1> QED
  BY <1>1, <1>2, <1>3

LEMMA RegexHere ==
  ASSUME NEW c, NEW s, NEW e, NEW g, NEW i, NEW r
  PROVE  r \in Here(RegexRules(c), <<s, e, g, i>>) <=> RegexAt(c, s, e, g, i, r)
<1>1. r \in Here(RegexRules(c), <<s, e, g, i>>) <=> r \in RegexRules(c) /\ r.at = <<s, e, g, i>>
  BY DEF Here
<1>2. ASSUME RegexAt(c, s, e, g, i, r) PROVE r \in RegexRules(c) /\ r.at = <<s, e, g, i>>
  BY <1>2, InRegexRules, RegexPlace
<1>3. ASSUME r \in RegexRules(c), r.at = <<s, e, g, i>> PROVE RegexAt(c, s, e, g, i, r)
  <2>1. PICK s2, e2, g2, i2 : RegexAt(c, s2, e2, g2, i2, r)
    BY <1>3, InRegexRules
  <2>2. <<s, e, g, i>> = <<s2, e2, g2, i2>>
    BY <1>3, <2>1, RegexPlace
  <2>3. s = s2 /\ e = e2 /\ g = g2 /\ i = i2
    BY <2>2, TupleFields
  <2> QED
    BY <2>1, <2>3
<1> QED
  BY <1>1, <1>2, <1>3

LEMMA CidrHere ==
  ASSUME NEW c, NEW s, NEW e, NEW g, NEW i, NEW r
  PROVE  r \in Here(CidrRules(c), <<s, e, g, i>>) <=> CidrAt(c, s, e, g, i, r)
<1>1. r \in Here(CidrRules(c), <<s, e, g, i>>) <=> r \in CidrRules(c) /\ r.at = <<s, e, g, i>>
  BY DEF Here
<1>2. ASSUME CidrAt(c, s, e, g, i, r) PROVE r \in CidrRules(c) /\ r.at = <<s, e, g, i>>
  BY <1>2, InCidrRules, CidrPlace
<1>3. ASSUME r \in CidrRules(c), r.at = <<s, e, g, i>> PROVE CidrAt(c, s, e, g, i, r)
  <2>1. PICK s2, e2, g2, i2 : CidrAt(c, s2, e2, g2, i2, r)
    BY <1>3, InCidrRules
  <2>2. <<s, e, g, i>> = <<s2, e2, g2, i2>>
    BY <1>3, <2>1, CidrPlace
  <2>3. s = s2 /\ e = e2 /\ g = g2 /\ i = i2
    BY <2>2, TupleFields
  <2> QED
    BY <2>1, <2>3
<1> QED
  BY <1>1, <1>2, <1>3

LEMMA MentionHere ==
  ASSUME NEW c, NEW s, NEW e, NEW g, NEW i, NEW r
  PROVE  r \in Here(Mentions(c), <<s, e, g, i>>) <=> MentionAt(c, s, e, g, i, r)
<1>1. r \in Here(Mentions(c), <<s, e, g, i>>) <=> r \in Mentions(c) /\ r.at = <<s, e, g, i>>
  BY DEF Here
<1>2. ASSUME MentionAt(c, s, e, g, i, r) PROVE r \in Mentions(c) /\ r.at = <<s, e, g, i>>
  BY <1>2, InMentions, MentionPlace
<1>3. ASSUME r \in Mentions(c), r.at = <<s, e, g, i>> PROVE MentionAt(c, s, e, g, i, r)
  <2>1. PICK s2, e2, g2, i2 : MentionAt(c, s2, e2, g2, i2, r)
    BY <1>3, InMentions
  <2>2. <<s, e, g, i>> = <<s2, e2, g2, i2>>
    BY <1>3, <2>1, MentionPlace
  <2>3. s = s2 /\ e = e2 /\ g = g2 /\ i = i2
    BY <2>2, TupleFields
  <2> QED
    BY <2>1, <2>3
<1> QED
  BY <1>1, <1>2, <1>3

(* All of them are at places the loops come to. *)
LEMMA FilePlaced ==
  ASSUME NEW c, Listable(c), NEW s \in {3, 4}, NEW e, NEW g, NEW i, NEW r,
         FileRuleAt(s, Sections(c)[s], e, g, i, r)
  PROVE  e \in Nat /\ g \in Nat /\ i \in Nat /\ Placed(c, s, e, g, i)
<1>1. e \in DOMAIN Sections(c)[s] /\ g \in DOMAIN Sections(c)[s][e].file
      /\ i \in DOMAIN Sections(c)[s][e].file[g].entries
  BY DEF FileRuleAt, Named
<1>2. IsList(Sections(c)[s]) /\ IsList(Sections(c)[s][e].file) /\ IsList(Sections(c)[s][e].file[g].entries)
  BY <1>1 DEF Listable
<1>3. /\ s \in 1 .. 4 /\ e \in Nat /\ g \in Nat /\ i \in Nat
      /\ g \in 1 .. Len(Sections(c)[s][e].file) /\ i \in 1 .. Len(Sections(c)[s][e].file[g].entries)
  BY <1>1, <1>2 DEF IsList
<1> QED
  BY <1>1, <1>3 DEF Placed

LEMMA SectionsAre ==
  \A c : Sections(c)[1] = c.domain /\ Sections(c)[2] = c.ip /\ Sections(c)[3] = c.geosite /\ Sections(c)[4] = c.geoip
BY DEF Sections

LEMMA EntryPlaced ==
  ASSUME NEW c, Listable(c), NEW s \in {1, 3, 4}, NEW e \in DOMAIN Sections(c)[s]
  PROVE  e \in Nat /\ Placed(c, s, e, 0, 1)
<1>1. IsList(Sections(c)[s])
  BY DEF Listable
<1> QED
  BY <1>1 DEF Placed, IsList

LEMMA IpPlaced ==
  ASSUME NEW c, Listable(c), NEW e \in DOMAIN c.ip, NEW i \in DOMAIN c.ip[e].cidrs
  PROVE  e \in Nat /\ i \in Nat /\ Placed(c, 2, e, 0, i)
<1>1. IsList(c.ip) /\ IsList(c.ip[e].cidrs)
  BY SectionsAre DEF Listable
<1> QED
  BY <1>1, SectionsAre DEF Placed, IsList

LEMMA PlacedPositions ==
  ASSUME NEW c, NEW s \in Nat, NEW e \in Nat, NEW g \in Nat, NEW i \in Nat, Placed(c, s, e, g, i)
  PROVE  <<s, e, g, i>> \in Positions(c)
BY DEF Positions, Places

LEMMA RulesPlaced ==
  ASSUME NEW c, Listable(c)
  PROVE  \A r \in NameRules(c) \cup RegexRules(c) \cup CidrRules(c) \cup Mentions(c) : r.at \in Positions(c)
<1>1. ASSUME NEW r, NEW s, NEW e, NEW g, NEW i, NameAt(c, s, e, g, i, r) \/ RegexAt(c, s, e, g, i, r)
      PROVE  r.at \in Positions(c)
  <2>1. r.at = <<s, e, g, i>>
    BY <1>1, NamePlace, RegexPlace
  <2>2. CASE s = 1
    <3>1. s = 1 /\ g = 0 /\ i = 1 /\ e \in DOMAIN Sections(c)[1]
      BY <1>1, <2>2, SectionsAre DEF NameAt, RegexAt, DomainRuleAt
    <3>2. e \in Nat /\ Placed(c, 1, e, 0, 1)
      BY <3>1, EntryPlaced
    <3> QED
      BY <2>1, <3>1, <3>2, PlacedPositions
  <2>3. CASE s # 1
    <3>1. s = 3 /\ FileRuleAt(3, Sections(c)[3], e, g, i, r)
      BY <1>1, <2>3, SectionsAre DEF NameAt, RegexAt
    <3>2. e \in Nat /\ g \in Nat /\ i \in Nat /\ Placed(c, 3, e, g, i)
      BY <3>1, FilePlaced
    <3> QED
      BY <2>1, <3>1, <3>2, PlacedPositions
  <2> QED
    BY <2>2, <2>3
<1>2. ASSUME NEW r, NEW s, NEW e, NEW g, NEW i, CidrAt(c, s, e, g, i, r)
      PROVE  r.at \in Positions(c)
  <2>1. r.at = <<s, e, g, i>>
    BY <1>2, CidrPlace
  <2>2. CASE s = 2
    <3>1. s = 2 /\ g = 0 /\ e \in DOMAIN c.ip /\ i \in DOMAIN c.ip[e].cidrs
      BY <1>2, <2>2 DEF CidrAt
    <3>2. e \in Nat /\ i \in Nat /\ Placed(c, 2, e, 0, i)
      BY <3>1, IpPlaced
    <3> QED
      BY <2>1, <3>1, <3>2, PlacedPositions
  <2>3. CASE s # 2
    <3>1. s = 4 /\ FileRuleAt(4, Sections(c)[4], e, g, i, r)
      BY <1>2, <2>3, SectionsAre DEF CidrAt
    <3>2. e \in Nat /\ g \in Nat /\ i \in Nat /\ Placed(c, 4, e, g, i)
      BY <3>1, FilePlaced
    <3> QED
      BY <2>1, <3>1, <3>2, PlacedPositions
  <2> QED
    BY <2>2, <2>3
<1>3. ASSUME NEW r, NEW s, NEW e, NEW g, NEW i, MentionAt(c, s, e, g, i, r)
      PROVE  r.at \in Positions(c)
  <2>1. r.at = <<s, e, g, i>>
    BY <1>3, MentionPlace
  <2>2. s \in {1, 3, 4} /\ g = 0 /\ i = 1 /\ e \in DOMAIN Sections(c)[s]
    BY <1>3 DEF MentionAt
  <2>3. e \in Nat /\ Placed(c, s, e, 0, 1)
    BY <2>2, EntryPlaced
  <2> QED
    BY <2>1, <2>2, <2>3, PlacedPositions
<1>4. ASSUME NEW r \in NameRules(c) PROVE r.at \in Positions(c)
  BY <1>1, InNameRules
<1>5. ASSUME NEW r \in RegexRules(c) PROVE r.at \in Positions(c)
  BY <1>1, InRegexRules
<1>6. ASSUME NEW r \in CidrRules(c) PROVE r.at \in Positions(c)
  BY <1>2, InCidrRules
<1>7. ASSUME NEW r \in Mentions(c) PROVE r.at \in Positions(c)
  BY <1>3, InMentions
<1> QED
  BY <1>4, <1>5, <1>6, <1>7

(* What a step adds to the rules that are done. *)
LEMMA DoneMoves ==
  ASSUME NEW c, NEW p, NEW q, Moves(c, p, q), NEW rules, \A r \in rules : r.at \in Positions(c)
  PROVE  Done(rules, q) = Done(rules, p) \cup Here(rules, p)
BY DEF Moves, Done, Here

-----------------------------------------------------------------------------
(* Inserting into a map. *)
KeyPairs(k, vals) == {<<k, v>> : v \in vals}

Inserted(m, k, vals, m2) ==
  /\ Listed(m2)
  /\ Pairs(m2) = Pairs(m) \cup KeyPairs(k, vals)
  /\ Keys(m2) = Keys(m) \cup {k}
  /\ DOMAIN m \subseteq DOMAIN m2 /\ DOMAIN m2 \subseteq Nat
  /\ \A i \in DOMAIN m : m2[i].key = m[i].key
  /\ \A j \in DOMAIN m2 \ DOMAIN m :
       m2[j].key = k /\ k \notin Keys(m) /\ \A i \in DOMAIN m2 : i <= j

LEMMA ListedIs ==
  ASSUME NEW m, Listed(m)
  PROVE  Len(m) \in Nat /\ DOMAIN m = 1 .. Len(m) /\ m = [i \in 1 .. Len(m) |-> m[i]]
<1>1. PICK S : m \in Seq(S)
  BY DEF Listed
<1>2. Len(m) \in Nat /\ DOMAIN m = 1 .. Len(m)
  BY <1>1, LenProperties
<1>3. m = [i \in 1 .. Len(m) |-> m[i]]
  BY <1>1
<1> QED
  BY <1>2, <1>3

LEMMA IsListed ==
  ASSUME NEW m, NEW n \in Nat, DOMAIN m = 1 .. n, m = [i \in 1 .. n |-> m[i]]
  PROVE  Listed(m)
<1>1. PICK S : S = {m[i] : i \in DOMAIN m}
  OBVIOUS
<1>2. m \in [1 .. n -> S]
  BY <1>1
<1>3. m \in Seq(S)
  BY <1>2, SeqDef
<1> QED
  BY <1>1, <1>3 DEF Listed

LEMMA InPairs ==
  ASSUME NEW m, NEW x
  PROVE  x \in Pairs(m) <=> \E i \in DOMAIN m : \E v \in m[i].vals : x = <<m[i].key, v>>
<1> DEFINE E(i) == {<<m[i].key, v>> : v \in m[i].vals}
<1>1. Pairs(m) = UNION {E(i) : i \in DOMAIN m}
  BY DEF Pairs
<1>2. \A i : x \in E(i) <=> \E v \in m[i].vals : x = <<m[i].key, v>>
  OBVIOUS
<1>3. x \in Pairs(m) <=> \E i \in DOMAIN m : x \in E(i)
  <2> HIDE DEF E
  <2> QED
    BY <1>1
<1> HIDE DEF E
<1> QED
  BY <1>2, <1>3

LEMMA InsertExtends ==
  ASSUME NEW m, Listed(m), NEW k \in Keys(m), NEW vals, NEW m2, m2 = Insert(m, k, vals)
  PROVE  Inserted(m, k, vals, m2)
<1>1. PICK n \in Nat : n = Len(m) /\ DOMAIN m = 1 .. n
  BY ListedIs
<1>2. m2 = [i \in DOMAIN m |-> IF m[i].key = k THEN [key |-> k, vals |-> m[i].vals \cup vals] ELSE m[i]]
  BY DEF Insert, Extend
<1>3. DOMAIN m2 = 1 .. n /\ DOMAIN m2 = DOMAIN m /\ m2 = [i \in 1 .. n |-> m2[i]]
  BY <1>1, <1>2
<1>4. ASSUME NEW i \in DOMAIN m
      PROVE  /\ m2[i].key = m[i].key
             /\ m[i].key = k => m2[i].vals = m[i].vals \cup vals
             /\ m[i].key # k => m2[i].vals = m[i].vals
  <2>1. CASE m[i].key = k
    <3>1. m2[i] = [key |-> k, vals |-> m[i].vals \cup vals]
      BY <1>2, <2>1
    <3> QED
      BY <2>1, <3>1
  <2>2. CASE m[i].key # k
    <3>1. m2[i] = m[i]
      BY <1>2, <2>2
    <3> QED
      BY <2>2, <3>1
  <2> QED
    BY <2>1, <2>2
<1>5. Listed(m2)
  BY <1>3, IsListed
<1>6. Keys(m2) = Keys(m) \cup {k}
  <2>1. \A i \in DOMAIN m2 : m2[i].key = m[i].key
    BY <1>3, <1>4
  <2>2. {m2[i].key : i \in DOMAIN m2} = {m[i].key : i \in DOMAIN m}
    BY <1>3, <2>1
  <2> QED
    BY <2>2 DEF Keys
<1>7. PICK h \in DOMAIN m : m[h].key = k
  BY DEF Keys
<1>8. Pairs(m2) = Pairs(m) \cup KeyPairs(k, vals)
  <2>1. ASSUME NEW x \in Pairs(m2) PROVE x \in Pairs(m) \cup KeyPairs(k, vals)
    <3>0. PICK i, v : i \in DOMAIN m2 /\ v \in m2[i].vals /\ x = <<m2[i].key, v>>
      BY <2>1, InPairs
    <3>1. i \in DOMAIN m /\ v \in m2[i].vals /\ x = <<m[i].key, v>>
      BY <1>3, <1>4, <3>0
    <3>2. CASE v \in m[i].vals
      BY <3>1, <3>2, InPairs
    <3>3. CASE v \notin m[i].vals
      <4>1. m[i].key = k /\ v \in vals
        BY <1>4, <3>1, <3>3
      <4> QED
        BY <3>1, <4>1 DEF KeyPairs
    <3> QED
      BY <3>2, <3>3
  <2>2. ASSUME NEW x \in Pairs(m) PROVE x \in Pairs(m2)
    <3>1. PICK i, v : i \in DOMAIN m /\ v \in m[i].vals /\ x = <<m[i].key, v>>
      BY InPairs
    <3>2. v \in m2[i].vals /\ i \in DOMAIN m2 /\ m2[i].key = m[i].key
      BY <1>3, <1>4, <3>1
    <3> QED
      BY <3>1, <3>2, InPairs
  <2>3. ASSUME NEW x \in KeyPairs(k, vals) PROVE x \in Pairs(m2)
    <3>1. PICK v \in vals : x = <<k, v>>
      BY DEF KeyPairs
    <3>2. v \in m2[h].vals /\ h \in DOMAIN m2 /\ m2[h].key = k
      BY <1>3, <1>4, <1>7
    <3> QED
      BY <3>1, <3>2, InPairs
  <2> QED
    BY <2>1, <2>2, <2>3
<1> QED
  BY <1>1, <1>3, <1>4, <1>5, <1>6, <1>8 DEF Inserted

LEMMA InsertAppends ==
  ASSUME NEW m, Listed(m), NEW k, k \notin Keys(m), NEW vals, NEW m2, m2 = Insert(m, k, vals)
  PROVE  Inserted(m, k, vals, m2)
<1>1. PICK n \in Nat : n = Len(m) /\ DOMAIN m = 1 .. n
  BY ListedIs
<1>2. PICK new : new = [key |-> k, vals |-> vals]
  OBVIOUS
<1>3. m2 = Append(m, new) /\ new.key = k /\ new.vals = vals
  BY <1>2 DEF Insert
<1>4. PICK S : S = {m[i] : i \in DOMAIN m} \cup {new}
  OBVIOUS
<1>5. m \in Seq(S) /\ new \in S
  <2>1. m \in [1 .. n -> S]
    BY <1>1, <1>4, ListedIs
  <2> QED
    BY <1>4, <2>1, SeqDef
<1>6. /\ m2 \in Seq(S) /\ Len(m2) = n + 1 /\ \A i \in 1 .. n : m2[i] = m[i]
      /\ m2[n + 1] = new
  BY <1>1, <1>3, <1>5, AppendProperties
<1>7. DOMAIN m2 = 1 .. n + 1 /\ n + 1 \in Nat /\ m2 = [i \in 1 .. n + 1 |-> m2[i]]
  BY <1>6, LenProperties
<1>8. Listed(m2)
  BY <1>7, IsListed
<1>9. DOMAIN m \subseteq DOMAIN m2 /\ DOMAIN m2 = DOMAIN m \cup {n + 1} /\ n + 1 \notin DOMAIN m
  BY <1>1, <1>7
<1>10. Keys(m2) = Keys(m) \cup {k}
  BY <1>1, <1>3, <1>6, <1>9 DEF Keys
<1>11. Pairs(m2) = Pairs(m) \cup KeyPairs(k, vals)
  <2>1. ASSUME NEW x \in Pairs(m2) PROVE x \in Pairs(m) \cup KeyPairs(k, vals)
    <3>1. PICK i, v : i \in DOMAIN m2 /\ v \in m2[i].vals /\ x = <<m2[i].key, v>>
      BY <2>1, InPairs
    <3>2. CASE i \in DOMAIN m
      <4>1. m2[i] = m[i]
        BY <1>1, <1>6, <3>2
      <4> QED
        BY <3>1, <3>2, <4>1, InPairs
    <3>3. CASE i = n + 1
      <4>1. v \in vals /\ x = <<k, v>>
        BY <1>3, <1>6, <3>1, <3>3
      <4> QED
        BY <4>1 DEF KeyPairs
    <3> QED
      BY <1>9, <3>1, <3>2, <3>3
  <2>2. ASSUME NEW x \in Pairs(m) PROVE x \in Pairs(m2)
    <3>1. PICK i, v : i \in DOMAIN m /\ v \in m[i].vals /\ x = <<m[i].key, v>>
      BY InPairs
    <3>2. m2[i] = m[i] /\ i \in DOMAIN m2
      BY <1>1, <1>6, <1>9, <3>1
    <3> QED
      BY <3>1, <3>2, InPairs
  <2>3. ASSUME NEW x \in KeyPairs(k, vals) PROVE x \in Pairs(m2)
    <3>1. PICK v \in vals : x = <<k, v>>
      BY DEF KeyPairs
    <3>2. PICK j : j = n + 1
      OBVIOUS
    <3>3. j \in DOMAIN m2 /\ v \in m2[j].vals /\ x = <<m2[j].key, v>>
      BY <1>3, <1>6, <1>9, <3>1, <3>2
    <3> QED
      BY <3>3, InPairs
  <2> QED
    BY <2>1, <2>2, <2>3
<1>12. \A i \in DOMAIN m : m2[i].key = m[i].key
  BY <1>1, <1>6
<1>13. \A j \in DOMAIN m2 \ DOMAIN m : m2[j].key = k /\ \A i \in DOMAIN m2 : i <= j
  BY <1>1, <1>3, <1>6, <1>7, <1>9
<1>14. DOMAIN m2 \subseteq Nat
  BY <1>7
<1> QED
  BY <1>8, <1>9, <1>10, <1>11, <1>12, <1>13, <1>14 DEF Inserted

LEMMA InsertIs ==
  ASSUME NEW m, Listed(m), NEW k, NEW vals
  PROVE  Inserted(m, k, vals, Insert(m, k, vals))
BY InsertExtends, InsertAppends

(* A new mention comes after all others, and a new key last. *)
LEMMA OrderKept ==
  ASSUME NEW m, NEW k, NEW vals, NEW m2, Inserted(m, k, vals, m2), Listed(m), NEW old, NEW new, NEW p,
         InOrder(m, old), Keys(m) = Tags(old), \A x \in old : Before(x.at, p),
         \A x \in new : x.tag = k /\ x.at = p, k \in Keys(m) \/ new # {}
  PROVE  InOrder(m2, old \cup new) /\ Keys(m2) = Tags(old \cup new)
<1>1. ASSUME NEW i \in DOMAIN m
      PROVE  \E x \in old \cup new :
               /\ x.tag = m2[i].key
               /\ \A j \in DOMAIN m2, y \in old \cup new : i < j /\ y.tag = m2[j].key => Before(x.at, y.at)
  <2>1. PICK x \in old :
          /\ x.tag = m[i].key
          /\ \A j \in DOMAIN m, y \in old : i < j /\ y.tag = m[j].key => Before(x.at, y.at)
    BY DEF InOrder
  <2>2. x.tag = m2[i].key
    BY <2>1 DEF Inserted
  <2>3. ASSUME NEW j \in DOMAIN m2, NEW y \in old \cup new, i < j, y.tag = m2[j].key
        PROVE  Before(x.at, y.at)
    <3>1. CASE y \in new
      BY <2>1, <3>1
    <3>2. CASE y \in old /\ j \in DOMAIN m
      <4>1. m2[j].key = m[j].key
        BY <3>2 DEF Inserted
      <4> QED
        BY <2>1, <2>3, <3>2, <4>1
    <3>3. CASE y \in old /\ j \notin DOMAIN m
      <4>1. m2[j].key = k /\ k \notin Keys(m)
        BY <3>3 DEF Inserted
      <4>2. y.tag \in Tags(old)
        BY <3>3 DEF Tags
      <4> QED
        BY <2>3, <4>1, <4>2
    <3> QED
      BY <3>1, <3>2, <3>3
  <2> QED
    BY <2>2, <2>3
<1>2. ASSUME NEW i \in DOMAIN m2, i \notin DOMAIN m
      PROVE  \E x \in old \cup new :
               /\ x.tag = m2[i].key
               /\ \A j \in DOMAIN m2, y \in old \cup new : i < j /\ y.tag = m2[j].key => Before(x.at, y.at)
  <2>1. m2[i].key = k /\ k \notin Keys(m) /\ (\A j \in DOMAIN m2 : j <= i) /\ DOMAIN m2 \subseteq Nat
    BY <1>2 DEF Inserted
  <2>2. PICK x \in new : TRUE
    BY <2>1
  <2>3. \A j \in DOMAIN m2 : ~(i < j)
    BY <2>1
  <2> QED
    BY <2>1, <2>2, <2>3
<1>3. InOrder(m2, old \cup new)
  BY <1>1, <1>2 DEF InOrder
<1>4. Keys(m2) = Keys(m) \cup {k}
  BY DEF Inserted
<1>5. Tags(old \cup new) = Tags(old) \cup Tags(new)
  BY DEF Tags
<1>6. Tags(new) \subseteq {k} /\ (new # {} => Tags(new) = {k})
  BY DEF Tags
<1> QED
  BY <1>3, <1>4, <1>5, <1>6

(* What a step makes of the matchers and the table, at a place p.          *)
DomainStep(c, p, m, m2) ==
  \/ m2 = m /\ Here(NameRules(c), p) = {} /\ Here(Mentions(c), p) = {}
  \/ \E k, vals :
       /\ m2 = Insert(m, k, vals) /\ PairsOf(Here(NameRules(c), p)) = KeyPairs(k, vals)
       /\ \A x \in Here(Mentions(c), p) : x.tag = k
       /\ k \in Keys(m) \/ Here(Mentions(c), p) # {}

RegexStep(c, p, m, m2) ==
  \/ m2 = m /\ Here(RegexRules(c), p) = {}
  \/ \E k, vals : m2 = Insert(m, k, vals) /\ PairsOf(Here(RegexRules(c), p)) = KeyPairs(k, vals)

IpStep(c, p, t, t2) ==
  \/ t2 = t /\ Here(CidrRules(c), p) = {}
  \/ \E x, y : Here(CidrRules(c), p) = {x} /\ Block(y) = Block(x.val) /\ t2 = PutCidr(t, y, x.tag)

LEMMA PairsOfUnion == \A R, S : PairsOf(R \cup S) = PairsOf(R) \cup PairsOf(S)
BY DEF PairsOf

LEMMA NamesStep ==
  ASSUME NEW c, Listable(c), NEW p, NEW q, Moves(c, p, q), NEW d, NEW d2, NEW x, NEW x2,
         Listed(d), Listed(x), NamesKept(c, d, x, p), DomainStep(c, p, d, d2), RegexStep(c, p, x, x2)
  PROVE  NamesKept(c, d2, x2, q)
<1>1. /\ Done(NameRules(c), q) = Done(NameRules(c), p) \cup Here(NameRules(c), p)
      /\ Done(RegexRules(c), q) = Done(RegexRules(c), p) \cup Here(RegexRules(c), p)
      /\ Done(Mentions(c), q) = Done(Mentions(c), p) \cup Here(Mentions(c), p)
  BY RulesPlaced, DoneMoves
<1>2. Pairs(x2) = PairsOf(Done(RegexRules(c), q))
  <2>1. CASE x2 = x /\ Here(RegexRules(c), p) = {}
    BY <1>1, <2>1 DEF NamesKept
  <2>2. ASSUME NEW k, NEW vals, x2 = Insert(x, k, vals),
               PairsOf(Here(RegexRules(c), p)) = KeyPairs(k, vals)
        PROVE  Pairs(x2) = PairsOf(Done(RegexRules(c), q))
    <3>1. Inserted(x, k, vals, x2)
      BY <2>2, InsertIs
    <3>2. Pairs(x2) = Pairs(x) \cup KeyPairs(k, vals)
      BY <3>1 DEF Inserted
    <3> QED
      BY <1>1, <2>2, <3>2, PairsOfUnion DEF NamesKept
  <2> QED
    BY <2>1, <2>2 DEF RegexStep
<1>3. /\ Pairs(d2) = PairsOf(Done(NameRules(c), q)) /\ Keys(d2) = Tags(Done(Mentions(c), q))
      /\ InOrder(d2, Done(Mentions(c), q))
  <2>1. CASE d2 = d /\ Here(NameRules(c), p) = {} /\ Here(Mentions(c), p) = {}
    BY <1>1, <2>1 DEF NamesKept
  <2>2. ASSUME NEW k, NEW vals, d2 = Insert(d, k, vals),
               PairsOf(Here(NameRules(c), p)) = KeyPairs(k, vals),
               \A y \in Here(Mentions(c), p) : y.tag = k,
               k \in Keys(d) \/ Here(Mentions(c), p) # {}
        PROVE  /\ Pairs(d2) = PairsOf(Done(NameRules(c), q)) /\ Keys(d2) = Tags(Done(Mentions(c), q))
               /\ InOrder(d2, Done(Mentions(c), q))
    <3>1. Inserted(d, k, vals, d2)
      BY <2>2, InsertIs
    <3>2. Pairs(d2) = Pairs(d) \cup KeyPairs(k, vals)
      BY <3>1 DEF Inserted
    <3>3. Pairs(d2) = PairsOf(Done(NameRules(c), q))
      BY <1>1, <2>2, <3>2, PairsOfUnion DEF NamesKept
    <3>4. PICK old, new : old = Done(Mentions(c), p) /\ new = Here(Mentions(c), p)
      OBVIOUS
    <3>5. (\A y \in old : Before(y.at, p)) /\ \A y \in new : y.tag = k /\ y.at = p
      BY <2>2, <3>4 DEF Done, Here
    <3>6. InOrder(d, old) /\ Keys(d) = Tags(old) /\ (k \in Keys(d) \/ new # {})
      BY <2>2, <3>4 DEF NamesKept
    <3>7. InOrder(d2, old \cup new) /\ Keys(d2) = Tags(old \cup new)
      BY <3>1, <3>5, <3>6, OrderKept
    <3> QED
      BY <1>1, <3>3, <3>4, <3>7
  <2> QED
    BY <2>1, <2>2 DEF DomainStep
<1> QED
  BY <1>2, <1>3 DEF NamesKept

LEMMA CidrsStep ==
  ASSUME NEW c, Listable(c), NEW p \in Places, NEW q, Moves(c, p, q), NEW t, NEW t2,
         CidrsKept(c, t, p), IpStep(c, p, t, t2)
  PROVE  CidrsKept(c, t2, q)
<1>1. PICK old, new : old = Done(CidrRules(c), p) /\ new = Here(CidrRules(c), p)
  OBVIOUS
<1>2. Done(CidrRules(c), q) = old \cup new
  BY <1>1, RulesPlaced, DoneMoves
<1>3. CASE t2 = t /\ new = {}
  BY <1>1, <1>2, <1>3 DEF CidrsKept
<1>4. ASSUME NEW x, NEW y, new = {x}, Block(y) = Block(x.val), t2 = PutCidr(t, y, x.tag)
      PROVE  CidrsKept(c, t2, q)
  <2>1. PICK B : B = Block(y)
    OBVIOUS
  <2>2. t2 = [b \in DOMAIN t \cup {B} |-> IF b = B THEN x.tag ELSE t[b]]
    BY <1>4, <2>1 DEF PutCidr
  <2>3. DOMAIN t2 = DOMAIN t \cup {B} /\ t2[B] = x.tag /\ \A b \in DOMAIN t : b # B => t2[b] = t[b]
    BY <2>2
  <2>4. DOMAIN t = {Block(z.val) : z \in old}
    BY <1>1 DEF CidrsKept
  <2>5. DOMAIN t2 = {Block(z.val) : z \in old \cup new}
    BY <1>4, <2>1, <2>3, <2>4
  <2>6. x.at = p /\ \A z \in old : Before(z.at, p)
    BY <1>1, <1>4 DEF Here, Done
  <2>7. \A z \in old : z.at \in Places
    BY <1>1, RulesPlaced DEF Done, Positions
  <2>8. \A z \in old \cup new : ~Before(x.at, z.at)
    BY <1>4, <2>6, <2>7, BeforeOrders
  <2>9. ASSUME NEW b \in DOMAIN t2
        PROVE  \E w \in old \cup new :
                 /\ Block(w.val) = b /\ w.tag = t2[b]
                 /\ \A z \in old \cup new : Block(z.val) = b => ~Before(w.at, z.at)
    <3>1. CASE b = B
      BY <1>4, <2>1, <2>3, <2>8, <3>1
    <3>2. CASE b # B
      <4>1. b \in DOMAIN t /\ t2[b] = t[b]
        BY <2>3, <2>9, <3>2
      <4>2. PICK w \in old : /\ Block(w.val) = b /\ w.tag = t[b]
                             /\ \A z \in old : Block(z.val) = b => ~Before(w.at, z.at)
        BY <1>1, <4>1 DEF CidrsKept
      <4>3. \A z \in new : Block(z.val) # b
        BY <1>4, <2>1, <3>2
      <4> QED
        BY <4>1, <4>2, <4>3
    <3> QED
      BY <3>1, <3>2
  <2> QED
    BY <1>2, <2>5, <2>9 DEF CidrsKept
<1> QED
  BY <1>1, <1>3, <1>4 DEF IpStep

-----------------------------------------------------------------------------
(* The steps of the builder, for any configuration and builder. *)
LEMMA KeptStep ==
  ASSUME NEW c, Listable(c), NEW p \in Places, NEW q, Moves(c, p, q), NEW r, NEW r2, RulesKept(c, r, p),
         Listed(r2.domain), Listed(r2.regex),
         LowerSite(c) \/ NamesKept(c, r.domain, r.regex, p) =>
           LowerSite(c) \/ (DomainStep(c, p, r.domain, r2.domain) /\ RegexStep(c, p, r.regex, r2.regex)),
         WholeRange(c) \/ IpStep(c, p, r.ip, r2.ip)
  PROVE  RulesKept(c, r2, q)
<1>1. LowerSite(c) \/ NamesKept(c, r2.domain, r2.regex, q)
  BY NamesStep DEF RulesKept
<1>2. WholeRange(c) \/ CidrsKept(c, r2.ip, q)
  BY CidrsStep DEF RulesKept
<1> QED
  BY <1>1, <1>2 DEF RulesKept

LEMMA NothingHere ==
  ASSUME NEW c, Listable(c), NEW p, p \notin Positions(c)
  PROVE  Here(NameRules(c), p) = {} /\ Here(RegexRules(c), p) = {} /\ Here(CidrRules(c), p) = {}
         /\ Here(Mentions(c), p) = {}
BY RulesPlaced DEF Here

LEMMA Unplaced ==
  ASSUME NEW c, NEW s, NEW e, NEW g, NEW i, ~Placed(c, s, e, g, i)
  PROVE  <<s, e, g, i>> \notin Positions(c)
BY DEF Positions

LEMMA PlaceOf ==
  ASSUME NEW s \in Nat, NEW e \in Nat, NEW g \in Nat, NEW i \in Nat
  PROVE  <<s, e, g, i>> \in Places
BY DEF Places

SameRules(r, r2) == r2.domain = r.domain /\ r2.regex = r.regex /\ r2.ip = r.ip

LEMMA IdleStep ==
  ASSUME NEW c, Listable(c), NEW p \in Places, NEW q, Moves(c, p, q), NEW r, NEW r2, RulesKept(c, r, p),
         SameRules(r, r2), p \notin Positions(c)
  PROVE  RulesKept(c, r2, q)
<1>1. Listed(r2.domain) /\ Listed(r2.regex)
  BY DEF RulesKept, SameRules
<1>2. DomainStep(c, p, r.domain, r2.domain) /\ RegexStep(c, p, r.regex, r2.regex) /\ IpStep(c, p, r.ip, r2.ip)
  BY NothingHere DEF DomainStep, RegexStep, IpStep, SameRules
<1> QED
  BY <1>1, <1>2, KeptStep

LEMMA InsertListed == \A m, k, vals : Listed(m) => Listed(Insert(m, k, vals))
BY InsertIs DEF Inserted

(* An entry of the domain section. *)
DomainAdded(e, r, r2) ==
  /\ r2.domain = IF e.rules = {} THEN r.domain ELSE Insert(r.domain, e.tag, e.rules)
  /\ r2.regex = Insert(r.regex, e.tag, e.regex) /\ r2.ip = r.ip

LEMMA DomainEntryStep ==
  ASSUME NEW c, Listable(c), NEW e \in DOMAIN c.domain, NEW p \in Places, p = <<1, e, 0, 1>>,
         NEW q, Moves(c, p, q), NEW r, NEW r2, RulesKept(c, r, p), DomainAdded(c.domain[e], r, r2)
  PROVE  RulesKept(c, r2, q)
<1>1. Listed(r2.domain) /\ Listed(r2.regex)
  BY InsertListed DEF RulesKept, DomainAdded
<1>2. PICK tag, rules, regex : tag = c.domain[e].tag /\ rules = c.domain[e].rules /\ regex = c.domain[e].regex
  OBVIOUS
<1>3. \A x : x \in Here(NameRules(c), p) <=> \E v \in rules : x = Rule(p, tag, v)
  <2>1. \A x : x \in Here(NameRules(c), p) <=> NameAt(c, 1, e, 0, 1, x)
    BY NameHere
  <2> QED
    BY <1>2, <2>1 DEF NameAt, DomainRuleAt
<1>4. \A x : x \in Here(RegexRules(c), p) <=> \E v \in regex : x = Rule(p, tag, v)
  <2>1. \A x : x \in Here(RegexRules(c), p) <=> RegexAt(c, 1, e, 0, 1, x)
    BY RegexHere
  <2> QED
    BY <1>2, <2>1 DEF RegexAt, DomainRuleAt
<1>5. \A x : x \in Here(Mentions(c), p) <=> rules # {} /\ x = Rule(p, tag, {})
  <2>1. \A x : x \in Here(Mentions(c), p) <=> MentionAt(c, 1, e, 0, 1, x)
    BY MentionHere
  <2> QED
    BY <1>2, <2>1, SectionsAre DEF MentionAt
<1>6. \A x : x \notin Here(CidrRules(c), p)
  <2>1. \A x : x \in Here(CidrRules(c), p) <=> CidrAt(c, 1, e, 0, 1, x)
    BY CidrHere
  <2> QED
    BY <2>1 DEF CidrAt
<1>7. PairsOf(Here(NameRules(c), p)) = KeyPairs(tag, rules)
  BY <1>3, RuleFields DEF PairsOf, KeyPairs
<1>8. PairsOf(Here(RegexRules(c), p)) = KeyPairs(tag, regex)
  BY <1>4, RuleFields DEF PairsOf, KeyPairs
<1>9. RegexStep(c, p, r.regex, r2.regex)
  BY <1>2, <1>8 DEF RegexStep, DomainAdded
<1>10. IpStep(c, p, r.ip, r2.ip)
  BY <1>6 DEF IpStep, DomainAdded
<1>11. DomainStep(c, p, r.domain, r2.domain)
  <2>1. CASE rules = {}
    <3>1. r2.domain = r.domain
      BY <1>2, <2>1 DEF DomainAdded
    <3>2. Here(NameRules(c), p) = {} /\ Here(Mentions(c), p) = {}
      BY <1>3, <1>5, <2>1
    <3> QED
      BY <3>1, <3>2 DEF DomainStep
  <2>2. CASE rules # {}
    <3>1. r2.domain = Insert(r.domain, tag, rules)
      BY <1>2, <2>2 DEF DomainAdded
    <3>2. Here(Mentions(c), p) # {} /\ \A x \in Here(Mentions(c), p) : x.tag = tag
      BY <1>5, <2>2, RuleFields
    <3> QED
      BY <1>7, <3>1, <3>2 DEF DomainStep
  <2> QED
    BY <2>1, <2>2
<1> QED
  BY <1>1, <1>9, <1>10, <1>11, KeptStep

(* A CIDR of the ip section. *)
CidrAdded(cidr, tag, r, r2) ==
  /\ r2.domain = r.domain /\ r2.regex = r.regex
  /\ r2.ip = IF cidr.prefix <= Width THEN PutCidr(r.ip, cidr, tag) ELSE r.ip

LEMMA CidrStep ==
  ASSUME NEW c, Listable(c), NEW e \in DOMAIN c.ip, NEW i \in DOMAIN c.ip[e].cidrs,
         NEW p \in Places, p = <<2, e, 0, i>>, NEW q, Moves(c, p, q), NEW r, NEW r2, RulesKept(c, r, p),
         CidrAdded(c.ip[e].cidrs[i], c.ip[e].tag, r, r2)
  PROVE  RulesKept(c, r2, q)
<1>1. Listed(r2.domain) /\ Listed(r2.regex)
  BY DEF RulesKept, CidrAdded
<1>2. PICK tag, cidr : tag = c.ip[e].tag /\ cidr = c.ip[e].cidrs[i]
  OBVIOUS
<1>3. \A x : /\ x \in Here(NameRules(c), p) <=> NameAt(c, 2, e, 0, i, x)
             /\ x \in Here(RegexRules(c), p) <=> RegexAt(c, 2, e, 0, i, x)
             /\ x \in Here(Mentions(c), p) <=> MentionAt(c, 2, e, 0, i, x)
             /\ x \in Here(CidrRules(c), p) <=> CidrAt(c, 2, e, 0, i, x)
  BY NameHere, RegexHere, MentionHere, CidrHere
<1>4. Here(NameRules(c), p) = {} /\ Here(RegexRules(c), p) = {} /\ Here(Mentions(c), p) = {}
  BY <1>3 DEF NameAt, RegexAt, MentionAt
<1>5. DomainStep(c, p, r.domain, r2.domain) /\ RegexStep(c, p, r.regex, r2.regex)
  BY <1>4 DEF DomainStep, RegexStep, CidrAdded
<1>6. PICK x : x = Rule(p, tag, cidr)
  OBVIOUS
<1>7. x.val = cidr /\ x.tag = tag
  BY <1>6, RuleFields
<1>8. IpStep(c, p, r.ip, r2.ip)
  <2>1. CASE cidr.prefix <= Width
    <3>1. \A z : CidrAt(c, 2, e, 0, i, z) <=> z = x
      BY <1>2, <1>6, <1>7, <2>1 DEF CidrAt
    <3>2. Here(CidrRules(c), p) = {x}
      BY <1>3, <3>1
    <3>3. r2.ip = PutCidr(r.ip, cidr, x.tag)
      BY <1>2, <1>7, <2>1 DEF CidrAdded
    <3> QED
      BY <1>7, <3>2, <3>3 DEF IpStep
  <2>2. CASE ~(cidr.prefix <= Width)
    <3>1. \A z : ~CidrAt(c, 2, e, 0, i, z)
      BY <1>2, <1>6, <1>7, <2>2 DEF CidrAt
    <3>2. Here(CidrRules(c), p) = {}
      BY <1>3, <3>1
    <3>3. r2.ip = r.ip
      BY <1>2, <2>2 DEF CidrAdded
    <3> QED
      BY <3>2, <3>3 DEF IpStep
  <2> QED
    BY <2>1, <2>2
<1> QED
  BY <1>1, <1>5, <1>8, KeptStep

(* No group has the number 0. *)
LEMMA NamedGroups ==
  ASSUME NEW c, Listable(c), NEW s \in {3, 4}, NEW e \in DOMAIN Sections(c)[s]
  PROVE  0 \notin Named(Sections(c)[s][e]) /\ Named(Sections(c)[s][e]) \subseteq DOMAIN Sections(c)[s][e].file
<1>1. IsList(Sections(c)[s][e].file)
  BY DEF Listable
<1>2. 0 \notin DOMAIN Sections(c)[s][e].file
  BY <1>1 DEF IsList
<1> QED
  BY <1>2 DEF Named

(* A file is opened. *)
Opened(s, e, r, r2) ==
  /\ r2.domain = IF s = 3 /\ e.rules # {} THEN Insert(r.domain, e.tag, {}) ELSE r.domain
  /\ r2.regex = r.regex /\ r2.ip = r.ip

LEMMA OpenStep ==
  ASSUME NEW c, Listable(c), NEW s \in {3, 4}, NEW e \in DOMAIN Sections(c)[s],
         NEW p \in Places, p = <<s, e, 0, 1>>, NEW q, Moves(c, p, q), NEW r, NEW r2, RulesKept(c, r, p),
         Opened(s, Sections(c)[s][e], r, r2)
  PROVE  RulesKept(c, r2, q)
<1>1. Listed(r2.domain) /\ Listed(r2.regex)
  BY InsertListed DEF RulesKept, Opened
<1>2. PICK tag, rules : tag = Sections(c)[s][e].tag /\ rules = Sections(c)[s][e].rules
  OBVIOUS
<1>3. \A x : /\ x \in Here(NameRules(c), p) <=> NameAt(c, s, e, 0, 1, x)
             /\ x \in Here(RegexRules(c), p) <=> RegexAt(c, s, e, 0, 1, x)
             /\ x \in Here(Mentions(c), p) <=> MentionAt(c, s, e, 0, 1, x)
             /\ x \in Here(CidrRules(c), p) <=> CidrAt(c, s, e, 0, 1, x)
  BY NameHere, RegexHere, MentionHere, CidrHere
<1>4. \A x : ~FileRuleAt(s, Sections(c)[s], e, 0, 1, x)
  BY NamedGroups DEF FileRuleAt
<1>5. \A x : ~NameAt(c, s, e, 0, 1, x) /\ ~RegexAt(c, s, e, 0, 1, x) /\ ~CidrAt(c, s, e, 0, 1, x)
  BY <1>4, SectionsAre DEF NameAt, RegexAt, CidrAt
<1>6. Here(NameRules(c), p) = {} /\ Here(RegexRules(c), p) = {} /\ Here(CidrRules(c), p) = {}
  BY <1>3, <1>5
<1>7. RegexStep(c, p, r.regex, r2.regex) /\ IpStep(c, p, r.ip, r2.ip)
  BY <1>6 DEF RegexStep, IpStep, Opened
<1>8. DomainStep(c, p, r.domain, r2.domain)
  <2>1. CASE s = 3 /\ rules # {}
    <3>1. r2.domain = Insert(r.domain, tag, {})
      BY <1>2, <2>1 DEF Opened
    <3>2. PairsOf(Here(NameRules(c), p)) = KeyPairs(tag, {})
      BY <1>6 DEF PairsOf, KeyPairs
    <3>3. \A x : x \in Here(Mentions(c), p) <=> x = Rule(p, tag, {})
      BY <1>2, <1>3, <2>1 DEF MentionAt
    <3>4. Here(Mentions(c), p) # {} /\ \A x \in Here(Mentions(c), p) : x.tag = tag
      BY <3>3, RuleFields
    <3> QED
      BY <3>1, <3>2, <3>4 DEF DomainStep
  <2>2. CASE ~(s = 3 /\ rules # {})
    <3>1. r2.domain = r.domain
      BY <1>2, <2>2 DEF Opened
    <3>2. Here(Mentions(c), p) = {}
      BY <1>2, <1>3, <2>2 DEF MentionAt
    <3> QED
      BY <1>6, <3>1, <3>2 DEF DomainStep
  <2> QED
    BY <2>1, <2>2
<1> QED
  BY <1>1, <1>7, <1>8, KeptStep

(* An entry of a file is read. *)
LEMMA InGroupHere ==
  ASSUME NEW c, NEW s, NEW e, NEW g, g # 0, NEW i, NEW p, p = <<s, e, g, i>>
  PROVE  /\ Here(Mentions(c), p) = {}
         /\ s = 3 => Here(CidrRules(c), p) = {}
         /\ s = 4 => Here(NameRules(c), p) = {} /\ Here(RegexRules(c), p) = {}
<1>1. \A x : /\ x \in Here(NameRules(c), p) <=> NameAt(c, s, e, g, i, x)
             /\ x \in Here(RegexRules(c), p) <=> RegexAt(c, s, e, g, i, x)
             /\ x \in Here(Mentions(c), p) <=> MentionAt(c, s, e, g, i, x)
             /\ x \in Here(CidrRules(c), p) <=> CidrAt(c, s, e, g, i, x)
  BY NameHere, RegexHere, MentionHere, CidrHere
<1> QED
  BY <1>1 DEF NameAt, RegexAt, MentionAt, CidrAt

SiteRead(rule, tag, skip, r, r2) ==
  /\ r2.ip = r.ip
  /\ r2.domain = IF ~skip /\ rule \notin Regexes THEN Insert(r.domain, tag, {rule}) ELSE r.domain
  /\ r2.regex = IF ~skip /\ rule \in Regexes THEN Insert(r.regex, tag, {rule}) ELSE r.regex

LEMMA SiteStep ==
  ASSUME NEW c, Listable(c), NEW e \in DOMAIN c.geosite, NEW g \in DOMAIN c.geosite[e].file,
         NEW i \in DOMAIN c.geosite[e].file[g].entries,
         NEW p \in Places, p = <<3, e, g, i>>, NEW q, Moves(c, p, q), NEW r, NEW r2, RulesKept(c, r, p),
         NEW skip \in BOOLEAN, ~LowerSite(c) => (skip <=> g \notin Named(c.geosite[e])),
         SiteRead(c.geosite[e].file[g].entries[i], c.geosite[e].tag, skip, r, r2)
  PROVE  RulesKept(c, r2, q)
<1>1. Listed(r2.domain) /\ Listed(r2.regex)
  BY InsertListed DEF RulesKept, SiteRead
<1>2. PICK tag, rule : tag = c.geosite[e].tag /\ rule = c.geosite[e].file[g].entries[i]
  OBVIOUS
<1>3. e \in DOMAIN Sections(c)[3] /\ Sections(c)[3] = c.geosite
  BY SectionsAre
<1>4. IsList(c.geosite[e].file) /\ IsList(c.geosite)
  BY <1>3 DEF Listable
<1>5. g \in Nat /\ g # 0 /\ e \in Nat
  BY <1>4 DEF IsList
<1>6. Here(Mentions(c), p) = {} /\ Here(CidrRules(c), p) = {}
  BY <1>5, InGroupHere
<1>7. IpStep(c, p, r.ip, r2.ip)
  BY <1>6 DEF IpStep, SiteRead
<1>8. ASSUME ~LowerSite(c), NamesKept(c, r.domain, r.regex, p)
      PROVE  DomainStep(c, p, r.domain, r2.domain) /\ RegexStep(c, p, r.regex, r2.regex)
  <2>1. PICK x : x = Rule(p, tag, rule)
    OBVIOUS
  <2>2. x.tag = tag /\ x.val = rule
    BY <2>1, RuleFields
  <2>3. \A z : FileRuleAt(3, c.geosite, e, g, i, z) <=> ~skip /\ z = x
    BY <1>2, <1>8, <2>1 DEF FileRuleAt
  <2>4. \A z : z \in Here(NameRules(c), p) <=> ~skip /\ z = x /\ rule \notin Regexes
    <3>1. \A z : z \in Here(NameRules(c), p) <=> NameAt(c, 3, e, g, i, z)
      BY NameHere
    <3> QED
      BY <2>2, <2>3, <3>1 DEF NameAt
  <2>5. \A z : z \in Here(RegexRules(c), p) <=> ~skip /\ z = x /\ rule \in Regexes
    <3>1. \A z : z \in Here(RegexRules(c), p) <=> RegexAt(c, 3, e, g, i, z)
      BY RegexHere
    <3> QED
      BY <2>2, <2>3, <3>1 DEF RegexAt
  <2>6. PairsOf({x}) = KeyPairs(tag, {rule})
    BY <2>2 DEF PairsOf, KeyPairs
  <2>7. RegexStep(c, p, r.regex, r2.regex)
    <3>1. CASE ~skip /\ rule \in Regexes
      <4>1. r2.regex = Insert(r.regex, tag, {rule})
        BY <1>2, <3>1 DEF SiteRead
      <4>2. Here(RegexRules(c), p) = {x}
        BY <2>5, <3>1
      <4> QED
        BY <2>6, <4>1, <4>2 DEF RegexStep
    <3>2. CASE ~(~skip /\ rule \in Regexes)
      <4>1. r2.regex = r.regex
        BY <1>2, <3>2 DEF SiteRead
      <4>2. Here(RegexRules(c), p) = {}
        BY <2>5, <3>2
      <4> QED
        BY <4>1, <4>2 DEF RegexStep
    <3> QED
      BY <3>1, <3>2
  <2>8. DomainStep(c, p, r.domain, r2.domain)
    <3>1. CASE ~skip /\ rule \notin Regexes
      <4>1. r2.domain = Insert(r.domain, tag, {rule})
        BY <1>2, <3>1 DEF SiteRead
      <4>2. Here(NameRules(c), p) = {x}
        BY <2>4, <3>1
      <4>3. tag \in Keys(r.domain)
        <5>1. PICK m : m = Rule(<<3, e, 0, 1>>, tag, {})
          OBVIOUS
        <5>2. g \in Named(c.geosite[e])
          BY <1>8, <3>1
        <5>3. c.geosite[e].rules # {}
          BY <5>2 DEF Named
        <5>4. MentionAt(c, 3, e, 0, 1, m)
          BY <1>2, <1>3, <5>1, <5>3 DEF MentionAt
        <5>5. m \in Mentions(c)
          BY <5>4, InMentions
        <5>6. i \in Nat
          <6>1. IsList(c.geosite[e].file[g].entries)
            BY <1>3 DEF Listable
          <6> QED
            BY <6>1 DEF IsList
        <5>7. Lexically(3, e, 0, 1, 3, e, g, i)
          BY <1>5, <5>6 DEF Lexically
        <5>8. m.at = <<3, e, 0, 1>> /\ m.tag = tag
          BY <5>1, RuleFields
        <5>9. Before(m.at, p)
          BY <5>7, <5>8, BeforeIsLexical
        <5>10. m \in Done(Mentions(c), p)
          BY <5>5, <5>9 DEF Done
        <5>11. tag \in Tags(Done(Mentions(c), p))
          BY <5>8, <5>10 DEF Tags
        <5> QED
          BY <1>8, <5>11 DEF NamesKept
      <4> QED
        BY <1>6, <2>6, <4>1, <4>2, <4>3 DEF DomainStep
    <3>2. CASE ~(~skip /\ rule \notin Regexes)
      <4>1. r2.domain = r.domain
        BY <1>2, <3>2 DEF SiteRead
      <4>2. Here(NameRules(c), p) = {}
        BY <2>4, <3>2
      <4> QED
        BY <1>6, <4>1, <4>2 DEF DomainStep
    <3> QED
      BY <3>1, <3>2
  <2> QED
    BY <2>7, <2>8
<1> QED
  BY <1>1, <1>7, <1>8, KeptStep

NetRead(cidr, tag, skip, r, r2) ==
  /\ r2.domain = r.domain /\ r2.regex = r.regex
  /\ r2.ip = IF skip THEN r.ip ELSE PutCidr(r.ip, MergeCidr(r.cidr, cidr), tag)

(* What NetStep asks of a step that reads an address range. *)
NetDue(c, e, g, i, p, q, r, r2, skip) ==
  /\ e \in DOMAIN c.geoip /\ g \in DOMAIN c.geoip[e].file /\ i \in DOMAIN c.geoip[e].file[g].entries
  /\ c.geoip[e].file[g].entries[i].prefix <= Width
  /\ p = <<4, e, g, i>> /\ p \in Places /\ Moves(c, p, q)
  /\ Listable(c) /\ RulesKept(c, r, p)
  /\ skip \in BOOLEAN /\ (skip <=> g \notin Named(c.geoip[e]))
  /\ NetRead(c.geoip[e].file[g].entries[i], c.geoip[e].tag, skip, r, r2)

LEMMA NetStep ==
  ASSUME NEW c, NEW e, NEW g, NEW i, NEW p, NEW q, NEW r, NEW r2, NEW skip,
         NetDue(c, e, g, i, p, q, r, r2, skip)
  PROVE  RulesKept(c, r2, q)
<1>0. /\ e \in DOMAIN c.geoip /\ g \in DOMAIN c.geoip[e].file /\ i \in DOMAIN c.geoip[e].file[g].entries
      /\ c.geoip[e].file[g].entries[i].prefix <= Width
      /\ p = <<4, e, g, i>> /\ p \in Places /\ Moves(c, p, q)
      /\ Listable(c) /\ RulesKept(c, r, p)
      /\ skip \in BOOLEAN /\ (skip <=> g \notin Named(c.geoip[e]))
      /\ NetRead(c.geoip[e].file[g].entries[i], c.geoip[e].tag, skip, r, r2)
  BY DEF NetDue
<1> USE <1>0
<1>1. Listed(r2.domain) /\ Listed(r2.regex)
  BY DEF RulesKept, NetRead
<1>2. PICK tag, cidr : tag = c.geoip[e].tag /\ cidr = c.geoip[e].file[g].entries[i]
  OBVIOUS
<1>3. e \in DOMAIN Sections(c)[4] /\ Sections(c)[4] = c.geoip
  BY SectionsAre
<1>4. IsList(c.geoip[e].file)
  BY <1>3 DEF Listable
<1>5. g \in Nat /\ g # 0
  BY <1>4 DEF IsList
<1>6. Here(Mentions(c), p) = {} /\ Here(NameRules(c), p) = {} /\ Here(RegexRules(c), p) = {}
  BY <1>5, InGroupHere
<1>7. DomainStep(c, p, r.domain, r2.domain) /\ RegexStep(c, p, r.regex, r2.regex)
  BY <1>6 DEF DomainStep, RegexStep, NetRead
<1>8. ASSUME ~WholeRange(c) PROVE IpStep(c, p, r.ip, r2.ip)
  <2>1. PICK x : x = Rule(p, tag, cidr)
    OBVIOUS
  <2>2. x.tag = tag /\ x.val = cidr
    BY <2>1, RuleFields
  <2>3. \A z : FileRuleAt(4, c.geoip, e, g, i, z) <=> ~skip /\ z = x
    BY <1>2, <2>1 DEF FileRuleAt
  <2>4. \A z : z \in Here(CidrRules(c), p) <=> ~skip /\ z = x
    <3>1. \A z : z \in Here(CidrRules(c), p) <=> CidrAt(c, 4, e, g, i, z)
      BY CidrHere
    <3>2. \A z : CidrAt(c, 4, e, g, i, z) <=> FileRuleAt(4, c.geoip, e, g, i, z)
      BY <1>2, <2>2, <2>3 DEF CidrAt
    <3> QED
      BY <2>3, <3>1, <3>2
  <2>5. CASE skip
    <3>1. r2.ip = r.ip /\ Here(CidrRules(c), p) = {}
      BY <2>4, <2>5 DEF NetRead
    <3> QED
      BY <3>1 DEF IpStep
  <2>6. CASE ~skip
    <3>1. PICK y : y = MergeCidr(r.cidr, cidr)
      OBVIOUS
    <3>2. r2.ip = PutCidr(r.ip, y, x.tag) /\ Here(CidrRules(c), p) = {x}
      BY <1>2, <2>2, <2>4, <2>6, <3>1 DEF NetRead
    <3>3. x \in CidrRules(c)
      BY <3>2 DEF Here
    <3>4. cidr.prefix # 0
      BY <1>8, <2>2, <3>3 DEF WholeRange
    <3>5. y.ip = cidr.ip /\ y.prefix = cidr.prefix
      BY <3>1, <3>4 DEF MergeCidr
    <3>6. Block(y) = Block(x.val)
      BY <2>2, <3>5 DEF Block, Depth
    <3> QED
      BY <3>2, <3>6 DEF IpStep
  <2> QED
    BY <2>5, <2>6
<1> QED
  BY <1>1, <1>7, <1>8, KeptStep

-----------------------------------------------------------------------------
(* The place of the builder, by its numbers. *)
Fields == {"domain", "regex", "ip", "place", "group", "skip", "cidr"}

SkipIs(c, r, s, e, g, i) ==
  s \in {3, 4} /\ e <= Len(Sections(c)[s]) /\ g \in DOMAIN Sections(c)[s][e].file /\ i > 0
  /\ (s = 3 => ~LowerSite(c)) => (r.skip <=> g \notin Named(Sections(c)[s][e]))

PlaceAt(c, r, s, e, g, i) ==
  /\ DOMAIN r = Fields /\ r.skip \in BOOLEAN /\ r.place = <<s, e, g, i>>
  /\ s \in 0 .. 5 /\ e \in Nat /\ g \in Nat /\ i \in Nat /\ e > 0
  /\ s \in {0, 5} => e = 1
  /\ g > 0 => s \in {3, 4} /\ e <= Len(Sections(c)[s])
  /\ g = 0 => i > 0
  /\ (s # 2 \/ ~(e <= Len(Sections(c)[s]))) /\ g = 0 => i = 1
  /\ SkipIs(c, r, s, e, g, i)

LEMMA FieldsAre == DOMAIN NewBuilder = Fields
BY DEF NewBuilder, Fields

LEMMA PlaceIs ==
  ASSUME at = "config", PlaceInv
  PROVE  \E s, e, g, i : PlaceAt(cfg, router, s, e, g, i)
<1>1. PICK s \in 0 .. 5, e \in Nat, g \in Nat, i \in Nat : router.place = <<s, e, g, i>>
  BY DEF PlaceInv
<1>2. router.place[1] = s /\ router.place[2] = e /\ router.place[3] = g /\ router.place[4] = i
  BY <1>1
<1>3. \A n : In(n) <=> s = n
  BY <1>2 DEF In
<1>4. More <=> e <= Len(Sections(cfg)[s])
  BY <1>2 DEF More
<1>5. CurEntry = Sections(cfg)[s][e] /\ Item = i
  BY <1>2 DEF CurEntry, Item
<1>6. SkipIs(cfg, router, s, e, g, i)
  <2>1. InGroup <=> s \in {3, 4} /\ e <= Len(Sections(cfg)[s]) /\ g \in DOMAIN Sections(cfg)[s][e].file
    BY <1>2, <1>3, <1>4, <1>5 DEF InGroup
  <2>2. InGroup /\ i > 0 /\ (s = 3 => ~LowerSite(cfg)) => (router.skip <=> g \notin Named(Sections(cfg)[s][e]))
    BY <1>2, <1>3, <1>5 DEF PlaceInv
  <2> QED
    BY <2>1, <2>2 DEF SkipIs
<1>7. PlaceAt(cfg, router, s, e, g, i)
  BY <1>1, <1>2, <1>3, <1>4, <1>6, FieldsAre DEF PlaceInv, PlaceAt
<1> QED
  BY <1>7

LEMMA PlaceMade ==
  ASSUME at' = "config", NEW s, NEW e, NEW g, NEW i, PlaceAt(cfg', router', s, e, g, i)
  PROVE  PlaceInv'
<1>1. router'.place = <<s, e, g, i>> /\ s \in 0 .. 5 /\ e \in Nat /\ g \in Nat /\ i \in Nat
  BY DEF PlaceAt
<1>2. router'.place[1] = s /\ router'.place[2] = e /\ router'.place[3] = g /\ router'.place[4] = i
  BY <1>1
<1>3. In(2)' <=> s = 2
  BY <1>2 DEF In
<1>31. In(3)' <=> s = 3
  BY <1>2 DEF In
<1>32. In(4)' <=> s = 4
  BY <1>2 DEF In
<1>4. More' <=> e <= Len(Sections(cfg')[s])
  BY <1>2 DEF More
<1>5. CurEntry' = Sections(cfg')[s][e] /\ Item' = i
  BY <1>2 DEF CurEntry, Item
<1>6. InGroup' <=> s \in {3, 4} /\ e <= Len(Sections(cfg')[s]) /\ g \in DOMAIN Sections(cfg')[s][e].file
  BY <1>2, <1>31, <1>32, <1>4, <1>5 DEF InGroup
<1>7. InGroup' /\ i > 0 /\ (s = 3 => ~LowerSite(cfg')) => (router'.skip <=> g \notin Named(Sections(cfg')[s][e]))
  BY <1>6 DEF PlaceAt, SkipIs
<1>8. InGroup' /\ Item' > 0 /\ (In(3)' => ~LowerSite(cfg')) =>
        (router'.skip <=> router'.place[3] \notin Named(CurEntry'))
  BY <1>2, <1>31, <1>5, <1>7
<1>9. /\ DOMAIN router' = DOMAIN NewBuilder /\ router'.skip \in BOOLEAN
      /\ router'.place \in (0 .. 5) \X Nat \X Nat \X Nat /\ router'.place[2] > 0
      /\ router'.place[1] \in {0, 5} => router'.place[2] = 1
      /\ router'.place[3] > 0 => (In(3)' \/ In(4)') /\ More'
      /\ router'.place[3] = 0 => router'.place[4] > 0
      /\ (~In(2)' \/ ~More') /\ router'.place[3] = 0 => router'.place[4] = 1
  <2>1. DOMAIN router' = DOMAIN NewBuilder /\ router'.skip \in BOOLEAN
    BY FieldsAre DEF PlaceAt
  <2>2. router'.place \in (0 .. 5) \X Nat \X Nat \X Nat
    BY <1>1
  <2> QED
    BY <1>2, <1>3, <1>31, <1>32, <1>4, <2>1, <2>2 DEF PlaceAt
<1> QED
  BY <1>8, <1>9 DEF PlaceInv

(* A step of the builder goes from one place to the next and keeps the     *)
(* rules on its way.                                                       *)
Kept(c, r) == \E s, e, g, i : PlaceAt(c, r, s, e, g, i) /\ RulesKept(c, r, r.place)

LEMMA KeptIs == ASSUME at = "config", RouterInv PROVE Kept(cfg, router) /\ Listable(cfg)
BY PlaceIs, ConfigLists DEF RouterInv, Kept

LEMMA KeptMakes ==
  ASSUME IsConfig(cfg'), at' = "config", Kept(cfg', router')
  PROVE  RouterInv'
<1>1. PICK s, e, g, i : PlaceAt(cfg', router', s, e, g, i) /\ RulesKept(cfg', router', router'.place)
  BY DEF Kept
<1>2. PlaceInv'
  BY <1>1, PlaceMade
<1> QED
  BY <1>1, <1>2 DEF RouterInv

LEMMA Proceeds ==
  ASSUME RouterInv, cfg' = cfg, at' = "config", NEW s, NEW e, NEW g, NEW i,
         PlaceAt(cfg, router', s, e, g, i), RulesKept(cfg, router', <<s, e, g, i>>)
  PROVE  RouterInv'
<1>1. router'.place = <<s, e, g, i>>
  BY DEF PlaceAt
<1>2. Kept(cfg', router')
  BY <1>1 DEF Kept
<1>3. IsConfig(cfg')
  BY DEF RouterInv
<1> QED
  BY <1>2, <1>3, KeptMakes

LEMMA Stops == ASSUME RouterInv, cfg' = cfg, at' = "stopped" PROVE RouterInv'
BY DEF RouterInv

(* Where the builder is. *)
Started(c, r, s, e, g, i) ==
  /\ Listable(c) /\ IsConfig(c) /\ PlaceAt(c, r, s, e, g, i) /\ RulesKept(c, r, <<s, e, g, i>>)
  /\ <<s, e, g, i>> \in Places /\ s \in Nat /\ e \in Nat /\ g \in Nat /\ i \in Nat
  /\ r.place[1] = s /\ r.place[2] = e /\ r.place[3] = g /\ r.place[4] = i
  /\ s \in 1 .. 4 /\ e <= Len(Sections(c)[s]) => e \in DOMAIN Sections(c)[s]

LEMMA StartedAt == ASSUME RouterInv, at = "config" PROVE \E s, e, g, i : Started(cfg, router, s, e, g, i)
<1>1. Kept(cfg, router) /\ Listable(cfg)
  BY KeptIs
<1>2. PICK s, e, g, i : PlaceAt(cfg, router, s, e, g, i) /\ RulesKept(cfg, router, router.place)
  BY <1>1 DEF Kept
<1>3. router.place = <<s, e, g, i>> /\ s \in Nat /\ e \in Nat /\ g \in Nat /\ i \in Nat /\ e > 0
  BY <1>2 DEF PlaceAt
<1>4. ASSUME s \in 1 .. 4, e <= Len(Sections(cfg)[s]) PROVE e \in DOMAIN Sections(cfg)[s]
  <2>1. IsList(Sections(cfg)[s])
    BY <1>1, <1>4 DEF Listable
  <2> QED
    BY <1>3, <1>4, <2>1 DEF IsList
<1>5. Started(cfg, router, s, e, g, i)
  BY <1>1, <1>2, <1>3, <1>4, PlaceOf DEF Started, RouterInv
<1> QED
  BY <1>5

(* Only the place changes. *)
Moved(r, r2, q) ==
  /\ DOMAIN r2 = DOMAIN r /\ r2.place = q /\ r2.skip = r.skip /\ SameRules(r, r2)

LEMMA OnlyPlace ==
  ASSUME NEW r, DOMAIN r = Fields, NEW q
  PROVE  Moved(r, [r EXCEPT !.place = q], q)
BY DEF Moved, SameRules, Fields

LEMMA NewPlace ==
  ASSUME NEW c, NEW r, NEW r2, NEW s, NEW e, NEW g, NEW i, NEW q, PlaceAt(c, r, s, e, g, i),
         Moved(r, r2, q)
  PROVE  DOMAIN r2 = Fields /\ r2.skip \in BOOLEAN /\ r2.place = q /\ r2.skip = r.skip
BY DEF PlaceAt, Moved

LEMMA StepBuildStart == ASSUME RouterInv, cfg' = cfg, BuildServer PROVE RouterInv'
<1>1. at = "config"
  BY DEF BuildServer, In
<1>2. PICK s, e, g, i : Started(cfg, router, s, e, g, i)
  BY <1>1, StartedAt
<1>3. s = 0 /\ e = 1 /\ g = 0 /\ i = 1
  BY <1>2 DEF Started, PlaceAt, BuildServer, In
<1>4. CASE at' = "stopped"
  BY <1>4, Stops
<1>5. CASE at' = at /\ router' = [router EXCEPT !.place = <<1, 1, 0, 1>>]
  <2>1. Moved(router, router', <<1, 1, 0, 1>>)
    BY <1>2, <1>5, OnlyPlace DEF Started, PlaceAt
  <2>2. Moves(cfg, <<s, e, g, i>>, <<1, 1, 0, 1>>)
    BY <1>2, <1>3, MoveStart DEF Started
  <2>3. <<s, e, g, i>> \notin Positions(cfg)
    BY <1>3, Unplaced DEF Placed
  <2>4. RulesKept(cfg, router', <<1, 1, 0, 1>>)
    BY <1>2, <2>1, <2>2, <2>3, IdleStep DEF Started, Moved
  <2>5. PlaceAt(cfg, router', 1, 1, 0, 1)
    BY <1>2, <2>1 DEF Started, PlaceAt, Moved, SkipIs
  <2> QED
    BY <1>1, <1>5, <2>4, <2>5, Proceeds
<1> QED
  BY <1>4, <1>5 DEF BuildServer

LEMMA StepNextSection == ASSUME RouterInv, cfg' = cfg, NextSection PROVE RouterInv'
<1>1. at = "config" /\ at' = "config"
  BY DEF NextSection, In
<1>2. PICK s, e, g, i : Started(cfg, router, s, e, g, i)
  BY <1>1, StartedAt
<1>3. s \in 1 .. 4 /\ ~(e <= Len(Sections(cfg)[s]))
  BY <1>2 DEF Started, NextSection, In, More
<1>4. g = 0 /\ i = 1 /\ e \in Nat
  BY <1>2, <1>3 DEF Started, PlaceAt
<1>5. e > Len(Sections(cfg)[s])
  <2>1. Len(Sections(cfg)[s]) \in Nat
    BY <1>2, <1>3 DEF Started, Listable, IsList
  <2> QED
    BY <1>3, <1>4, <2>1
<1>6. PICK q : q = <<s + 1, 1, 0, 1>>
  OBVIOUS
<1>7. router' = [router EXCEPT !.place = q]
  BY <1>2, <1>6 DEF Started, NextSection
<1>8. Moved(router, router', q)
  BY <1>2, <1>7, OnlyPlace DEF Started, PlaceAt
<1>9. Moves(cfg, <<s, e, g, i>>, q)
  BY <1>2, <1>3, <1>4, <1>5, <1>6, MoveSection DEF Started
<1>10. <<s, e, g, i>> \notin Positions(cfg)
  <2>1. e \notin DOMAIN Sections(cfg)[s]
    BY <1>2, <1>3, <1>4, <1>5 DEF Started, Listable, IsList
  <2> QED
    BY <2>1, Unplaced DEF Placed
<1>11. RulesKept(cfg, router', q)
  BY <1>2, <1>8, <1>9, <1>10, IdleStep DEF Started, Moved
<1>12. PlaceAt(cfg, router', s + 1, 1, 0, 1)
  <2>1. SkipIs(cfg, router', s + 1, 1, 0, 1)
    <3>1. ASSUME s + 1 \in {3, 4}, 1 <= Len(Sections(cfg)[s + 1]) PROVE 0 \notin DOMAIN Sections(cfg)[s + 1][1].file
      <4>1. IsList(Sections(cfg)[s + 1])
        BY <1>2, <3>1 DEF Started, Listable
      <4>2. 1 \in DOMAIN Sections(cfg)[s + 1]
        BY <3>1, <4>1 DEF IsList
      <4>3. IsList(Sections(cfg)[s + 1][1].file)
        BY <1>2, <3>1, <4>2 DEF Started, Listable
      <4> QED
        BY <4>3 DEF IsList
    <3> QED
      BY <3>1 DEF SkipIs
  <2> QED
    BY <1>2, <1>3, <1>6, <1>8, <2>1 DEF Started, PlaceAt, Moved
<1> QED
  BY <1>1, <1>6, <1>11, <1>12, Proceeds

(* A builder at the start of an entry, whatever its file holds.            *)
LEMMA FreshPlace ==
  ASSUME NEW c, Listable(c), NEW r, DOMAIN r = Fields, r.skip \in BOOLEAN, NEW s \in 1 .. 5,
         NEW e \in Nat, e > 0, s = 5 => e = 1, r.place = <<s, e, 0, 1>>
  PROVE  PlaceAt(c, r, s, e, 0, 1)
<1>1. SkipIs(c, r, s, e, 0, 1)
  <2>1. ASSUME s \in {3, 4}, e <= Len(Sections(c)[s]) PROVE 0 \notin DOMAIN Sections(c)[s][e].file
    <3>1. IsList(Sections(c)[s])
      BY <2>1 DEF Listable
    <3>2. e \in DOMAIN Sections(c)[s]
      BY <2>1, <3>1 DEF IsList
    <3>3. IsList(Sections(c)[s][e].file)
      BY <2>1, <3>2 DEF Listable
    <3> QED
      BY <3>3 DEF IsList
  <2> QED
    BY <2>1 DEF SkipIs
<1> QED
  BY <1>1 DEF PlaceAt

LEMMA StepAddDomainEntry == ASSUME RouterInv, cfg' = cfg, AddDomainEntry PROVE RouterInv'
<1>1. at = "config" /\ at' = "config"
  BY DEF AddDomainEntry, In
<1>2. PICK s, e, g, i : Started(cfg, router, s, e, g, i)
  BY <1>1, StartedAt
<1>3. s = 1 /\ e \in DOMAIN Sections(cfg)[s]
  BY <1>2 DEF Started, AddDomainEntry, In, More
<1>4. g = 0 /\ i = 1 /\ e \in Nat /\ e > 0 /\ DOMAIN router = Fields /\ router.skip \in BOOLEAN
  BY <1>2, <1>3 DEF Started, PlaceAt
<1>5. e \in DOMAIN cfg.domain /\ CurEntry = cfg.domain[e]
  BY <1>2, <1>3, SectionsAre DEF Started, CurEntry
<1>6. PICK q : q = <<s, e + 1, 0, 1>>
  OBVIOUS
<1>7. NextEntry = q
  BY <1>2, <1>6 DEF Started, NextEntry
<1>8. PICK d, x : /\ d = IF cfg.domain[e].rules = {} THEN router.domain
                         ELSE Insert(router.domain, cfg.domain[e].tag, cfg.domain[e].rules)
                  /\ x = Insert(router.regex, cfg.domain[e].tag, cfg.domain[e].regex)
  OBVIOUS
<1>9. router' = [router EXCEPT !.domain = d, !.regex = x, !.place = q]
  BY <1>5, <1>7, <1>8 DEF AddDomainEntry, AddDomainRules, AddRegexRules
<1>10. /\ DOMAIN router' = Fields /\ router'.skip \in BOOLEAN /\ router'.place = q
       /\ router'.domain = d /\ router'.regex = x /\ router'.ip = router.ip
  BY <1>4, <1>9 DEF Fields
<1>11. DomainAdded(cfg.domain[e], router, router')
  BY <1>8, <1>10 DEF DomainAdded
<1>12. Moves(cfg, <<s, e, g, i>>, q)
  <2>1. EntryRead(cfg, s, e, g, i) /\ Listable(cfg)
    BY <1>2, <1>3, <1>4 DEF Started, EntryRead
  <2> QED
    BY <1>6, <2>1, MoveEntry
<1>13. RulesKept(cfg, router', q)
  BY <1>2, <1>3, <1>4, <1>5, <1>11, <1>12, DomainEntryStep DEF Started
<1>14. PlaceAt(cfg, router', s, e + 1, 0, 1)
  BY <1>2, <1>3, <1>4, <1>6, <1>10, FreshPlace DEF Started
<1> QED
  BY <1>1, <1>6, <1>13, <1>14, Proceeds

LEMMA StepAddCidr == ASSUME RouterInv, cfg' = cfg, AddCidr PROVE RouterInv'
<1>1. at = "config" /\ at' = "config"
  BY DEF AddCidr, In
<1>2. PICK s, e, g, i : Started(cfg, router, s, e, g, i)
  BY <1>1, StartedAt
<1>3. s = 2 /\ e \in DOMAIN Sections(cfg)[s] /\ e <= Len(Sections(cfg)[s])
  BY <1>2 DEF Started, AddCidr, In, More
<1>4. /\ g = 0 /\ i \in Nat /\ i > 0 /\ e \in Nat /\ e > 0 /\ DOMAIN router = Fields
      /\ router.skip \in BOOLEAN
  BY <1>2, <1>3 DEF Started, PlaceAt
<1>5. e \in DOMAIN cfg.ip /\ CurEntry = cfg.ip[e] /\ Item = i
  BY <1>2, <1>3, SectionsAre DEF Started, CurEntry, Item
<1>6. IsList(cfg.ip[e].cidrs)
  BY <1>2, <1>5 DEF Started, Listable
<1>7. CASE i <= Len(cfg.ip[e].cidrs)
  <2>1. i \in DOMAIN cfg.ip[e].cidrs
    BY <1>4, <1>6, <1>7 DEF IsList
  <2>2. PICK q : q = <<s, e, g, i + 1>>
    OBVIOUS
  <2>3. NextItem = q
    BY <1>2, <2>2 DEF Started, PlaceAt, NextItem
  <2>4. PICK t : t = IF cfg.ip[e].cidrs[i].prefix <= Width
                     THEN PutCidr(router.ip, cfg.ip[e].cidrs[i], cfg.ip[e].tag) ELSE router.ip
    OBVIOUS
  <2>5. ~(i > Len(cfg.ip[e].cidrs))
    BY <1>4, <1>6, <1>7 DEF IsList
  <2>6. router' = [router EXCEPT !.ip = t, !.place = q]
    BY <1>5, <2>3, <2>4, <2>5 DEF AddCidr
  <2>7. /\ DOMAIN router' = Fields /\ router'.skip \in BOOLEAN /\ router'.place = q
        /\ router'.domain = router.domain /\ router'.regex = router.regex /\ router'.ip = t
    BY <1>4, <2>6 DEF Fields
  <2>8. CidrAdded(cfg.ip[e].cidrs[i], cfg.ip[e].tag, router, router')
    BY <2>4, <2>7 DEF CidrAdded
  <2>9. Moves(cfg, <<s, e, g, i>>, q)
    BY <1>2, <2>2, MoveItem DEF Started
  <2>10. RulesKept(cfg, router', q)
    BY <1>2, <1>3, <1>4, <1>5, <2>1, <2>8, <2>9, CidrStep DEF Started
  <2>11. PlaceAt(cfg, router', s, e, g, i + 1)
    BY <1>3, <1>4, <2>2, <2>7 DEF PlaceAt, SkipIs
  <2> QED
    BY <1>1, <2>2, <2>10, <2>11, Proceeds
<1>8. CASE ~(i <= Len(cfg.ip[e].cidrs))
  <2>1. i > Len(cfg.ip[e].cidrs)
    BY <1>4, <1>6, <1>8 DEF IsList
  <2>2. PICK q : q = <<s, e + 1, 0, 1>>
    OBVIOUS
  <2>3. NextEntry = q
    BY <1>2, <2>2 DEF Started, NextEntry
  <2>4. router' = [router EXCEPT !.place = q]
    BY <1>5, <1>8, <2>3 DEF AddCidr
  <2>5. Moved(router, router', q)
    BY <1>4, <2>4, OnlyPlace
  <2>6. Moves(cfg, <<s, e, g, i>>, q)
    <3>1. EntryRead(cfg, s, e, g, i) /\ Listable(cfg)
      BY <1>2, <1>3, <1>4, <2>1 DEF Started, EntryRead
    <3> QED
      BY <2>2, <3>1, MoveEntry
  <2>7. <<s, e, g, i>> \notin Positions(cfg)
    <3>1. ~Placed(cfg, s, e, g, i)
      BY <1>3, <1>4, <1>8 DEF Placed
    <3> QED
      BY <3>1, Unplaced
  <2>8. RulesKept(cfg, router', q)
    BY <1>2, <2>5, <2>6, <2>7, IdleStep DEF Started, Moved
  <2>9. PlaceAt(cfg, router', s, e + 1, 0, 1)
    BY <1>2, <1>3, <1>4, <2>2, <2>5, FreshPlace DEF Started, Moved
  <2> QED
    BY <1>1, <2>2, <2>8, <2>9, Proceeds
<1> QED
  BY <1>7, <1>8

(* The builder in a group of a file. *)
GroupAt(c, s, e, g) ==
  /\ s \in {3, 4} /\ e \in DOMAIN Sections(c)[s] /\ e <= Len(Sections(c)[s]) /\ e > 0
  /\ g \in DOMAIN Sections(c)[s][e].file /\ g > 0
  /\ IsList(Sections(c)[s][e].file) /\ IsList(Sections(c)[s][e].file[g].entries)

LEMMA AtGroup ==
  ASSUME InGroup, NEW s, NEW e, NEW g, NEW i, Started(cfg, router, s, e, g, i)
  PROVE  /\ GroupAt(cfg, s, e, g) /\ CurEntry = Sections(cfg)[s][e] /\ Item = i
         /\ CurGroup = Sections(cfg)[s][e].file[g] /\ (In(3) <=> s = 3) /\ (In(4) <=> s = 4)
         /\ at = "config"
<1>1. at = "config"
  BY DEF InGroup, In
<1>2. (In(3) <=> s = 3) /\ (In(4) <=> s = 4)
  BY <1>1 DEF Started, In
<1>3. CurEntry = Sections(cfg)[s][e] /\ Item = i /\ CurGroup = Sections(cfg)[s][e].file[g]
  BY DEF Started, CurEntry, Item, CurGroup
<1>4. s \in {3, 4} /\ e <= Len(Sections(cfg)[s]) /\ g \in DOMAIN Sections(cfg)[s][e].file
  BY <1>2, <1>3 DEF Started, InGroup, More
<1>5. e \in DOMAIN Sections(cfg)[s] /\ e > 0
  BY <1>4 DEF Started, PlaceAt
<1>6. IsList(Sections(cfg)[s][e].file) /\ IsList(Sections(cfg)[s][e].file[g].entries)
  BY <1>4, <1>5 DEF Started, Listable
<1>7. g > 0
  BY <1>4, <1>6 DEF IsList
<1> QED
  BY <1>1, <1>2, <1>3, <1>4, <1>5, <1>6, <1>7 DEF GroupAt

(* The next item of a group: the tag that is read first says whether the   *)
(* entry names the group, and nothing changes that.                        *)
LEMMA ItemPlace ==
  ASSUME NEW c, NEW r, DOMAIN r = Fields, r.skip \in BOOLEAN, NEW s, NEW e \in Nat, NEW g \in Nat,
         NEW i \in Nat, GroupAt(c, s, e, g), r.place = <<s, e, g, i + 1>>,
         (s = 3 => ~LowerSite(c)) => (r.skip <=> g \notin Named(Sections(c)[s][e]))
  PROVE  PlaceAt(c, r, s, e, g, i + 1)
<1>1. s \in 0 .. 5 /\ i + 1 \in Nat
  BY DEF GroupAt
<1>2. SkipIs(c, r, s, e, g, i + 1)
  BY DEF SkipIs
<1>3. e > 0 /\ s \in {3, 4} /\ e <= Len(Sections(c)[s]) /\ g > 0
  BY DEF GroupAt
<1> QED
  BY <1>1, <1>2, <1>3 DEF PlaceAt

LEMMA NextItemIs ==
  ASSUME NEW s, NEW e, NEW g, NEW i, Started(cfg, router, s, e, g, i)
  PROVE  NextItem = <<s, e, g, i + 1>> /\ NextGroup = <<s, e, g + 1, 0>>
         /\ NextEntry = <<s, e + 1, 0, 1>>
BY DEF Started, PlaceAt, NextItem, NextGroup, NextEntry

(* An upper-case tag of a group that has been read is wanted if and only   *)
(* if the entry names the group.                                           *)
LEMMA UpperTags ==
  ASSUME NEW c, NEW s, NEW e, NEW g, GroupAt(c, s, e, g), NEW tag,
         tag = IF s = 4 THEN Upper(Sections(c)[s][e].file[g].tag) ELSE Sections(c)[s][e].file[g].tag,
         s = 3 => ~LowerSite(c)
  PROVE  tag \notin {Upper(r) : r \in Sections(c)[s][e].rules} <=> g \notin Named(Sections(c)[s][e])
<1>1. PICK t, rules : t = Sections(c)[s][e].file[g].tag /\ rules = Sections(c)[s][e].rules
  OBVIOUS
<1>2. g \in DOMAIN Sections(c)[s][e].file /\ s \in {3, 4} /\ e \in DOMAIN Sections(c)[s]
  BY DEF GroupAt
<1>3. g \in Named(Sections(c)[s][e]) <=> \E r \in rules : Upper(r) = Upper(t)
  BY <1>1, <1>2 DEF Named
<1>4. CASE s = 4
  BY <1>1, <1>3, <1>4
<1>5. CASE s = 3
  <2>1. tag = t
    BY <1>1, <1>5
  <2>2. g \in Named(Sections(c)[s][e]) => t = Upper(t)
    <3>1. c.geosite = Sections(c)[3]
      BY SectionsAre
    <3>2. Sections(c)[s][e] \in ToSet(c.geosite)
      BY <1>2, <1>5, <3>1 DEF ToSet
    <3> QED
      BY <1>1, <1>5, <3>2 DEF LowerSite
  <2>3. \A r \in rules : Upper(r)[1] = r[1]
    BY DEF Upper
  <2>4. \A r \in rules : t = Upper(r) => Upper(t) = Upper(r)
    BY <2>3 DEF Upper
  <2> QED
    BY <1>1, <1>3, <2>1, <2>2, <2>4
<1> QED
  BY <1>2, <1>4, <1>5

LEMMA StepReadTag == ASSUME RouterInv, cfg' = cfg, ReadTag PROVE RouterInv'
<1>1. InGroup /\ at' = at /\ Item = 0
  BY DEF ReadTag
<1>2. at = "config"
  BY <1>1 DEF InGroup, In
<1>3. PICK s, e, g, i : Started(cfg, router, s, e, g, i)
  BY <1>2, StartedAt
<1>4. /\ GroupAt(cfg, s, e, g) /\ CurEntry = Sections(cfg)[s][e] /\ Item = i
      /\ CurGroup = Sections(cfg)[s][e].file[g] /\ (In(3) <=> s = 3) /\ (In(4) <=> s = 4)
  BY <1>1, <1>3, AtGroup
<1>5. DOMAIN router = Fields /\ router.skip \in BOOLEAN /\ e \in Nat /\ g \in Nat /\ i \in Nat
  BY <1>3 DEF Started, PlaceAt
<1>6. PICK tag, skip, q :
        /\ tag = IF s = 4 THEN Upper(Sections(cfg)[s][e].file[g].tag) ELSE Sections(cfg)[s][e].file[g].tag
        /\ skip = (tag \notin {Upper(r) : r \in Sections(cfg)[s][e].rules})
        /\ q = <<s, e, g, i + 1>>
  OBVIOUS
<1>7. router' = [router EXCEPT !.group = tag, !.skip = skip, !.place = q]
  BY <1>3, <1>4, <1>6, NextItemIs DEF ReadTag
<1>8. skip \in BOOLEAN
  BY <1>6
<1>9. /\ DOMAIN router' = Fields /\ router'.skip = skip /\ router'.place = q
      /\ SameRules(router, router')
  BY <1>5, <1>7 DEF Fields, SameRules
<1>10. Moves(cfg, <<s, e, g, i>>, q)
  BY <1>3, <1>6, MoveItem DEF Started
<1>11. <<s, e, g, i>> \notin Positions(cfg)
  <2>1. ~Placed(cfg, s, e, g, i)
    BY <1>1, <1>4, <1>5 DEF Placed
  <2> QED
    BY <2>1, Unplaced
<1>12. RulesKept(cfg, router', q)
  BY <1>3, <1>9, <1>10, <1>11, IdleStep DEF Started
<1>13. (s = 3 => ~LowerSite(cfg)) => (router'.skip <=> g \notin Named(Sections(cfg)[s][e]))
  BY <1>4, <1>6, <1>9, UpperTags
<1>14. PlaceAt(cfg, router', s, e, g, i + 1)
  BY <1>4, <1>5, <1>6, <1>8, <1>9, <1>13, ItemPlace
<1> QED
  BY <1>1, <1>2, <1>6, <1>12, <1>14, Proceeds

(* Within a group what the entry does not name is skipped. *)
LEMMA SkipHere ==
  ASSUME NEW c, NEW r, NEW s, NEW e, NEW g, NEW i, Started(c, r, s, e, g, i), GroupAt(c, s, e, g), i > 0,
         s = 3 => ~LowerSite(c)
  PROVE  r.skip <=> g \notin Named(Sections(c)[s][e])
<1>1. SkipIs(c, r, s, e, g, i)
  BY DEF Started, PlaceAt
<1> QED
  BY <1>1 DEF SkipIs, GroupAt

LEMMA StepReadSite == ASSUME RouterInv, cfg' = cfg, ReadSite PROVE RouterInv'
<1>1. InGroup /\ at' = at /\ In(3) /\ Item \in DOMAIN CurGroup.entries
  BY DEF ReadSite
<1>2. at = "config"
  BY <1>1 DEF InGroup, In
<1>3. PICK s, e, g, i : Started(cfg, router, s, e, g, i)
  BY <1>2, StartedAt
<1>4. /\ GroupAt(cfg, s, e, g) /\ CurEntry = Sections(cfg)[s][e] /\ Item = i
      /\ CurGroup = Sections(cfg)[s][e].file[g] /\ s = 3
  BY <1>1, <1>3, AtGroup
<1>5. DOMAIN router = Fields /\ router.skip \in BOOLEAN /\ e \in Nat /\ g \in Nat /\ i \in Nat
  BY <1>3 DEF Started, PlaceAt
<1>6. Sections(cfg)[s] = cfg.geosite /\ i \in DOMAIN cfg.geosite[e].file[g].entries
  BY <1>1, <1>4, SectionsAre
<1>61. e \in DOMAIN cfg.geosite /\ g \in DOMAIN cfg.geosite[e].file
  BY <1>4, <1>6 DEF GroupAt
<1>7. i > 0
  BY <1>4, <1>5, <1>6 DEF GroupAt, IsList
<1>8. PICK tag, rule, q : /\ tag = cfg.geosite[e].tag /\ rule = cfg.geosite[e].file[g].entries[i]
                          /\ q = <<s, e, g, i + 1>>
  OBVIOUS
<1>9. NextItem = q /\ CurEntry.tag = tag /\ CurGroup.entries[Item] = rule
  BY <1>3, <1>4, <1>6, <1>8, NextItemIs
<1>10. /\ DOMAIN router' = Fields /\ router'.skip = router.skip /\ router'.place = q
       /\ SiteRead(rule, tag, router.skip, router, router')
  <2>1. CASE router.skip
    <3>1. router' = [router EXCEPT !.place = q]
      BY <1>9, <2>1 DEF ReadSite
    <3> QED
      BY <1>5, <2>1, <3>1 DEF Fields, SiteRead
  <2>2. CASE ~router.skip /\ rule \notin Regexes
    <3>1. PICK d : d = Insert(router.domain, tag, {rule})
      OBVIOUS
    <3>2. router' = [router EXCEPT !.domain = d, !.place = q]
      BY <1>9, <2>2, <3>1 DEF ReadSite
    <3>3. /\ DOMAIN router' = Fields /\ router'.skip = router.skip /\ router'.place = q
          /\ router'.domain = d /\ router'.regex = router.regex /\ router'.ip = router.ip
      BY <1>5, <3>2 DEF Fields
    <3> QED
      BY <2>2, <3>1, <3>3 DEF SiteRead
  <2>3. CASE ~router.skip /\ rule \in Regexes
    <3>1. PICK d : d = Insert(router.regex, tag, {rule})
      OBVIOUS
    <3>2. router' = [router EXCEPT !.regex = d, !.place = q]
      BY <1>9, <2>3, <3>1 DEF ReadSite
    <3>3. /\ DOMAIN router' = Fields /\ router'.skip = router.skip /\ router'.place = q
          /\ router'.regex = d /\ router'.domain = router.domain /\ router'.ip = router.ip
      BY <1>5, <3>2 DEF Fields
    <3> QED
      BY <2>3, <3>1, <3>3 DEF SiteRead
  <2> QED
    BY <2>1, <2>2, <2>3
<1>11. ~LowerSite(cfg) => (router.skip <=> g \notin Named(cfg.geosite[e]))
  BY <1>3, <1>4, <1>6, <1>7, SkipHere
<1>12. Moves(cfg, <<s, e, g, i>>, q)
  BY <1>3, <1>8, MoveItem DEF Started
<1>13. RulesKept(cfg, router', q)
  <2>1. PICK p : p = <<3, e, g, i>>
    OBVIOUS
  <2>2. p \in Places /\ Moves(cfg, p, q) /\ RulesKept(cfg, router, p) /\ Listable(cfg)
    BY <1>3, <1>4, <1>12, <2>1 DEF Started
  <2>3. SiteRead(cfg.geosite[e].file[g].entries[i], cfg.geosite[e].tag, router.skip, router, router')
    BY <1>8, <1>10
  <2> QED
    BY <1>5, <1>6, <1>61, <1>11, <2>1, <2>2, <2>3, SiteStep, SMTT(60)
<1>14. PlaceAt(cfg, router', s, e, g, i + 1)
  BY <1>4, <1>5, <1>6, <1>8, <1>10, <1>11, ItemPlace
<1> QED
  BY <1>1, <1>2, <1>8, <1>13, <1>14, Proceeds

LEMMA StepReadCidr == ASSUME RouterInv, cfg' = cfg, ReadCidr PROVE RouterInv'
<1>1. InGroup /\ at' = at /\ In(4) /\ Item \in DOMAIN CurGroup.entries
  BY DEF ReadCidr
<1>2. at = "config"
  BY <1>1 DEF InGroup, In
<1>3. PICK s, e, g, i : Started(cfg, router, s, e, g, i)
  BY <1>2, StartedAt
<1>4. /\ GroupAt(cfg, s, e, g) /\ CurEntry = Sections(cfg)[s][e] /\ Item = i
      /\ CurGroup = Sections(cfg)[s][e].file[g] /\ s = 4
  BY <1>1, <1>3, AtGroup
<1>5. DOMAIN router = Fields /\ router.skip \in BOOLEAN /\ e \in Nat /\ g \in Nat /\ i \in Nat
  BY <1>3 DEF Started, PlaceAt
<1>6. Sections(cfg)[s] = cfg.geoip /\ i \in DOMAIN cfg.geoip[e].file[g].entries
  BY <1>1, <1>4, SectionsAre
<1>61. e \in DOMAIN cfg.geoip /\ g \in DOMAIN cfg.geoip[e].file
  BY <1>4, <1>6 DEF GroupAt
<1>7. i > 0
  BY <1>4, <1>5, <1>6 DEF GroupAt, IsList
<1>71. cfg.geoip[e].file[g].entries[i].prefix <= Width
  <2>1. Sections(cfg)[4] = cfg.geoip /\ 4 \in 3 .. 4
    BY SectionsAre
  <2>2. cfg.geoip[e].file[g].entries[i].prefix \in 0 .. Width
    BY <1>3, <1>6, <1>61, <2>1 DEF Started, IsConfig
  <2> QED
    BY <2>2, WidthAssumption
<1>8. PICK tag, cidr, q : /\ tag = cfg.geoip[e].tag /\ cidr = cfg.geoip[e].file[g].entries[i]
                          /\ q = <<s, e, g, i + 1>>
  OBVIOUS
<1>9. NextItem = q /\ CurEntry.tag = tag /\ CurGroup.entries[Item] = cidr
  BY <1>3, <1>4, <1>6, <1>8, NextItemIs
<1>10. /\ DOMAIN router' = Fields /\ router'.skip = router.skip /\ router'.place = q
       /\ NetRead(cidr, tag, router.skip, router, router')
  <2>1. CASE router.skip
    <3>1. router' = [router EXCEPT !.place = q]
      BY <1>9, <2>1 DEF ReadCidr
    <3> QED
      BY <1>5, <2>1, <3>1 DEF Fields, NetRead
  <2>2. CASE ~router.skip
    <3>1. PICK m, t : m = MergeCidr(router.cidr, cidr) /\ t = PutCidr(router.ip, m, tag)
      OBVIOUS
    <3>2. router' = [router EXCEPT !.ip = t, !.cidr = m, !.place = q]
      BY <1>9, <2>2, <3>1 DEF ReadCidr
    <3>3. /\ DOMAIN router' = Fields /\ router'.skip = router.skip /\ router'.place = q
          /\ router'.domain = router.domain /\ router'.regex = router.regex /\ router'.ip = t
      BY <1>5, <3>2 DEF Fields
    <3> QED
      BY <2>2, <3>1, <3>3 DEF NetRead
  <2> QED
    BY <2>1, <2>2
<1>11. router.skip <=> g \notin Named(cfg.geoip[e])
  BY <1>3, <1>4, <1>6, <1>7, SkipHere
<1>12. Moves(cfg, <<s, e, g, i>>, q)
  BY <1>3, <1>8, MoveItem DEF Started
<1>13. RulesKept(cfg, router', q)
  <2>1. PICK p : p = <<4, e, g, i>>
    OBVIOUS
  <2>2. p \in Places /\ Moves(cfg, p, q) /\ RulesKept(cfg, router, p) /\ Listable(cfg)
    BY <1>3, <1>4, <1>12, <2>1 DEF Started
  <2>3. NetRead(cfg.geoip[e].file[g].entries[i], cfg.geoip[e].tag, router.skip, router, router')
    BY <1>8, <1>10
  <2>4. NetDue(cfg, e, g, i, p, q, router, router', router.skip)
    BY <1>5, <1>6, <1>61, <1>71, <1>11, <2>1, <2>2, <2>3, ZenonT(60) DEF NetDue
  <2> QED
    BY <2>4, NetStep
<1>14. PlaceAt(cfg, router', s, e, g, i + 1)
  BY <1>4, <1>5, <1>6, <1>8, <1>10, <1>11, ItemPlace
<1> QED
  BY <1>1, <1>2, <1>8, <1>13, <1>14, Proceeds

(* The next group of the file, or its end. *)
GroupRead(c, s, e, g, i) ==
  /\ s \in {3, 4} /\ e \in DOMAIN Sections(c)[s] /\ g \in Nat /\ i \in Nat /\ i > 0
  /\ g = 0 => i = 1
  /\ g > 0 => g \in DOMAIN Sections(c)[s][e].file /\ i > Len(Sections(c)[s][e].file[g].entries)

LEMMA MoveToGroup ==
  ASSUME NEW c, Listable(c), NEW s, NEW e, NEW g, NEW i, GroupRead(c, s, e, g, i)
  PROVE  Moves(c, <<s, e, g, i>>, <<s, e, g + 1, 0>>)
<1>1. s \in 3 .. 4 /\ e \in DOMAIN Sections(c)[s] /\ g \in Nat /\ i \in Nat /\ i > 0
  BY DEF GroupRead
<1>2. g = 0 => i = 1
  BY DEF GroupRead
<1>3. g > 0 => g \in DOMAIN Sections(c)[s][e].file /\ i > Len(Sections(c)[s][e].file[g].entries)
  BY DEF GroupRead
<1> QED
  BY <1>1, <1>2, <1>3, MoveGroup

LEMMA GroupPlace ==
  ASSUME NEW c, NEW r, DOMAIN r = Fields, r.skip \in BOOLEAN, NEW s \in {3, 4}, NEW e \in Nat, e > 0,
         e <= Len(Sections(c)[s]), NEW g \in Nat, r.place = <<s, e, g + 1, 0>>
  PROVE  PlaceAt(c, r, s, e, g + 1, 0)
<1>1. SkipIs(c, r, s, e, g + 1, 0)
  BY DEF SkipIs
<1> QED
  BY <1>1 DEF PlaceAt

LEMMA StepReadHeader == ASSUME RouterInv, cfg' = cfg, ReadHeader PROVE RouterInv'
<1>1. InGroup /\ Item = Len(CurGroup.entries) + 1
  BY DEF ReadHeader
<1>2. at = "config"
  BY <1>1 DEF InGroup, In
<1>3. PICK s, e, g, i : Started(cfg, router, s, e, g, i)
  BY <1>2, StartedAt
<1>4. /\ GroupAt(cfg, s, e, g) /\ CurEntry = Sections(cfg)[s][e] /\ Item = i
      /\ CurGroup = Sections(cfg)[s][e].file[g]
  BY <1>1, <1>3, AtGroup
<1>5. DOMAIN router = Fields /\ router.skip \in BOOLEAN /\ e \in Nat /\ g \in Nat /\ i \in Nat
  BY <1>3 DEF Started, PlaceAt
<1>6. CASE at' = "stopped"
  BY <1>6, Stops
<1>7. CASE at' = at /\ router' = [router EXCEPT !.group = NoGroup, !.place = NextGroup]
  <2>1. PICK q, n : q = <<s, e, g + 1, 0>> /\ n = NoGroup
    OBVIOUS
  <2>2. router' = [router EXCEPT !.group = n, !.place = q]
    BY <1>3, <1>7, <2>1, NextItemIs
  <2>3. /\ DOMAIN router' = Fields /\ router'.skip = router.skip /\ router'.place = q
        /\ SameRules(router, router')
    BY <1>5, <2>2 DEF Fields, SameRules
  <2>4. i = Len(Sections(cfg)[s][e].file[g].entries) + 1 /\ Len(Sections(cfg)[s][e].file[g].entries) \in Nat
    BY <1>1, <1>4 DEF GroupAt, IsList
  <2>5. GroupRead(cfg, s, e, g, i)
    BY <1>4, <1>5, <2>4 DEF GroupRead, GroupAt
  <2>6. Moves(cfg, <<s, e, g, i>>, q)
    BY <1>3, <2>1, <2>5, MoveToGroup DEF Started
  <2>7. ~Placed(cfg, s, e, g, i)
    <3>1. i \notin 1 .. Len(Sections(cfg)[s][e].file[g].entries) /\ g # 0
      <4>1. g > 0
        BY <1>4 DEF GroupAt
      <4>2. PICK k \in Nat : k = Len(Sections(cfg)[s][e].file[g].entries)
        BY <2>4
      <4>3. i = k + 1 /\ k \in Nat
        BY <2>4, <4>2
      <4>4. i \notin 1 .. k
        BY <4>3
      <4> QED
        BY <1>5, <4>1, <4>2, <4>4
    <3> QED
      BY <3>1 DEF Placed
  <2>8. <<s, e, g, i>> \notin Positions(cfg)
    BY <2>7, Unplaced
  <2>9. RulesKept(cfg, router', q)
    BY <1>3, <2>3, <2>6, <2>8, IdleStep DEF Started
  <2>10. PlaceAt(cfg, router', s, e, g + 1, 0)
    BY <1>4, <1>5, <2>1, <2>3, GroupPlace DEF GroupAt
  <2> QED
    BY <1>2, <1>7, <2>1, <2>9, <2>10, Proceeds
<1> QED
  BY <1>6, <1>7 DEF ReadHeader

(* An entry of geosite or geoip. *)
LEMMA AtEntry ==
  ASSUME In(3) \/ In(4), More, NEW s, NEW e, NEW g, NEW i, Started(cfg, router, s, e, g, i)
  PROVE  /\ s \in {3, 4} /\ e \in DOMAIN Sections(cfg)[s] /\ e <= Len(Sections(cfg)[s])
         /\ CurEntry = Sections(cfg)[s][e] /\ (In(3) <=> s = 3) /\ IsList(Sections(cfg)[s][e].file)
<1>1. s \in {3, 4} /\ (In(3) <=> s = 3)
  BY DEF Started, In
<1>2. e \in DOMAIN Sections(cfg)[s] /\ e <= Len(Sections(cfg)[s]) /\ CurEntry = Sections(cfg)[s][e]
  BY <1>1 DEF Started, More, CurEntry
<1> QED
  BY <1>1, <1>2 DEF Started, Listable

LEMMA StepEndOfFile == ASSUME RouterInv, cfg' = cfg, EndOfFile PROVE RouterInv'
<1>1. (In(3) \/ In(4)) /\ More /\ at' = at
  BY DEF EndOfFile
<1>2. at = "config"
  BY <1>1 DEF In
<1>3. PICK s, e, g, i : Started(cfg, router, s, e, g, i)
  BY <1>2, StartedAt
<1>4. /\ s \in {3, 4} /\ e \in DOMAIN Sections(cfg)[s] /\ e <= Len(Sections(cfg)[s])
      /\ CurEntry = Sections(cfg)[s][e] /\ IsList(Sections(cfg)[s][e].file)
  BY <1>1, <1>3, AtEntry
<1>5. /\ DOMAIN router = Fields /\ router.skip \in BOOLEAN /\ e \in Nat /\ g \in Nat /\ i \in Nat
      /\ e > 0
  BY <1>3 DEF Started, PlaceAt
<1>6. g = Len(Sections(cfg)[s][e].file) + 1 /\ Len(Sections(cfg)[s][e].file) \in Nat
  BY <1>3, <1>4 DEF Started, EndOfFile, IsList
<1>7. PICK q : q = <<s, e + 1, 0, 1>>
  OBVIOUS
<1>8. router' = [router EXCEPT !.place = q]
  BY <1>3, <1>7, NextItemIs DEF EndOfFile
<1>9. Moved(router, router', q)
  BY <1>5, <1>8, OnlyPlace
<1>10. EntryRead(cfg, s, e, g, i)
  BY <1>4, <1>5, <1>6 DEF EntryRead
<1>11. Moves(cfg, <<s, e, g, i>>, q)
  BY <1>3, <1>7, <1>10, MoveEntry DEF Started
<1>12. ~Placed(cfg, s, e, g, i)
  BY <1>4, <1>5, <1>6 DEF Placed
<1>13. <<s, e, g, i>> \notin Positions(cfg)
  BY <1>12, Unplaced
<1>14. RulesKept(cfg, router', q)
  BY <1>3, <1>9, <1>11, <1>13, IdleStep DEF Started, Moved
<1>15. PlaceAt(cfg, router', s, e + 1, 0, 1)
  BY <1>3, <1>4, <1>5, <1>7, <1>9, FreshPlace DEF Started, Moved
<1> QED
  BY <1>1, <1>2, <1>7, <1>14, <1>15, Proceeds

LEMMA StepOpenFile == ASSUME RouterInv, cfg' = cfg, OpenFile PROVE RouterInv'
<1>1. (In(3) \/ In(4)) /\ More /\ router.place[3] = 0
  BY DEF OpenFile
<1>2. at = "config"
  BY <1>1 DEF In
<1>3. PICK s, e, g, i : Started(cfg, router, s, e, g, i)
  BY <1>2, StartedAt
<1>4. /\ s \in {3, 4} /\ e \in DOMAIN Sections(cfg)[s] /\ e <= Len(Sections(cfg)[s])
      /\ CurEntry = Sections(cfg)[s][e] /\ (In(3) <=> s = 3)
  BY <1>1, <1>3, AtEntry
<1>5. /\ DOMAIN router = Fields /\ router.skip \in BOOLEAN /\ e \in Nat /\ e > 0 /\ g = 0 /\ i = 1
  BY <1>1, <1>3, <1>4 DEF Started, PlaceAt
<1>6. CASE at' = "stopped"
  BY <1>6, Stops
<1>7. CASE CurEntry.found
  <2>1. PICK d, k, n, m, q :
          /\ d = IF s = 3 /\ Sections(cfg)[s][e].rules # {}
                 THEN Insert(router.domain, Sections(cfg)[s][e].tag, {}) ELSE router.domain
          /\ k = In(3) /\ n = NoGroup /\ m = NoCidr /\ q = <<s, e, g + 1, 0>>
    OBVIOUS
  <2>2. NextGroup = q
    BY <1>3, <2>1, NextItemIs
  <2>3. d = IF In(3) /\ CurEntry.rules # {} THEN Insert(router.domain, CurEntry.tag, {}) ELSE router.domain
    BY <1>4, <2>1
  <2>4. at' = at /\ router' = [router EXCEPT !.domain = d, !.group = n, !.skip = k, !.cidr = m, !.place = q]
    BY <1>7, <2>1, <2>2, <2>3 DEF OpenFile
  <2>5. k \in BOOLEAN
    BY <2>1 DEF In
  <2>6. /\ DOMAIN router' = Fields /\ router'.skip \in BOOLEAN /\ router'.place = q
        /\ router'.domain = d /\ router'.regex = router.regex /\ router'.ip = router.ip
    BY <1>5, <2>4, <2>5 DEF Fields
  <2>7. Opened(s, Sections(cfg)[s][e], router, router')
    BY <2>1, <2>6 DEF Opened
  <2>8. GroupRead(cfg, s, e, g, i)
    BY <1>4, <1>5 DEF GroupRead
  <2>9. Moves(cfg, <<s, e, g, i>>, q)
    BY <1>3, <2>1, <2>8, MoveToGroup DEF Started
  <2>10. RulesKept(cfg, router', q)
    <3>1. PICK p : p = <<s, e, 0, 1>>
      OBVIOUS
    <3>2. p \in Places /\ Moves(cfg, p, q) /\ RulesKept(cfg, router, p) /\ Listable(cfg)
      BY <1>3, <1>5, <2>9, <3>1 DEF Started
    <3> QED
      BY <1>4, <2>7, <3>1, <3>2, OpenStep
  <2>11. PlaceAt(cfg, router', s, e, g + 1, 0)
    BY <1>4, <1>5, <2>1, <2>6, GroupPlace
  <2> QED
    BY <1>2, <2>1, <2>4, <2>10, <2>11, Proceeds
<1> QED
  BY <1>6, <1>7 DEF OpenFile

(* build: the matchers of regular expressions in another order. *)
LEMMA OrdersKeep ==
  ASSUME NEW m, Listed(m), NEW o \in Orders(m)
  PROVE  Listed(o) /\ Pairs(o) = Pairs(m)
<1>1. Len(m) \in Nat /\ DOMAIN m = 1 .. Len(m)
  BY ListedIs
<1>2. PICK p \in [DOMAIN m -> DOMAIN m] : /\ o = [i \in DOMAIN m |-> m[p[i]]]
                                         /\ \A j \in DOMAIN m : \E i \in DOMAIN m : p[i] = j
  BY DEF Orders
<1>3. DOMAIN o = DOMAIN m /\ o = [i \in 1 .. Len(m) |-> o[i]] /\ \A i \in DOMAIN m : o[i] = m[p[i]] /\ p[i] \in DOMAIN m
  BY <1>1, <1>2
<1>4. Listed(o)
  BY <1>1, <1>3, IsListed
<1>5. ASSUME NEW x \in Pairs(o) PROVE x \in Pairs(m)
  <2>1. PICK i \in DOMAIN o : \E v \in o[i].vals : x = <<o[i].key, v>>
    BY InPairs
  <2>2. p[i] \in DOMAIN m /\ o[i] = m[p[i]]
    BY <1>3
  <2> QED
    BY <2>1, <2>2, InPairs
<1>6. ASSUME NEW x \in Pairs(m) PROVE x \in Pairs(o)
  <2>1. PICK j \in DOMAIN m : \E v \in m[j].vals : x = <<m[j].key, v>>
    BY InPairs
  <2>2. PICK i \in DOMAIN m : p[i] = j
    BY <1>2
  <2>3. i \in DOMAIN o /\ o[i] = m[j]
    BY <1>3, <2>2
  <2> QED
    BY <2>1, <2>3, InPairs
<1> QED
  BY <1>4, <1>5, <1>6

LEMMA StepBuildRouter == ASSUME RouterInv, cfg' = cfg, BuildRouter PROVE RouterInv'
<1>1. at = "config" /\ In(5)
  BY DEF BuildRouter, In
<1>2. PICK s, e, g, i : Started(cfg, router, s, e, g, i)
  BY <1>1, StartedAt
<1>3. s = 5 /\ e = 1 /\ g = 0 /\ i = 1
  BY <1>1, <1>2 DEF Started, PlaceAt, In
<1>4. RulesKept(cfg, router, LastPlace)
  BY <1>2, <1>3 DEF Started, LastPlace
<1>5. CASE at' = "stopped"
  BY <1>5, Stops
<1>6. ASSUME at' = "listen", NEW o \in Orders(router.regex),
             router' = [domain |-> router.domain, regex |-> o, ip |-> router.ip, default |-> DefaultOutbound(cfg)]
      PROVE  RouterInv'
  <2>1. /\ router'.domain = router.domain /\ router'.regex = o /\ router'.ip = router.ip
        /\ router'.default = DefaultOutbound(cfg)
    BY <1>6
  <2>2. Listed(o) /\ Pairs(o) = Pairs(router.regex)
    BY <1>4, <1>6, OrdersKeep DEF RulesKept
  <2>3. RulesKept(cfg, router', LastPlace)
    BY <1>4, <2>1, <2>2 DEF RulesKept, NamesKept
  <2> QED
    BY <1>6, <2>1, <2>3 DEF RouterInv, LastPlace
<1> QED
  BY <1>5, <1>6 DEF BuildRouter

(* The builder keeps the rules that it has passed; once it is done the     *)
(* router stays.                                                           *)
LEMMA RouterStep == ASSUME RouterInv, RouterNext PROVE RouterInv'
<1>1. cfg' = cfg
  BY DEF RouterNext
<1>2. CASE BuildServer
  BY <1>1, <1>2, StepBuildStart
<1>3. CASE NextSection
  BY <1>1, <1>3, StepNextSection
<1>4. CASE AddDomainEntry
  BY <1>1, <1>4, StepAddDomainEntry
<1>5. CASE AddCidr
  BY <1>1, <1>5, StepAddCidr
<1>6. CASE OpenFile
  BY <1>1, <1>6, StepOpenFile
<1>7. CASE ReadTag
  BY <1>1, <1>7, StepReadTag
<1>8. CASE ReadSite
  BY <1>1, <1>8, StepReadSite
<1>9. CASE ReadCidr
  BY <1>1, <1>9, StepReadCidr
<1>10. CASE ReadHeader
  BY <1>1, <1>10, StepReadHeader
<1>11. CASE EndOfFile
  BY <1>1, <1>11, StepEndOfFile
<1>12. CASE BuildRouter
  BY <1>1, <1>12, StepBuildRouter
<1> QED
  BY <1>2, <1>3, <1>4, <1>5, <1>6, <1>7, <1>8, <1>9, <1>10, <1>11, <1>12 DEF RouterNext

(* Before the first place there is no rule, after the last one there is    *)
(* none left.                                                              *)
LEMMA FirstAndLast ==
  ASSUME NEW c, Listable(c), NEW a \in Positions(c)
  PROVE  ~Before(a, <<0, 1, 0, 1>>) /\ Before(a, LastPlace)
<1>1. PICK a1 \in Nat, a2 \in Nat, a3 \in Nat, a4 \in Nat : a = <<a1, a2, a3, a4>>
  BY DEF Positions, Places
<1>2. a1 \in 1 .. 4
  BY <1>1 DEF Positions, Placed
<1>3. Before(a, <<0, 1, 0, 1>>) <=> Lexically(a1, a2, a3, a4, 0, 1, 0, 1)
  BY <1>1, BeforeIsLexical
<1>4. Before(a, LastPlace) <=> Lexically(a1, a2, a3, a4, 5, 1, 0, 1)
  BY <1>1, BeforeIsLexical DEF LastPlace
<1>5. ~Lexically(a1, a2, a3, a4, 0, 1, 0, 1) /\ Lexically(a1, a2, a3, a4, 5, 1, 0, 1)
  BY <1>2 DEF Lexically
<1> QED
  BY <1>3, <1>4, <1>5

LEMMA DoneAtEnds ==
  ASSUME NEW c, Listable(c), NEW rules,
         rules \subseteq NameRules(c) \cup RegexRules(c) \cup CidrRules(c) \cup Mentions(c)
  PROVE  Done(rules, <<0, 1, 0, 1>>) = {} /\ Done(rules, LastPlace) = rules
BY RulesPlaced, FirstAndLast DEF Done

LEMMA EmptyMatchers ==
  ASSUME NEW m, m = << >>
  PROVE  Listed(m) /\ Pairs(m) = {} /\ Keys(m) = {} /\ DOMAIN m = {} /\ InOrder(m, {})
BY DEF Listed, Pairs, Keys, InOrder

LEMMA NothingKept ==
  ASSUME NEW c, Listable(c), NEW r, r.domain = << >>, r.regex = << >>, r.ip = << >>
  PROVE  RulesKept(c, r, <<0, 1, 0, 1>>)
<1>1. /\ Done(NameRules(c), <<0, 1, 0, 1>>) = {} /\ Done(RegexRules(c), <<0, 1, 0, 1>>) = {}
      /\ Done(CidrRules(c), <<0, 1, 0, 1>>) = {} /\ Done(Mentions(c), <<0, 1, 0, 1>>) = {}
  BY DoneAtEnds
<1>2. PairsOf({}) = {} /\ Tags({}) = {}
  BY DEF PairsOf, Tags
<1>3. NamesKept(c, r.domain, r.regex, <<0, 1, 0, 1>>)
  BY <1>1, <1>2, EmptyMatchers DEF NamesKept
<1>4. CidrsKept(c, r.ip, <<0, 1, 0, 1>>)
  BY <1>1, EmptyMatchers DEF CidrsKept
<1> QED
  BY <1>3, <1>4, EmptyMatchers DEF RulesKept

LEMMA RouterInit == Init => RouterInv
<1> SUFFICES ASSUME Init PROVE RouterInv
  OBVIOUS
<1>1. IsConfig(cfg) /\ router = NewBuilder /\ at = "config"
  BY ConfigsAssumption DEF Init
<1>2. /\ router.domain = << >> /\ router.regex = << >> /\ router.ip = << >> /\ router.skip = TRUE
      /\ router.place = <<0, 1, 0, 1>> /\ DOMAIN router = DOMAIN NewBuilder
  BY <1>1 DEF NewBuilder
<1>3. RulesKept(cfg, router, router.place)
  BY <1>1, <1>2, ConfigLists, NothingKept
<1>4. router.place[1] = 0 /\ router.place[2] = 1 /\ router.place[3] = 0 /\ router.place[4] = 1
  BY <1>2
<1>5. ~In(2) /\ ~In(3) /\ ~In(4) /\ ~InGroup
  BY <1>4 DEF In, InGroup
<1>6. router.place \in (0 .. 5) \X Nat \X Nat \X Nat
  BY <1>2
<1>7. PlaceInv
  <2>1. DOMAIN router = DOMAIN NewBuilder /\ router.skip \in BOOLEAN
    BY <1>2, Zenon
  <2>2. /\ router.place \in (0 .. 5) \X Nat \X Nat \X Nat /\ router.place[2] > 0
        /\ router.place[1] \in {0, 5} => router.place[2] = 1
        /\ router.place[3] > 0 => (In(3) \/ In(4)) /\ More
        /\ router.place[3] = 0 => router.place[4] > 0
        /\ (~In(2) \/ ~More) /\ router.place[3] = 0 => router.place[4] = 1
    BY <1>4, <1>6
  <2>3. InGroup /\ Item > 0 /\ (In(3) => ~LowerSite(cfg)) =>
          (router.skip <=> router.place[3] \notin Named(CurEntry))
    BY <1>5
  <2> QED
    BY <2>1, <2>2, <2>3, Zenon DEF PlaceInv
<1> QED
  BY <1>1, <1>3, <1>7 DEF RouterInv

-----------------------------------------------------------------------------
(* Matching.  The least and the greatest of some numbers. *)
LEMMA LeastExists ==
  ASSUME NEW S \in SUBSET Nat, S # {}
  PROVE  \E x \in S : \A y \in S : x <= y
<1> DEFINE Less == {ss \in Nat \X Nat : ss[1] < ss[2]}
<1>1. IsWellFoundedOn(Less, Nat)
  BY NatLessThanWellFounded DEF OpToRel
<1>2. PICK x \in S : \A y \in S : ~(<<y, x>> \in Less)
  <2> HIDE DEF Less
  <2> QED
    BY <1>1, WFMin
<1>3. ASSUME NEW y \in S PROVE x <= y
  <2>1. x \in Nat /\ y \in Nat /\ ~(<<y, x>> \in Less)
    BY <1>2
  <2>2. ~(y < x)
    BY <2>1
  <2> QED
    BY <2>1, <2>2
<1> QED
  BY <1>3

(* The matchers that know a name are those of the tags with a rule for it. *)
Knows(m, name) == {i \in DOMAIN m : \E v \in m[i].vals : name \in Covers[v]}

LEMMA KnowsHits ==
  ASSUME NEW m, NEW rules, Pairs(m) = PairsOf(rules), NEW name
  PROVE  /\ \A i \in Knows(m, name) : m[i].key \in Tags(Hits(rules, name))
         /\ \A t \in Tags(Hits(rules, name)) : \E i \in Knows(m, name) : m[i].key = t
         /\ Knows(m, name) = {} <=> Hits(rules, name) = {}
<1>1. ASSUME NEW i \in Knows(m, name) PROVE m[i].key \in Tags(Hits(rules, name))
  <2>1. PICK v \in m[i].vals : i \in DOMAIN m /\ name \in Covers[v]
    BY <1>1 DEF Knows
  <2>2. <<m[i].key, v>> \in PairsOf(rules)
    BY <2>1, InPairs
  <2>3. PICK r \in rules : <<m[i].key, v>> = <<r.tag, r.val>>
    BY <2>2 DEF PairsOf
  <2>4. r.tag = m[i].key /\ r.val = v
    BY <2>3
  <2> QED
    BY <2>1, <2>3, <2>4 DEF Tags, Hits
<1>2. ASSUME NEW t \in Tags(Hits(rules, name)) PROVE \E i \in Knows(m, name) : m[i].key = t
  <2>1. PICK r \in rules : r.tag = t /\ name \in Covers[r.val]
    BY <1>2 DEF Tags, Hits
  <2>2. <<r.tag, r.val>> \in Pairs(m)
    BY <2>1 DEF PairsOf
  <2>3. PICK i \in DOMAIN m : \E v \in m[i].vals : <<r.tag, r.val>> = <<m[i].key, v>>
    BY <2>2, InPairs
  <2>4. PICK v \in m[i].vals : r.tag = m[i].key /\ r.val = v
    BY <2>3
  <2> QED
    BY <2>1, <2>4 DEF Knows
<1>3. Knows(m, name) = {} <=> Hits(rules, name) = {}
  <2>1. Hits(rules, name) # {} => Tags(Hits(rules, name)) # {}
    BY DEF Tags
  <2>2. Tags(Hits(rules, name)) # {} => Hits(rules, name) # {}
    BY DEF Tags
  <2> QED
    BY <1>1, <1>2, <2>1, <2>2
<1> QED
  BY <1>1, <1>2, <1>3

LEMMA FirstKnows ==
  ASSUME NEW m, Listed(m), NEW name, NEW otherwise
  PROVE  \/ Knows(m, name) = {} /\ FirstMatch(m, name, otherwise) = otherwise
         \/ \E i \in Knows(m, name) : /\ FirstMatch(m, name, otherwise) = m[i].key
                                      /\ \A j \in Knows(m, name) : i <= j
<1> DEFINE H == {i \in DOMAIN m : \E v \in m[i].vals : name \in Covers[v]}
<1>1. H = Knows(m, name)
  BY DEF Knows
<1>2. FirstMatch(m, name, otherwise) =
        IF H = {} THEN otherwise ELSE m[CHOOSE i \in H : \A j \in H : i <= j].key
  BY DEF FirstMatch
<1> HIDE DEF H
<1>3. CASE H = {}
  BY <1>1, <1>2, <1>3
<1>4. CASE H # {}
  <2>1. H \in SUBSET Nat
    <3>1. H \subseteq DOMAIN m
      BY <1>1 DEF Knows
    <3> QED
      BY <3>1, ListedIs
  <2>2. \E i \in H : \A j \in H : i <= j
    BY <1>4, <2>1, LeastExists
  <2>3. PICK i : i = CHOOSE k \in H : \A j \in H : k <= j
    OBVIOUS
  <2>4. i \in H /\ \A j \in H : i <= j
    BY <2>2, <2>3, Zenon
  <2>5. FirstMatch(m, name, otherwise) = m[i].key
    BY <1>2, <1>4, <2>3
  <2> QED
    BY <1>1, <2>4, <2>5
<1> QED
  BY <1>3, <1>4

(* A name. *)
LEMMA NameMatch ==
  ASSUME NEW c, Listable(c), NEW r, RulesKept(c, r, LastPlace), ~LowerSite(c),
         r.default = DefaultOutbound(c), NEW addr, addr.type # "ip"
  PROVE  MatchAddr(r, addr) \in ByRules(c, addr)
<1>1. PICK name : name = addr.host
  OBVIOUS
<1>2. PICK names, regexes, mentions : /\ names = NameRules(c) /\ regexes = RegexRules(c)
                                      /\ mentions = Mentions(c)
  OBVIOUS
<1>3. /\ Pairs(r.domain) = PairsOf(names) /\ Pairs(r.regex) = PairsOf(regexes)
      /\ InOrder(r.domain, mentions) /\ Listed(r.domain) /\ Listed(r.regex)
  BY <1>2, DoneAtEnds DEF RulesKept, NamesKept
<1>4. ByRules(c, addr) = IF Hits(names, name) # {} THEN FirstMentioned(c, Tags(Hits(names, name)))
                         ELSE IF Hits(regexes, name) # {} THEN Tags(Hits(regexes, name))
                         ELSE {DefaultOutbound(c)}
  BY <1>1, <1>2 DEF ByRules
<1>5. PICK other : other = FirstMatch(r.regex, name, r.default)
  OBVIOUS
<1>6. MatchAddr(r, addr) = FirstMatch(r.domain, name, other)
  BY <1>1, <1>5 DEF MatchAddr
<1>7. CASE Hits(names, name) # {}
  <2>1. Knows(r.domain, name) # {}
    BY <1>3, <1>7, KnowsHits
  <2>2. PICK i \in Knows(r.domain, name) : /\ FirstMatch(r.domain, name, other) = r.domain[i].key
                                           /\ \A j \in Knows(r.domain, name) : i <= j
    BY <1>3, <2>1, FirstKnows
  <2>3. PICK tags, t : tags = Tags(Hits(names, name)) /\ t = r.domain[i].key
    OBVIOUS
  <2>4. t \in tags
    BY <1>3, <2>3, KnowsHits
  <2>5. i \in DOMAIN r.domain /\ DOMAIN r.domain \subseteq Nat
    <3>1. DOMAIN r.domain = 1 .. Len(r.domain) /\ Len(r.domain) \in Nat
      BY <1>3, ListedIs
    <3> QED
      BY <3>1 DEF Knows
  <2>6. PICK x \in mentions :
          /\ x.tag = t
          /\ \A j \in DOMAIN r.domain, y \in mentions : i < j /\ y.tag = r.domain[j].key => Before(x.at, y.at)
    BY <1>3, <2>3, <2>5 DEF InOrder
  <2>7. ASSUME NEW y \in mentions, y.tag \in tags \ {t} PROVE Before(x.at, y.at)
    <3>1. PICK j \in Knows(r.domain, name) : r.domain[j].key = y.tag
      BY <1>3, <2>3, <2>7, KnowsHits
    <3>2. j \in DOMAIN r.domain /\ i <= j /\ i # j
      BY <2>2, <2>3, <2>7, <3>1 DEF Knows
    <3>3. i < j
      BY <2>5, <3>2
    <3> QED
      BY <2>6, <3>1, <3>2, <3>3
  <2>8. t \in FirstMentioned(c, tags)
    BY <1>2, <2>4, <2>6, <2>7 DEF FirstMentioned
  <2> QED
    BY <1>4, <1>6, <1>7, <2>2, <2>3, <2>8
<1>8. CASE Hits(names, name) = {}
  <2>1. Knows(r.domain, name) = {}
    BY <1>3, <1>8, KnowsHits
  <2>2. MatchAddr(r, addr) = other
    BY <1>3, <1>6, <2>1, FirstKnows
  <2>3. CASE Hits(regexes, name) # {}
    <3>1. Knows(r.regex, name) # {}
      BY <1>3, <2>3, KnowsHits
    <3>2. PICK i \in Knows(r.regex, name) : other = r.regex[i].key
      BY <1>3, <1>5, <3>1, FirstKnows
    <3>3. other \in Tags(Hits(regexes, name))
      BY <1>3, <3>2, KnowsHits
    <3> QED
      BY <1>4, <1>8, <2>2, <2>3, <3>3
  <2>4. CASE Hits(regexes, name) = {}
    <3>1. Knows(r.regex, name) = {}
      BY <1>3, <2>4, KnowsHits
    <3>2. other = r.default
      BY <1>3, <1>5, <3>1, FirstKnows
    <3> QED
      BY <1>4, <1>8, <2>2, <2>4, <3>2
  <2> QED
    BY <2>3, <2>4
<1> QED
  BY <1>7, <1>8

(* An address: the rules that hold for it are those with a block in the    *)
(* table that it is in.                                                    *)
LEMMA CidrLengths ==
  ASSUME NEW c, IsConfig(c), NEW x \in CidrRules(c)
  PROVE  x.val.prefix \in 0 .. Width
<1>1. PICK s, e, g, i : CidrAt(c, s, e, g, i, x)
  BY InCidrRules
<1>2. x.val.prefix <= Width
  BY <1>1 DEF CidrAt
<1>3. CASE e \in DOMAIN c.ip /\ i \in DOMAIN c.ip[e].cidrs /\ x = Rule(<<2, e, 0, i>>, c.ip[e].tag, c.ip[e].cidrs[i])
  <2>1. c.ip[e].cidrs[i].prefix \in Nat
    BY <1>3 DEF IsConfig
  <2>2. x.val = c.ip[e].cidrs[i]
    BY <1>3, RuleFields
  <2> QED
    BY <1>2, <2>1, <2>2, WidthAssumption
<1>4. CASE FileRuleAt(4, c.geoip, e, g, i, x)
  <2>1. /\ e \in DOMAIN c.geoip /\ g \in DOMAIN c.geoip[e].file /\ i \in DOMAIN c.geoip[e].file[g].entries
        /\ x.val = c.geoip[e].file[g].entries[i]
    BY <1>4, RuleFields DEF FileRuleAt, Named
  <2>2. Sections(c)[4] = c.geoip /\ 4 \in 3 .. 4
    BY SectionsAre
  <2>3. c.geoip[e].file[g].entries[i].prefix \in 0 .. Width
    BY <2>1, <2>2 DEF IsConfig
  <2> QED
    BY <2>1, <2>3
<1> QED
  BY <1>1, <1>3, <1>4 DEF CidrAt

LEMMA GreatestExists ==
  ASSUME NEW S, NEW n \in Nat, \A b \in S : b[1] \in 0 .. n, S # {}
  PROVE  \E b \in S : \A x \in S : x[1] <= b[1]
<1>1. PICK T : T = {n - b[1] : b \in S}
  OBVIOUS
<1>2. T \in SUBSET Nat /\ T # {}
  BY <1>1
<1>3. PICK t \in T : \A y \in T : t <= y
  BY <1>2, LeastExists
<1>4. PICK b \in S : t = n - b[1]
  BY <1>1
<1>5. ASSUME NEW x \in S PROVE x[1] <= b[1]
  <2>1. t <= n - x[1]
    BY <1>1, <1>3
  <2>2. x[1] \in 0 .. n /\ b[1] \in 0 .. n
    OBVIOUS
  <2> QED
    BY <1>4, <2>1, <2>2
<1> QED
  BY <1>5

LEMMA AddressMatch ==
  ASSUME NEW c, Listable(c), IsConfig(c), NEW r, RulesKept(c, r, LastPlace), ~WholeRange(c),
         r.default = DefaultOutbound(c), NEW addr, addr.type = "ip"
  PROVE  MatchAddr(r, addr) \in ByRules(c, addr)
<1>1. PICK n, rules, table : n = IpVal[addr.host] /\ rules = CidrRules(c) /\ table = r.ip
  OBVIOUS
<1>2. /\ DOMAIN table = {Block(x.val) : x \in rules}
      /\ \A b \in DOMAIN table : \E x \in rules :
           /\ Block(x.val) = b /\ x.tag = table[b]
           /\ \A y \in rules : Block(y.val) = b => ~Before(x.at, y.at)
  BY <1>1, DoneAtEnds DEF RulesKept, CidrsKept
<1>3. \A x \in rules : x.val.prefix \in 0 .. Width /\ x.val.prefix # 0
  BY <1>1, CidrLengths DEF WholeRange
<1>4. ASSUME NEW x \in rules
      PROVE  Block(x.val)[1] = x.val.prefix /\ Block(x.val) = <<x.val.prefix, Top(x.val.ip, x.val.prefix)>>
             /\ Block(x.val)[2] = Top(x.val.ip, x.val.prefix)
  BY <1>3 DEF Block, Depth
<1> DEFINE hits == {b \in DOMAIN table : b[2] = Top(n, b[1])}
           held == {x \in rules : Top(x.val.ip, x.val.prefix) = Top(n, x.val.prefix)}
<1>5. MatchAddr(r, addr) = IF hits = {} THEN r.default
                           ELSE table[CHOOSE b \in hits : \A x \in hits : x[1] <= b[1]]
  BY <1>1 DEF MatchAddr, MatchIp
<1>6. \A x \in rules : x \in held <=> Block(x.val) \in hits
  BY <1>2, <1>4
<1>7. PICK longest : longest = LongestLast(rules, n)
  OBVIOUS
<1>8. longest = {x \in held : \A y \in held : \/ y.val.prefix < x.val.prefix
                                              \/ y.val.prefix = x.val.prefix /\ ~Before(x.at, y.at)}
  BY <1>7 DEF LongestLast
<1>9. ByRules(c, addr) = IF longest = {} THEN {DefaultOutbound(c)} ELSE Tags(longest)
  BY <1>1, <1>7 DEF ByRules
<1>10. hits \subseteq DOMAIN table /\ held \subseteq rules
  OBVIOUS
<1>11. \A b \in hits : b[2] = Top(n, b[1])
  OBVIOUS
<1> HIDE DEF hits, held
<1>12. CASE hits = {}
  <2>1. held = {}
    BY <1>6, <1>10, <1>12
  <2>2. longest = {}
    BY <1>8, <2>1
  <2> QED
    BY <1>5, <1>9, <1>12, <2>2
<1>13. CASE hits # {}
  <2>1. \A b \in hits : b[1] \in 0 .. Width
    BY <1>2, <1>3, <1>4, <1>10
  <2>2. \E b \in hits : \A x \in hits : x[1] <= b[1]
    BY <1>13, <2>1, WidthAssumption, GreatestExists
  <2>3. PICK b : b = CHOOSE z \in hits : \A x \in hits : x[1] <= z[1]
    OBVIOUS
  <2>4. b \in hits /\ \A x \in hits : x[1] <= b[1]
    BY <2>2, <2>3, Zenon
  <2>5. PICK x \in rules : /\ Block(x.val) = b /\ x.tag = table[b]
                           /\ \A y \in rules : Block(y.val) = b => ~Before(x.at, y.at)
    BY <1>2, <1>10, <2>4
  <2>6. x \in held
    BY <1>6, <2>4, <2>5
  <2>7. ASSUME NEW y \in held
        PROVE  y.val.prefix < x.val.prefix \/ (y.val.prefix = x.val.prefix /\ ~Before(x.at, y.at))
    <3>1. y \in rules /\ Block(y.val) \in hits
      BY <1>6, <1>10
    <3>2. y.val.prefix <= x.val.prefix
      BY <1>4, <2>4, <2>5, <3>1
    <3>3. CASE y.val.prefix = x.val.prefix
      <4>1. Block(y.val)[2] = Top(n, y.val.prefix) /\ b[2] = Top(n, x.val.prefix)
        BY <1>4, <1>11, <2>4, <2>5, <3>1
      <4>2. Top(y.val.ip, y.val.prefix) = Top(n, y.val.prefix) /\ Top(x.val.ip, x.val.prefix) = Top(n, x.val.prefix)
        BY <1>4, <2>5, <3>1, <4>1
      <4>3. Block(y.val) = b
        BY <1>4, <2>5, <3>1, <3>3, <4>2
      <4> QED
        BY <2>5, <3>1, <3>3, <4>3
    <3> QED
      BY <1>3, <3>1, <3>2, <3>3
  <2>8. x \in longest
    BY <1>8, <2>6, <2>7
  <2>9. table[b] \in Tags(longest) /\ longest # {}
    BY <2>5, <2>8 DEF Tags
  <2>10. MatchAddr(r, addr) = table[b]
    BY <1>5, <1>13, <2>3
  <2> QED
    BY <1>9, <2>9, <2>10
<1> QED
  BY <1>12, <1>13

-----------------------------------------------------------------------------
(* The address.  A SOCKS5 request that is taken for one gives the address  *)
(* of the client's request, also after others of its bytes were read as    *)
(* methods.                                                                *)
LEMMA AddressRead ==
  ASSUME IInv, ReadRequest
  PROVE  swallowed \/ target' = client.addr
<1>1. SUFFICES ASSUME ~swallowed PROVE target' = client.addr
  OBVIOUS
<1>2. PICK a \in Addrs, n \in 1 .. Len(inbox) - 4 : AddressIs(a, n) /\ target' = a
  BY DEF ReadRequest
<1>3. OwnHost /\ inbox[5] = <<"host", client.addr>>
  BY <1>1, OwnRequest
<1> QED
  BY <1>2, <1>3 DEF AddressIs

(* Steps that keep the address and the streams. *)
LEMMA OpenedSame ==
  ASSUME OpenedInv, UNCHANGED <<client, router, opened>>, at \notin {"config", "stopped"},
         at' \notin {"config", "stopped"}, swallowed => swallowed',
         \/ at' \notin {"route", "build"}
         \/ at' = "route" /\ (client.kind = "http" \/ swallowed \/ target' = client.addr)
         \/ at' = at /\ UNCHANGED <<target, outbound>>
  PROVE  OpenedInv'
<1>1. at' = "build" => outbound' = MatchAddr(router', target')
  BY DEF OpenedInv
<1>2. at' \in {"route", "build"} /\ client'.kind # "http" => swallowed' \/ target' = client'.addr
  BY DEF OpenedInv
<1>3. \A o \in opened' : /\ o.outbound = MatchAddr(router', o.target)
                         /\ client'.kind # "http" => o.target = o.asked
  BY DEF OpenedInv
<1> QED
  BY <1>1, <1>2, <1>3 DEF OpenedInv

LEMMA OpenedStartServer == ASSUME OpenedInv, StartServer PROVE OpenedInv'
<1>1. at = "config" /\ at' \in {"config", "stopped", "listen"}
  BY DEF StartServer, RouterNext, BuildServer, NextSection, AddDomainEntry, AddCidr, OpenFile, ReadTag,
         ReadSite, ReadCidr, ReadHeader, EndOfFile, BuildRouter, InGroup, In
<1>2. opened' = {}
  BY <1>1 DEF StartServer, OpenedInv
<1> QED
  BY <1>1, <1>2 DEF OpenedInv

LEMMA OpenedHttpRequest == ASSUME IInv, OpenedInv, HttpRequest PROVE OpenedInv'
<1>1. /\ UNCHANGED <<client, router, opened, swallowed>> /\ at = "http" /\ inbox # <<>>
      /\ at' \in {"http", "route", "failed"}
  BY DEF HttpRequest, Answer
<1>2. client.kind = "http"
  BY <1>1 DEF IInv, ScriptInv, RequestsLeft
<1> QED
  BY <1>1, <1>2, OpenedSame

LEMMA OpenedRoute == ASSUME OpenedInv, Route PROVE OpenedInv'
<1>1. /\ UNCHANGED <<client, router, opened, target, swallowed>> /\ at = "route" /\ at' \in {"build", "panicked"}
      /\ outbound' = MatchAddr(router, target)
  BY DEF Route
<1>2. client.kind # "http" => swallowed \/ target = client.addr
  BY <1>1 DEF OpenedInv
<1>3. outbound' = MatchAddr(router', target')
  BY <1>1
<1>4. \A o \in opened' : /\ o.outbound = MatchAddr(router', o.target)
                         /\ client'.kind # "http" => o.target = o.asked
  BY <1>1 DEF OpenedInv
<1> QED
  BY <1>1, <1>2, <1>3, <1>4 DEF OpenedInv

LEMMA OpenedBuild == ASSUME OpenedInv, Build PROVE OpenedInv'
<1>1. /\ UNCHANGED <<client, router, target, outbound, swallowed>> /\ at = "build"
      /\ at' \in {"http", "relay", "failed"}
      /\ opened' = opened \cup {[asked |-> Asked, target |-> target, outbound |-> outbound]}
  BY DEF Build, Answer
<1>2. PICK n : n = [asked |-> Asked, target |-> target, outbound |-> outbound]
  OBVIOUS
<1>3. n.asked = Asked /\ n.target = target /\ n.outbound = outbound
  BY <1>2
<1>4. n.outbound = MatchAddr(router, n.target)
  BY <1>1, <1>3 DEF OpenedInv
<1>5. client.kind # "http" => n.target = n.asked
  BY <1>1, <1>3 DEF OpenedInv, Asked
<1>6. \A o \in opened' : /\ o.outbound = MatchAddr(router', o.target)
                         /\ client'.kind # "http" => o.target = o.asked
  BY <1>1, <1>2, <1>4, <1>5 DEF OpenedInv
<1> QED
  BY <1>1, <1>6 DEF OpenedInv

(* What the other steps of the service and the client leave alone. *)
LEMMA Elsewhere ==
  ASSUME Serve \/ ClientCloses \/ \E k \in 1 .. Len(todo) : ClientSends(k)
  PROVE  /\ UNCHANGED <<cfg, client, router>> /\ at \notin {"config", "stopped"}
         /\ at' \notin {"config", "stopped"}
<1>1. CASE ClientCloses \/ \E k \in 1 .. Len(todo) : ClientSends(k)
  BY <1>1 DEF ClientCloses, ClientSends
<1>2. CASE Peek \/ Dokodemo \/ Header \/ RequestFails \/ ReadFails \/ HttpEnds \/ Route \/ Relay
           \/ \E k \in 1 .. Len(inbox) : ReadMethods(k)
  BY <1>2 DEF Peek, Dokodemo, Header, RequestFails, ReadFails, Short, HttpEnds, Route, Relay, ReadMethods
<1>3. CASE ChooseMethod
  BY <1>3 DEF ChooseMethod, Answer
<1>4. CASE Authenticate
  BY <1>4 DEF Authenticate, Answer
<1>5. CASE ReadRequest
  BY <1>5 DEF ReadRequest, Answer
<1>6. CASE HttpRequest
  BY <1>6 DEF HttpRequest, Answer
<1>7. CASE Build \/ BuildFails
  BY <1>7 DEF Build, BuildFails, Answer
<1> QED
  BY <1>1, <1>2, <1>3, <1>4, <1>5, <1>6, <1>7 DEF Serve

LEMMA OpenedStep == ASSUME IInv, OpenedInv, [Next]_vars PROVE OpenedInv'
<1>1. CASE StartServer
  BY <1>1, OpenedStartServer
<1>2. CASE HttpRequest
  BY <1>2, OpenedHttpRequest
<1>3. CASE Route
  BY <1>3, OpenedRoute
<1>4. CASE Build
  BY <1>4, OpenedBuild
<1>5. CASE Dokodemo
  <2>1. UNCHANGED <<client, router, opened, swallowed>> /\ at = "listen" /\ at' \in {"route", "relay", "failed"} /\ target' = client.addr
    BY <1>5 DEF Dokodemo
  <2> QED
    BY <2>1, OpenedSame
<1>6. CASE ReadRequest
  <2>1. UNCHANGED <<client, router, opened, swallowed>> /\ at = "request" /\ at' \in {"route", "udp", "failed"}
    BY <1>6 DEF ReadRequest, Answer
  <2>2. swallowed \/ target' = client.addr
    BY <1>6, AddressRead
  <2> QED
    BY <2>1, <2>2, OpenedSame
<1>7. CASE Peek \/ Header \/ RequestFails \/ ReadFails \/ HttpEnds
  <2>1. UNCHANGED <<client, router, opened, swallowed>> /\ at' \notin {"config", "stopped", "route", "build"}
        /\ at \notin {"config", "stopped"}
    BY <1>7 DEF Peek, Header, RequestFails, ReadFails, Short, HttpEnds
  <2> QED
    BY <2>1, OpenedSame
<1>8. CASE ChooseMethod
  <2>1. UNCHANGED <<client, router, opened, swallowed>> /\ at' \in {"login", "request", "failed"} /\ at = "methods"
    BY <1>8 DEF ChooseMethod, Answer
  <2> QED
    BY <2>1, OpenedSame
<1>9. CASE Authenticate
  <2>1. UNCHANGED <<client, router, opened, swallowed>> /\ at' \in {"request", "failed"} /\ at = "login"
    BY <1>9 DEF Authenticate, Answer
  <2> QED
    BY <2>1, OpenedSame
<1>10. CASE BuildFails
  <2>1. UNCHANGED <<client, router, opened, swallowed>> /\ at' \in {"http", "done", "failed"} /\ at = "build"
    BY <1>10 DEF BuildFails, Answer
  <2> QED
    BY <2>1, OpenedSame
<1>11. CASE Relay \/ ClientCloses \/ (\E k \in 1 .. Len(inbox) : ReadMethods(k))
            \/ (\E k \in 1 .. Len(todo) : ClientSends(k))
  <2>1. UNCHANGED <<client, router, opened, at, target, outbound>> /\ at \notin {"config", "stopped"}
    BY <1>11 DEF Relay, ClientCloses, ReadMethods, ClientSends
  <2>2. swallowed => swallowed'
    <3>1. \A k : ReadMethods(k) => (swallowed => swallowed')
      BY Zenon DEF ReadMethods
    <3>2. Relay \/ ClientCloses \/ (\E k : ClientSends(k)) => swallowed' = swallowed
      BY DEF Relay, ClientCloses, ClientSends
    <3> QED
      BY <1>11, <3>1, <3>2
  <2> QED
    BY <2>1, <2>2, OpenedSame
<1>12. CASE UNCHANGED vars
  <2>1. UNCHANGED <<client, router, opened, at, target, outbound, swallowed>>
    BY <1>12 DEF vars
  <2>2. \A o \in opened' : /\ o.outbound = MatchAddr(router', o.target)
                           /\ client'.kind # "http" => o.target = o.asked
    BY <2>1 DEF OpenedInv
  <2>3. at' = "build" => outbound' = MatchAddr(router', target')
    BY <2>1 DEF OpenedInv
  <2> QED
    BY <2>1, <2>2, <2>3 DEF OpenedInv
<1> QED
  BY <1>1, <1>2, <1>3, <1>4, <1>5, <1>6, <1>7, <1>8, <1>9, <1>10, <1>11, <1>12 DEF Next, Serve

LEMMA RouterStays ==
  ASSUME RouterInv, UNCHANGED <<cfg, router>>, at \notin {"config", "stopped"},
         at' \notin {"config", "stopped"}
  PROVE  RouterInv'
BY DEF RouterInv, LastPlace

LEMMA RouterAlways == ASSUME RouterInv, [Next]_vars PROVE RouterInv'
<1>1. CASE StartServer
  BY <1>1, RouterStep DEF StartServer
<1>2. CASE Serve \/ ClientCloses \/ \E k \in 1 .. Len(todo) : ClientSends(k)
  BY <1>2, Elsewhere, RouterStays
<1>3. CASE UNCHANGED vars
  <2>1. UNCHANGED <<cfg, router, at>>
    BY <1>3 DEF vars
  <2>2. CASE at \in {"config", "stopped"}
    BY <2>1, <2>2 DEF RouterInv, PlaceInv, In, More, InGroup, CurEntry, Item
  <2>3. CASE at \notin {"config", "stopped"}
    BY <2>1, <2>3, RouterStays
  <2> QED
    BY <2>2, <2>3
<1> QED
  BY <1>1, <1>2, <1>3 DEF Next

(* For every configuration: the matchers and the table of build_router     *)
(* hold, at each step of its loops, the rules of the sections and files    *)
(* that come before, in the order of the first mentions and with the last  *)
(* tag of each block; read_geosite_file and read_geoip_file take the       *)
(* groups that the rules name and no others.                               *)
THEOREM InboundRouter == Spec => []RouterInv
<1>1. Init => RouterInv
  BY RouterInit
<1>2. RouterInv /\ [Next]_vars => RouterInv'
  BY RouterAlways
<1> QED
  BY <1>1, <1>2, PTL DEF Spec

LEMMA RoutedRight == ASSUME RouterInv, OpenedInv PROVE RoutedByRules
<1>1. SUFFICES ASSUME NEW o \in opened, IF o.asked.type = "ip" THEN ~WholeRange(cfg) ELSE ~LowerSite(cfg),
                      ~(client.kind = "http" /\ o.target # o.asked)
               PROVE  o.outbound \in ByRules(cfg, o.asked)
  BY DEF RoutedByRules
<1>2. o.outbound = MatchAddr(router, o.asked) /\ at \notin {"config", "stopped"}
  BY <1>1 DEF OpenedInv
<1>3. /\ IsConfig(cfg) /\ Listable(cfg) /\ RulesKept(cfg, router, LastPlace)
      /\ router.default = DefaultOutbound(cfg)
  BY <1>2, ConfigLists DEF RouterInv
<1>4. CASE o.asked.type = "ip"
  BY <1>1, <1>2, <1>3, <1>4, AddressMatch
<1>5. CASE o.asked.type # "ip"
  BY <1>1, <1>2, <1>3, <1>5, NameMatch
<1> QED
  BY <1>4, <1>5

(* For every configuration and client: match_addr gives the outbound that  *)
(* the rules of the configuration and the groups they name give for the    *)
(* address the client asked for, whatever order the tables are built and   *)
(* the client's bytes are read in.                                         *)
THEOREM InboundRoutes == Spec => []RoutedByRules
<1>1. Init => OpenedInv
  BY DEF Init, OpenedInv
<1>2. IInv /\ OpenedInv /\ [Next]_vars => OpenedInv'
  BY OpenedStep
<1>3. RouterInv /\ OpenedInv => RoutedByRules
  BY RoutedRight
<1> QED
  BY <1>1, <1>2, <1>3, InboundInvariant, InboundRouter, PTL DEF Spec
=============================================================================
