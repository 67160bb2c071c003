-------------------------- MODULE TransportProofs --------------------------
(***************************************************************************)
(* Proofs about the transports that carry a stream in messages: that the   *)
(* peer receives what was written, that its window is opened again, and    *)
(* that readers return what it has sent and report the end only after it;  *)
(* for every transport, window, frame, buffer and number of bytes.         *)
(***************************************************************************)
EXTENDS Transport, SequenceTheorems, WellFoundedInduction, TLAPS

(* Bytes with consecutive numbers. *)
LEMMA DatasProperties ==
  ASSUME NEW m \in Nat, NEW n \in Nat
  PROVE  /\ Datas(m, n) \in Seq(Units) /\ Len(Datas(m, n)) = n
         /\ \A i \in 1 .. n : Datas(m, n)[i] = <<"data", m + i>>
<1>1. \A i \in 1 .. n : <<"data", m + i>> \in Units
  BY DEF Units
<1> QED
  BY <1>1 DEF Datas

LEMMA NoDatas == \A m : Datas(m, 0) = <<>>
BY DEF Datas

LEMMA DatasConcat ==
  ASSUME NEW m \in Nat, NEW a \in Nat, NEW b \in Nat
  PROVE  Datas(m, a) \o Datas(m + a, b) = Datas(m, a + b)
<1> DEFINE s == Datas(m, a)
           t == Datas(m + a, b)
           c == Datas(m, a + b)
<1>1. /\ s \in Seq(Units) /\ Len(s) = a /\ \A i \in 1 .. a : s[i] = <<"data", m + i>>
      /\ t \in Seq(Units) /\ Len(t) = b /\ \A i \in 1 .. b : t[i] = <<"data", (m + a) + i>>
      /\ c \in Seq(Units) /\ Len(c) = a + b /\ \A i \in 1 .. a + b : c[i] = <<"data", m + i>>
  <2>1. m + a \in Nat /\ a + b \in Nat
    OBVIOUS
  <2> QED
    BY <2>1, DatasProperties
<1> HIDE DEF s, t, c, Units
<1>2. /\ s \o t \in Seq(Units) /\ Len(s \o t) = a + b
      /\ \A i \in 1 .. a + b : (s \o t)[i] = IF i <= a THEN s[i] ELSE t[i - a]
  BY <1>1, ConcatProperties
<1>3. ASSUME NEW i \in 1 .. a + b
      PROVE  (s \o t)[i] = c[i]
  <2>1. CASE i <= a
    <3>1. i \in 1 .. a
      BY <2>1
    <3> QED
      BY <1>1, <1>2, <2>1, <3>1
  <2>2. CASE ~(i <= a)
    <3>1. i - a \in 1 .. b /\ (m + a) + (i - a) = m + i
      BY <2>2
    <3> QED
      BY <1>1, <1>2, <2>2, <3>1
  <2> QED
    BY <2>1, <2>2
<1>4. s \o t = c
  BY <1>1, <1>2, <1>3, SeqEqual
<1> QED
  BY <1>4 DEF s, t, c

LEMMA DatasSplit ==
  ASSUME NEW m \in Nat, NEW n \in Nat, NEW k \in 0 .. n
  PROVE  /\ SubSeq(Datas(m, n), 1, k) = Datas(m, k)
         /\ SubSeq(Datas(m, n), k + 1, n) = Datas(m + k, n - k)
<1> DEFINE s == Datas(m, n)
<1>0. k \in Nat /\ k <= n /\ k + 1 \in Nat
  OBVIOUS
<1>1. s \in Seq(Units) /\ Len(s) = n /\ \A i \in 1 .. n : s[i] = <<"data", m + i>>
  BY DatasProperties
<1>a. \A i \in 1 .. n : s[i] \in Units
  <2>1. \A i \in 1 .. n : <<"data", m + i>> \in Units
    BY DEF Units
  <2> QED
    BY <1>1, <2>1
<1>2. SubSeq(s, 1, k) = Datas(m, k)
  <2> DEFINE a == SubSeq(s, 1, k)
             b == Datas(m, k)
  <2>1. b \in Seq(Units) /\ Len(b) = k /\ \A i \in 1 .. k : b[i] = <<"data", m + i>>
    BY <1>0, DatasProperties
  <2> HIDE DEF s, b, Units
  <2>2. \A i \in 1 .. k : i \in 1 .. n /\ s[i] \in Units
    <3>1. \A i \in 1 .. k : i \in 1 .. n
      BY <1>0
    <3> QED
      BY <1>a, <3>1
  <2>3. a \in Seq(Units) /\ Len(a) = k /\ \A i \in 1 .. k : a[i] = s[i]
    BY <1>1, <2>2, SubSeqProperties
  <2>4. \A i \in 1 .. k : a[i] = b[i]
    BY <1>1, <2>1, <2>2, <2>3
  <2> HIDE DEF a
  <2>5. a = b
    BY <2>1, <2>3, <2>4, SeqEqual
  <2> QED
    BY <2>5 DEF a, b
<1>3. SubSeq(s, k + 1, n) = Datas(m + k, n - k)
  <2> DEFINE a == SubSeq(s, k + 1, n)
             b == Datas(m + k, n - k)
  <2>1. b \in Seq(Units) /\ Len(b) = n - k /\ \A i \in 1 .. n - k : b[i] = <<"data", (m + k) + i>>
    <3>1. m + k \in Nat /\ n - k \in Nat
      OBVIOUS
    <3> QED
      BY <3>1, DatasProperties
  <2> HIDE DEF s, b, Units
  <2>2. \A i \in k + 1 .. n : s[i] \in Units
    <3>1. \A i \in k + 1 .. n : i \in 1 .. n
      BY <1>0
    <3> QED
      BY <1>a, <3>1
  <2>3. a \in Seq(Units) /\ Len(a) = n - k /\ \A i \in 1 .. n - k : a[i] = s[k + i]
    BY <1>1, <2>2, SubSeqProperties
  <2>4. ASSUME NEW i \in 1 .. n - k
        PROVE  a[i] = b[i]
    <3>1. k + i \in 1 .. n /\ m + (k + i) = (m + k) + i
      OBVIOUS
    <3> QED
      BY <1>1, <2>1, <2>3, <3>1
  <2> HIDE DEF a
  <2>5. a = b
    BY <2>1, <2>3, <2>4, SeqEqual
  <2> QED
    BY <2>5 DEF a, b
<1> QED
  BY <1>2, <1>3

(* What is in a frame of gRPC. *)
IsFrame(fr, x, t, n, k) ==
  /\ fr \in Seq(Units)
  /\ Len(fr) = IF n = 0 THEN t ELSE t + 1 + k
  /\ \A i \in 1 .. t : fr[i] = <<"data", x + i>>
  /\ n > 0 => fr[t + 1] = <<"head", n>>
  /\ n > 0 => \A i \in 1 .. k : fr[(t + 1) + i] = <<"data", (x + t) + i>>

LEMMA FrameIsFrame ==
  ASSUME NEW x \in Nat, NEW t \in Nat, NEW n \in Nat, NEW k \in Nat
  PROVE  IsFrame(Frame(x, t, n, k), x, t, n, k)
<1> DEFINE first == Datas(x, t)
           head  == << <<"head", n>> >>
           last  == Datas(x + t, k)
           full  == head \o last
<1>0. x + t \in Nat
  OBVIOUS
<1>1. first \in Seq(Units) /\ Len(first) = t /\ \A i \in 1 .. t : first[i] = <<"data", x + i>>
  BY DatasProperties
<1>2. last \in Seq(Units) /\ Len(last) = k /\ \A i \in 1 .. k : last[i] = <<"data", (x + t) + i>>
  BY <1>0, DatasProperties
<1>3. head \in Seq(Units) /\ Len(head) = 1 /\ head[1] = <<"head", n>>
  <2>1. <<"head", n>> \in Units
    BY DEF Units
  <2> QED
    BY <2>1
<1>4. Frame(x, t, n, k) = first \o (IF n = 0 THEN <<>> ELSE full)
  BY DEF Frame
<1> HIDE DEF first, head, last, Units
<1>5. /\ full \in Seq(Units) /\ Len(full) = 1 + k
      /\ \A i \in 1 .. 1 + k : full[i] = IF i <= 1 THEN head[i] ELSE last[i - 1]
  <2>1. head \in Seq(Units) /\ last \in Seq(Units)
    BY <1>2, <1>3
  <2>2. /\ full \in Seq(Units) /\ Len(full) = Len(head) + Len(last)
        /\ \A i \in 1 .. Len(head) + Len(last) :
             full[i] = IF i <= Len(head) THEN head[i] ELSE last[i - Len(head)]
    BY <2>1, ConcatProperties
  <2> QED
    BY <1>2, <1>3, <2>2
<1>6. full[1] = <<"head", n>> /\ \A i \in 1 .. k : full[1 + i] = <<"data", (x + t) + i>>
  <2>1. 1 \in 1 .. 1 + k /\ 1 <= 1
    OBVIOUS
  <2>2. \A i \in 1 .. k : 1 + i \in 1 .. 1 + k /\ ~(1 + i <= 1) /\ (1 + i) - 1 = i
    OBVIOUS
  <2> QED
    BY <1>2, <1>3, <1>5, <2>1, <2>2
<1> HIDE DEF full
<1>7. CASE n = 0
  <2>1. first \o <<>> = first
    BY <1>1, ConcatEmptySeq
  <2>2. Frame(x, t, n, k) = first /\ ~(n > 0)
    BY <1>4, <1>7, <2>1
  <2> QED
    BY <1>1, <1>7, <2>2 DEF IsFrame
<1>8. CASE n > 0
  <2>1. /\ first \o full \in Seq(Units) /\ Len(first \o full) = t + (1 + k)
        /\ \A i \in 1 .. t + (1 + k) : (first \o full)[i] = IF i <= t THEN first[i] ELSE full[i - t]
    <3>1. first \in Seq(Units) /\ full \in Seq(Units)
      BY <1>1, <1>5
    <3>2. /\ first \o full \in Seq(Units) /\ Len(first \o full) = Len(first) + Len(full)
          /\ \A i \in 1 .. Len(first) + Len(full) :
               (first \o full)[i] = IF i <= Len(first) THEN first[i] ELSE full[i - Len(first)]
      BY <3>1, ConcatProperties
    <3> QED
      BY <1>1, <1>5, <3>2
  <2>2. Frame(x, t, n, k) = first \o full
    BY <1>4, <1>8
  <2> DEFINE fr == Frame(x, t, n, k)
  <2> HIDE DEF fr
  <2>3. /\ fr \in Seq(Units) /\ Len(fr) = t + (1 + k)
        /\ \A i \in 1 .. t + (1 + k) : fr[i] = IF i <= t THEN first[i] ELSE full[i - t]
    BY <2>1, <2>2 DEF fr
  <2>4. \A i \in 1 .. t : fr[i] = <<"data", x + i>>
    <3>1. \A i \in 1 .. t : i \in 1 .. t + (1 + k) /\ i <= t
      OBVIOUS
    <3> QED
      BY <1>1, <2>3, <3>1
  <2>5. fr[t + 1] = <<"head", n>>
    <3>1. t + 1 \in 1 .. t + (1 + k) /\ ~(t + 1 <= t) /\ (t + 1) - t = 1
      OBVIOUS
    <3> QED
      BY <1>6, <2>3, <3>1
  <2>6. \A i \in 1 .. k : fr[(t + 1) + i] = <<"data", (x + t) + i>>
    <3>1. \A i \in 1 .. k : /\ (t + 1) + i \in 1 .. t + (1 + k) /\ ~((t + 1) + i <= t)
                            /\ ((t + 1) + i) - t = 1 + i
      OBVIOUS
    <3> QED
      BY <1>6, <2>3, <3>1
  <2>7. Len(fr) = IF n = 0 THEN t ELSE t + 1 + k
    BY <1>8, <2>3
  <2>8. fr \in Seq(Units)
    BY <2>3
  <2> QED
    BY <2>4, <2>5, <2>6, <2>7, <2>8, Zenon DEF fr, IsFrame
<1>9. n = 0 \/ n > 0
  OBVIOUS
<1> QED
  BY <1>7, <1>8, <1>9

-----------------------------------------------------------------------------
(* A write that reports the bytes it has sent. *)
LEMMA Wrote ==
  ASSUME WriteInv, early = "done", NEW n \in Nat, accepted' = accepted + n,
         peer_got' = peer_got \o Datas(accepted, n),
         ~(kind = "grpc" /\ short), UNCHANGED <<kind, early, early_data_len>>
  PROVE  WriteInv'
<1>1. accepted \in Nat /\ peer_got = Datas(0, accepted)
  BY DEF WriteInv, WriteFaithful
<1>2. peer_got' = Datas(0, accepted')
  <2>1. 0 + accepted = accepted /\ 0 \in Nat
    BY <1>1
  <2>2. Datas(0, accepted) \o Datas(0 + accepted, n) = Datas(0, accepted + n)
    BY <1>1, <2>1, DatasConcat
  <2> QED
    BY <1>1, <2>1, <2>2
<1>3. accepted' \in Nat
  BY <1>1
<1> QED
  BY <1>2, <1>3 DEF WriteInv, WriteFaithful

LEMMA WriteInit == Init => WriteInv
<1> SUFFICES ASSUME Init PROVE WriteInv
  OBVIOUS
<1>1. peer_got = Datas(0, accepted)
  BY NoDatas DEF Init
<1> QED
  BY <1>1 DEF Init, WriteInv, WriteFaithful

LEMMA WriteNext == WriteInv /\ [Next]_vars => WriteInv'
<1> SUFFICES ASSUME WriteInv, [Next]_vars PROVE WriteInv'
  OBVIOUS
<1>0. accepted \in Nat /\ early_data_len \in Nat
  BY DEF WriteInv
<1> DEFINE Still == UNCHANGED <<kind, early, early_data_len, accepted, peer_got, short>>
<1>1. ASSUME Still PROVE WriteInv'
  BY <1>1 DEF WriteInv, WriteFaithful
<1>2. ASSUME NEW n \in 1 .. MaxOffer, H2Write(n) PROVE WriteInv'
  <2>1. PICK to_write \in 1 .. LeastOf(n, credit) :
           /\ peer_got' = peer_got \o Datas(accepted, to_write)
           /\ accepted' = accepted + to_write
    BY <1>2 DEF H2Write
  <2>2. kind = "h2" /\ UNCHANGED <<kind, early, early_data_len>> /\ to_write \in Nat
    BY <1>2 DEF H2Write
  <2>3. early = "done"
    BY <2>2 DEF WriteInv
  <2> QED
    BY <2>1, <2>2, <2>3, Wrote
<1>3. ASSUME NEW n \in 1 .. MaxOffer, GrpcWrite(n) PROVE WriteInv'
  <2>1. PICK to_write \in 1 .. LeastOf(n + 1, credit) :
           /\ peer_got' = peer_got \o Datas(accepted, n)
           /\ accepted' = accepted + LeastOf(n, to_write)
           /\ short' = (short \/ to_write < n)
    BY <1>3 DEF GrpcWrite
  <2>2. kind = "grpc" /\ UNCHANGED <<kind, early, early_data_len>> /\ to_write \in Nat /\ n \in Nat
    BY <1>3 DEF GrpcWrite
  <2>3. early = "done"
    BY <2>2 DEF WriteInv
  <2>4. LeastOf(n, to_write) \in Nat /\ accepted' \in Nat
    BY <1>0, <2>1, <2>2 DEF LeastOf
  <2>5. CASE short'
    BY <1>0, <2>2, <2>3, <2>4, <2>5 DEF WriteInv, WriteFaithful
  <2>6. CASE ~short'
    <3>1. ~short /\ ~(to_write < n)
      BY <2>1, <2>6
    <3>3. LeastOf(n, to_write) = n
      BY <2>2, <3>1 DEF LeastOf
    <3>2. accepted' = accepted + n
      BY <2>1, <3>3
    <3> QED
      BY <2>1, <2>2, <2>3, <3>1, <3>2, Wrote
  <2> QED
    BY <2>5, <2>6
<1>4. ASSUME NEW n \in 1 .. MaxOffer, WsWrite(n) PROVE WriteInv'
  <2>1. /\ kind \in {"ws", "ws0"} /\ early = "done" /\ peer_got' = peer_got \o Datas(accepted, n)
        /\ accepted' = accepted + n /\ UNCHANGED <<kind, early, early_data_len>> /\ n \in Nat
    BY <1>4 DEF WsWrite
  <2> QED
    BY <2>1, Wrote
<1>5. ASSUME NEW n \in 1 .. MaxOffer, EarlyWrite(n) PROVE WriteInv'
  <2>1. /\ kind = "ws0" /\ early = "none" /\ early' = "handshake" /\ n \in Nat
        /\ early_data_len' = LeastOf(MaxEarly, n) /\ UNCHANGED <<kind, accepted, peer_got>>
    BY <1>5 DEF EarlyWrite
  <2>2. early_data_len' \in Nat
    BY <2>1, TransportAssumption DEF LeastOf
  <2> QED
    BY <2>1, <2>2 DEF WriteInv, WriteFaithful
<1>6. ASSUME NEW n \in 1 .. MaxOffer, ObfsFirst(n) PROVE WriteInv'
  <2>1. /\ kind = "obfs" /\ accepted' = n /\ UNCHANGED <<kind, early_data_len>> /\ n \in Nat
        /\ (early' = "done" /\ peer_got' = Datas(0, n)) \/ early' = "failed"
    BY <1>6 DEF ObfsFirst
  <2> QED
    BY <1>0, <2>1 DEF WriteInv, WriteFaithful
<1>7. ASSUME NEW n \in 1 .. MaxOffer, ObfsWrite(n) PROVE WriteInv'
  <2>1. PICK k \in 1 .. n : peer_got' = peer_got \o Datas(accepted, k) /\ accepted' = accepted + k
    BY <1>7 DEF ObfsWrite
  <2>2. kind = "obfs" /\ early = "done" /\ UNCHANGED <<kind, early, early_data_len>> /\ k \in Nat
    BY <1>7 DEF ObfsWrite
  <2> QED
    BY <2>1, <2>2, Wrote
<1>8. CASE EarlyDone
  <2>1. early' = "done" /\ peer_got' = Datas(0, early_data_len) /\ accepted' = early_data_len
        /\ UNCHANGED <<kind, early_data_len>>
    BY <1>8 DEF EarlyDone
  <2> QED
    BY <1>0, <2>1 DEF WriteInv, WriteFaithful
<1>9. CASE EarlyFails
  <2>1. early = "handshake" /\ early' = "failed" /\ UNCHANGED <<kind, early_data_len, accepted, peer_got, short>>
    BY <1>9 DEF EarlyFails
  <2> QED
    BY <2>1 DEF WriteInv, WriteFaithful
<1>10. CASE PeerReads \/ PeerPings \/ PeerCloses \/ ReadEarly
  <2>1. Still
    BY <1>10 DEF PeerReads, PeerPings, PeerCloses, ReadEarly, writeVars
  <2> QED
    BY <1>1, <2>1
<1>11. ASSUME NEW n, PeerSends(n) \/ PeerResponds(n) PROVE WriteInv'
  <2>1. Still
    BY <1>11 DEF PeerSends, PeerResponds, writeVars
  <2> QED
    BY <1>1, <2>1
<1>12. ASSUME NEW t, NEW n, NEW k, PeerSendsGrpc(t, n, k) PROVE WriteInv'
  <2>1. Still
    BY <1>12 DEF PeerSendsGrpc, writeVars
  <2> QED
    BY <1>1, <2>1
<1>13. ASSUME NEW room, ReadBuffered(room) \/ ReadFrame(room) \/ GrpcRead(room) \/ ObfsStrip(room) \/ ObfsRead(room)
       PROVE  WriteInv'
  <2>1. Still
    BY <1>13 DEF ReadBuffered, ReadFrame, GrpcRead, ObfsStrip, ObfsRead, writeVars
  <2> QED
    BY <1>1, <2>1
<1>14. CASE ReadPing \/ ReadEnd \/ ObfsSpins
  <2>1. Still
    BY <1>14 DEF ReadPing, ReadEnd, ObfsSpins, writeVars
  <2> QED
    BY <1>1, <2>1
<1>15. CASE UNCHANGED vars
  <2>1. Still
    BY <1>15 DEF vars, writeVars
  <2> QED
    BY <1>1, <2>1
<1> QED
  BY <1>2, <1>3, <1>4, <1>5, <1>6, <1>7, <1>8, <1>9, <1>10, <1>11, <1>12, <1>13, <1>14, <1>15
     DEF Next, Read

(* The peer of every transport receives exactly the bytes that poll_write  *)
(* has reported, early data included; but for gRPC once it was granted     *)
(* less than it offered and for simple-obfs when its first write failed.   *)
THEOREM TransportWrites == Spec => []WriteFaithful
<1>1. WriteInv => WriteFaithful
  BY DEF WriteInv
<1> QED
  BY <1>1, WriteInit, WriteNext, PTL DEF Spec

-----------------------------------------------------------------------------
(* Frames of together d units; f[i] of them are in the first i frames. *)
Sums(f, box, d) ==
  /\ f[0] = 0 /\ f[Len(box)] = d
  /\ \A i \in 1 .. Len(box) : f[i] = f[i - 1] + Len(box[i])

LEMMA SumOfAppend ==
  ASSUME NEW S, NEW box \in Seq(Seq(S)), NEW fr \in Seq(S), NEW d \in Int,
         NEW f \in [0 .. Len(box) -> Int], Sums(f, box, d)
  PROVE  \E g \in [0 .. Len(Append(box, fr)) -> Int] : Sums(g, Append(box, fr), d + Len(fr))
<1> DEFINE n == Len(box)
           new == Append(box, fr)
           g == [i \in 0 .. n + 1 |-> IF i <= n THEN f[i] ELSE d + Len(fr)]
<1>1. /\ n \in Nat /\ Len(new) = n + 1 /\ Len(fr) \in Nat
      /\ \A i \in 1 .. n : new[i] = box[i]
      /\ new[n + 1] = fr
  BY AppendProperties
<1>2. f[0] = 0 /\ f[n] = d /\ \A i \in 1 .. n : f[i] = f[i - 1] + Len(box[i])
  BY DEF Sums
<1>3. \A i \in 0 .. n : f[i] \in Int
  OBVIOUS
<1> HIDE DEF n, new
<1>4. g \in [0 .. n + 1 -> Int]
  BY <1>1, <1>3
<1>5. g[0] = 0 /\ g[n + 1] = d + Len(fr)
  BY <1>1, <1>2
<1>6. ASSUME NEW i \in 1 .. n + 1
      PROVE  g[i] = g[i - 1] + Len(new[i])
  <2>1. i <= n \/ i = n + 1
    BY <1>1
  <2>2. CASE i <= n
    <3>1. i \in 1 .. n /\ i - 1 \in 0 .. n /\ i \in 0 .. n + 1 /\ i - 1 \in 0 .. n + 1 /\ i - 1 <= n
      BY <1>1, <2>2
    <3>2. g[i] = f[i] /\ g[i - 1] = f[i - 1]
      BY <2>2, <3>1
    <3> QED
      BY <1>1, <1>2, <3>1, <3>2
  <2>3. CASE i = n + 1
    <3>1. i - 1 = n /\ n \in 0 .. n + 1 /\ n <= n
      BY <1>1, <2>3
    <3>2. g[i - 1] = d
      BY <1>2, <3>1
    <3> QED
      BY <1>1, <1>5, <2>3, <3>2
  <2> QED
    BY <2>1, <2>2, <2>3
<1> HIDE DEF g
<1>7. Sums(g, new, d + Len(fr))
  BY <1>1, <1>5, <1>6 DEF Sums
<1>8. Len(new) = n + 1 /\ g \in [0 .. Len(new) -> Int]
  BY <1>1, <1>4
<1> QED
  BY <1>7, <1>8 DEF new

LEMMA SumOfTail ==
  ASSUME NEW S, NEW box \in Seq(Seq(S)), box # <<>>, NEW d \in Int,
         NEW f \in [0 .. Len(box) -> Int], Sums(f, box, d)
  PROVE  \E g \in [0 .. Len(Tail(box)) -> Int] : Sums(g, Tail(box), d - Len(Head(box)))
<1> DEFINE n == Len(box)
           new == Tail(box)
           h == Len(Head(box))
           g == [i \in 0 .. n - 1 |-> f[i + 1] - h]
<1>1. /\ n \in Nat /\ n > 0 /\ Len(new) = n - 1 /\ Head(box) = box[1]
      /\ \A i \in 1 .. n - 1 : new[i] = box[i + 1]
  BY HeadTailProperties, EmptySeq, LenProperties
<1>0. h \in Nat /\ \A i \in 1 .. n : Len(box[i]) \in Nat
  <2>1. \A i \in 1 .. n : box[i] \in Seq(S)
    BY ElementOfSeq
  <2> QED
    BY <1>1, <2>1, LenProperties
<1>2. f[0] = 0 /\ f[n] = d /\ \A i \in 1 .. n : f[i] = f[i - 1] + Len(box[i])
  BY DEF Sums
<1>3. \A i \in 0 .. n : f[i] \in Int
  OBVIOUS
<1> HIDE DEF n, new
<1>9. f[1] = h
  <2>1. 1 \in 1 .. n /\ 1 - 1 = 0
    BY <1>1
  <2> QED
    BY <1>0, <1>1, <1>2, <2>1
<1> HIDE DEF h
<1>4. g \in [0 .. n - 1 -> Int]
  BY <1>0, <1>1, <1>3
<1>5. g[0] = 0 /\ g[n - 1] = d - h
  <2>1. 0 \in 0 .. n - 1 /\ n - 1 \in 0 .. n - 1 /\ 0 + 1 = 1 /\ (n - 1) + 1 = n
    BY <1>1
  <2> QED
    BY <1>0, <1>2, <1>9, <2>1
<1>6. ASSUME NEW i \in 1 .. n - 1
      PROVE  g[i] = g[i - 1] + Len(new[i])
  <2>1. /\ i \in 0 .. n - 1 /\ i - 1 \in 0 .. n - 1 /\ i + 1 \in 1 .. n /\ (i + 1) - 1 = i
        /\ (i - 1) + 1 = i /\ i \in 0 .. n /\ i + 1 \in 0 .. n
    BY <1>1
  <2>2. g[i] = f[i + 1] - h /\ g[i - 1] = f[i] - h
    BY <2>1
  <2>3. f[i + 1] = f[i] + Len(box[i + 1])
    BY <1>2, <2>1
  <2>4. f[i] \in Int /\ Len(box[i + 1]) \in Nat /\ new[i] = box[i + 1]
    BY <1>0, <1>1, <1>3, <2>1
  <2>5. g[i] = (f[i] + Len(box[i + 1])) - h
    BY <2>2, <2>3
  <2>6. \A x, l, y \in Int : (x + l) - y = (x - y) + l
    OBVIOUS
  <2>7. g[i] = (f[i] - h) + Len(box[i + 1])
    BY <1>0, <2>4, <2>5, <2>6
  <2> HIDE DEF g
  <2> QED
    BY <2>2, <2>4, <2>7
<1> HIDE DEF g
<1>7. Sums(g, new, d - h)
  BY <1>1, <1>5, <1>6 DEF Sums
<1>8. Len(new) = n - 1 /\ g \in [0 .. Len(new) -> Int]
  BY <1>1, <1>4
<1> QED
  BY <1>7, <1>8 DEF new, h

(* A frame that the peer has sent, and one that the reader has taken. *)
LEMMA Sent ==
  ASSUME WindowInv, NEW fr \in Seq(Units), Receive(fr), UNCHANGED <<kind, cramped>>,
         sent' \in Nat, message' \in Nat
  PROVE  WindowInv'
<1> HIDE DEF Units
<1>1. /\ Flowing => inbox' = Append(inbox, fr)
      /\ window' = (IF Flowing THEN window - Len(fr) ELSE window)
  BY DEF Receive, Flowing
<1>2. Flowing' <=> Flowing
  BY DEF Flowing
<1>3. CASE ~Flowing
  BY <1>1, <1>2, <1>3 DEF WindowInv
<1>4. CASE Flowing
  <2>1. window \in Int /\ inbox \in Seq(Seq(Units)) /\ Len(fr) \in Nat /\ Window \in Int
    BY <1>4, LenProperties, TransportAssumption DEF WindowInv
  <2>2. window' = window - Len(fr)
    BY <1>1, <1>4
  <2>3. window' \in Int /\ inbox' \in Seq(Seq(Units))
    <3>1. inbox' = Append(inbox, fr)
      BY <1>1, <1>4
    <3> QED
      BY <2>1, <2>2, <3>1, AppendProperties
  <2>4. ASSUME ~(kind = "h2" /\ cramped)
        PROVE  \E g \in [0 .. Len(inbox') -> Int] : Sums(g, inbox', Window - window')
    <3>1. PICK f \in [0 .. Len(inbox) -> Int] : Unread(f)
      BY <1>4, <2>4 DEF WindowInv
    <3>2. PICK box, d : box = inbox /\ d = Window - window
      OBVIOUS
    <3>3. box \in Seq(Seq(Units)) /\ d \in Int /\ f \in [0 .. Len(box) -> Int]
      BY <2>1, <3>1, <3>2
    <3>4. Sums(f, box, d)
      BY <3>1, <3>2 DEF Sums, Unread
    <3>5. \E g \in [0 .. Len(Append(box, fr)) -> Int] : Sums(g, Append(box, fr), d + Len(fr))
      BY <3>3, <3>4, SumOfAppend
    <3>7. \A w, v, l \in Int : (w - v) + l = w - (v - l)
      OBVIOUS
    <3>8. (Window - window) + Len(fr) = Window - (window - Len(fr))
      <4>1. Len(fr) \in Int
        BY <2>1
      <4> QED
        BY <2>1, <3>7, <4>1
    <3>9. Append(box, fr) = inbox'
      BY <1>1, <1>4, <3>2
    <3>6. Append(box, fr) = inbox' /\ d + Len(fr) = Window - window'
      BY <2>2, <3>2, <3>8, <3>9
    <3> QED
      BY <3>5, <3>6
  <2>5. ASSUME NEW g, Sums(g, inbox', Window - window') PROVE Unread(g)'
    BY <2>5 DEF Sums, Unread
  <2> QED
    BY <1>2, <1>4, <2>3, <2>4, <2>5 DEF WindowInv
<1> QED
  BY <1>3, <1>4

LEMMA Taken ==
  ASSUME WindowInv, inbox # <<>>, inbox' = Tail(inbox), UNCHANGED <<kind, sent, message>>,
         Flowing => window' \in Int,
         ~Flowing => window' = window,
         Flowing /\ ~(kind = "h2" /\ cramped') => ~(kind = "h2" /\ cramped) /\ window' = window + Len(Head(inbox))
  PROVE  WindowInv'
<1> HIDE DEF Units
<1>2. Flowing' <=> Flowing
  BY DEF Flowing
<1>3. CASE ~Flowing
  BY <1>2, <1>3 DEF WindowInv
<1>4. CASE Flowing
  <2>1. window \in Int /\ inbox \in Seq(Seq(Units)) /\ Window \in Int
    BY <1>4, TransportAssumption DEF WindowInv
  <2>2. Len(Head(inbox)) \in Nat /\ inbox' \in Seq(Seq(Units))
    <3>1. Head(inbox) \in Seq(Units) /\ Tail(inbox) \in Seq(Seq(Units))
      BY <2>1, HeadTailProperties
    <3> QED
      BY <3>1, LenProperties
  <2>4. ASSUME ~(kind = "h2" /\ cramped')
        PROVE  \E g \in [0 .. Len(inbox') -> Int] : Sums(g, inbox', Window - window')
    <3>0. ~(kind = "h2" /\ cramped) /\ window' = window + Len(Head(inbox))
      BY <1>4, <2>4
    <3>1. PICK f \in [0 .. Len(inbox) -> Int] : Unread(f)
      BY <1>4, <3>0 DEF WindowInv
    <3>2. PICK box, d : box = inbox /\ d = Window - window
      OBVIOUS
    <3>3. box \in Seq(Seq(Units)) /\ d \in Int /\ f \in [0 .. Len(box) -> Int] /\ box # <<>>
      BY <2>1, <3>1, <3>2
    <3>4. Sums(f, box, d)
      BY <3>1, <3>2 DEF Sums, Unread
    <3>5. \E g \in [0 .. Len(Tail(box)) -> Int] : Sums(g, Tail(box), d - Len(Head(box)))
      BY <3>3, <3>4, SumOfTail
    <3>6. Tail(box) = inbox' /\ d - Len(Head(box)) = Window - window'
      BY <2>1, <2>2, <3>0, <3>2
    <3> QED
      BY <3>5, <3>6
  <2>5. ASSUME NEW g, Sums(g, inbox', Window - window') PROVE Unread(g)'
    BY <2>5 DEF Sums, Unread
  <2> QED
    BY <1>2, <1>4, <2>2, <2>4, <2>5 DEF WindowInv
<1> QED
  BY <1>3, <1>4

LEMMA WindowInit == Init => WindowInv
<1> SUFFICES ASSUME Init PROVE WindowInv
  OBVIOUS
<1> DEFINE f == [i \in 0 .. 0 |-> 0]
<1>1. /\ inbox = <<>> /\ Len(inbox) = 0 /\ inbox \in Seq(Seq(Units)) /\ window = Window
      /\ sent = 0 /\ message = 0 /\ Window \in Nat
  BY EmptySeq, TransportAssumption DEF Init
<1>2. f \in [0 .. Len(inbox) -> Int] /\ Unread(f)
  BY <1>1 DEF Unread
<1> QED
  BY <1>1, <1>2 DEF WindowInv

LEMMA WindowNext == WindowInv /\ [Next]_vars => WindowInv'
<1> SUFFICES ASSUME WindowInv, [Next]_vars PROVE WindowInv'
  OBVIOUS
<1>0. sent \in Nat /\ message \in Nat
  BY DEF WindowInv
<1> DEFINE Still == UNCHANGED <<kind, sent, message, inbox, window, cramped>>
<1>1. ASSUME Still PROVE WindowInv'
  BY <1>1 DEF WindowInv, Unread, Flowing
<1>2. ASSUME NEW n \in 1 .. MaxOffer,
             \/ H2Write(n) \/ GrpcWrite(n) \/ WsWrite(n) \/ EarlyWrite(n) \/ ObfsFirst(n) \/ ObfsWrite(n)
      PROVE  WindowInv'
  <2>1. Still
    BY <1>2 DEF H2Write, GrpcWrite, WsWrite, EarlyWrite, ObfsFirst, ObfsWrite, peerVars, readVars
  <2> QED
    BY <1>1, <2>1
<1>3. CASE EarlyDone \/ EarlyFails \/ PeerReads \/ PeerCloses \/ ReadEarly \/ ReadEnd \/ ObfsSpins
  <2>1. Still
    BY <1>3 DEF EarlyDone, EarlyFails, PeerReads, PeerCloses, ReadEarly, ReadEnd, ObfsSpins, peerVars,
                readVars
  <2> QED
    BY <1>1, <2>1
<1>4. ASSUME NEW n \in 1 .. MaxFrame, PeerSends(n) PROVE WindowInv'
  <2>1. n \in Nat /\ Datas(sent, n) \in Seq(Units)
    BY <1>0, DatasProperties
  <2>2. /\ Receive(Datas(sent, n)) /\ sent' = sent + n /\ UNCHANGED <<kind, cramped, message>>
    BY <1>4 DEF PeerSends, readVars
  <2>3. sent' \in Nat /\ message' \in Nat
    BY <1>0, <2>1, <2>2
  <2> QED
    BY <2>1, <2>2, <2>3, Sent
<1>5. ASSUME NEW t \in 0 .. MaxFrame, NEW n \in 0 .. MaxFrame, NEW k \in 0 .. MaxFrame, PeerSendsGrpc(t, n, k)
      PROVE  WindowInv'
  <2>1. t \in Nat /\ n \in Nat /\ k \in Nat
    BY <1>0
  <2>3. PICK fr : fr = Frame(sent, t, n, k) /\ fr \in Seq(Units)
    <3>1. IsFrame(Frame(sent, t, n, k), sent, t, n, k)
      BY <1>0, <2>1, FrameIsFrame
    <3> QED
      BY <3>1 DEF IsFrame
  <2>4. /\ Receive(fr) /\ sent' = sent + t + k /\ t <= message /\ k <= n
        /\ message' = (IF n = 0 THEN message - t ELSE n - k) /\ UNCHANGED <<kind, cramped>>
    BY <1>5, <2>3 DEF PeerSendsGrpc, readVars
  <2>5. sent' \in Nat /\ message' \in Nat
    BY <1>0, <2>1, <2>4
  <2> HIDE DEF Units
  <2> QED
    BY <2>3, <2>4, <2>5, Sent
<1>6. ASSUME NEW n \in 0 .. MaxFrame, PeerResponds(n) PROVE WindowInv'
  <2>1. kind = "obfs" /\ message' = 1 /\ sent' = n /\ n \in Nat /\ UNCHANGED <<kind, window>>
    BY <1>6 DEF PeerResponds
  <2> QED
    BY <1>0, <2>1 DEF WindowInv, Flowing
<1>7. CASE PeerPings
  <2>1. kind \in {"ws", "ws0"} /\ UNCHANGED <<kind, window, sent, message>>
    BY <1>7 DEF PeerPings
  <2> QED
    BY <1>0, <2>1 DEF WindowInv, Flowing
<1>8. ASSUME NEW room, ReadBuffered(room) PROVE WindowInv'
  <2>1. Still
    BY <1>8 DEF ReadBuffered, peerVars
  <2> QED
    BY <1>1, <2>1
<1>9. ASSUME NEW room \in 1 .. MaxRoom, ReadFrame(room) PROVE WindowInv'
  <2> DEFINE data == Head(inbox)
             n == LeastOf(room, Len(data))
  <2>1. /\ kind \notin {"grpc", "obfs"} /\ inbox # <<>> /\ inbox' = Tail(inbox)
        /\ window' = (IF Flowing THEN window + n ELSE window)
        /\ cramped' = (cramped \/ room < Len(data)) /\ UNCHANGED <<kind, sent, message>>
    BY <1>9 DEF ReadFrame, peerVars
  <2>2. ASSUME Flowing
        PROVE  /\ window' \in Int
               /\ ~(kind = "h2" /\ cramped') => ~(kind = "h2" /\ cramped) /\ window' = window + Len(data)
    <3>1. window \in Int /\ inbox \in Seq(Seq(Units)) /\ kind = "h2" /\ room \in Nat
      BY <2>1, <2>2 DEF WindowInv, Flowing
    <3>2. Len(data) \in Nat
      <4> HIDE DEF Units
      <4>1. data \in Seq(Units)
        BY <2>1, <3>1, HeadTailProperties
      <4> QED
        BY <4>1, LenProperties
    <3> HIDE DEF data
    <3>3. n \in Nat /\ (~(room < Len(data)) => n = Len(data))
      BY <3>1, <3>2 DEF LeastOf
    <3>4. ASSUME ~cramped' PROVE ~cramped /\ ~(room < Len(data))
      BY <2>1, <3>4
    <3> HIDE DEF n
    <3> QED
      BY <2>1, <2>2, <3>1, <3>2, <3>3, <3>4
  <2> HIDE DEF n
  <2>3. ~Flowing => window' = window
    BY <2>1
  <2> QED
    BY <2>1, <2>2, <2>3, Taken
<1>10. ASSUME NEW room \in 1 .. MaxRoom, GrpcRead(room) PROVE WindowInv'
  <2>1. /\ kind = "grpc" /\ inbox # <<>> /\ inbox' = Tail(inbox)
        /\ window' = window + Len(Head(inbox)) /\ UNCHANGED <<kind, sent, message>>
    BY <1>10 DEF GrpcRead, peerVars
  <2>2. Flowing /\ window \in Int /\ inbox \in Seq(Seq(Units))
    BY <2>1 DEF WindowInv, Flowing
  <2>3. Len(Head(inbox)) \in Nat
    <3> HIDE DEF Units
    <3>1. Head(inbox) \in Seq(Units)
      BY <2>1, <2>2, HeadTailProperties
    <3> QED
      BY <3>1, LenProperties
  <2>4. window' \in Int
    BY <2>1, <2>2, <2>3
  <2> QED
    BY <2>1, <2>2, <2>4, Taken
<1>11. CASE ReadPing
  <2>1. kind \in {"ws", "ws0"} /\ UNCHANGED <<kind, window, sent, message>>
    BY <1>11 DEF ReadPing, peerVars
  <2> QED
    BY <1>0, <2>1 DEF WindowInv, Flowing
<1>12. ASSUME NEW k, ObfsStrip(k) \/ ObfsRead(k) PROVE WindowInv'
  <2>1. kind = "obfs" /\ UNCHANGED <<kind, window, sent, message>>
    BY <1>12 DEF ObfsStrip, ObfsRead, peerVars
  <2> QED
    BY <1>0, <2>1 DEF WindowInv, Flowing
<1>13. CASE UNCHANGED vars
  <2>1. Still
    BY <1>13 DEF vars, peerVars, readVars
  <2> QED
    BY <1>1, <2>1
<1> QED
  BY <1>2, <1>3, <1>4, <1>5, <1>6, <1>7, <1>8, <1>9, <1>10, <1>11, <1>12, <1>13 DEF Next, Read

(* When all that a peer has sent has been read it may send a whole window  *)
(* again: a frame taken is given back, by gRPC all of it and by HTTP/2     *)
(* what fits, so that only an HTTP/2 stream that once had to keep some of  *)
(* a frame back loses window.                                              *)
THEOREM TransportWindow == Spec => []WindowReturned
<1>1. ASSUME WindowInv PROVE WindowReturned
  <2> SUFFICES ASSUME inbox = <<>>, ~(kind = "h2" /\ cramped) PROVE window = Window
    BY DEF WindowReturned
  <2>1. CASE ~Flowing
    BY <1>1, <2>1 DEF WindowInv
  <2>2. CASE Flowing
    <3>1. PICK f \in [0 .. Len(inbox) -> Int] : Unread(f)
      BY <1>1, <2>2 DEF WindowInv
    <3>2. Len(inbox) = 0 /\ Window \in Nat /\ window \in Int
      BY <1>1, <2>2, EmptySeq, TransportAssumption DEF WindowInv
    <3>3. f[0] = 0 /\ f[0] = Window - window
      BY <3>1, <3>2 DEF Unread
    <3> QED
      BY <3>2, <3>3
  <2> QED
    BY <2>1, <2>2
<1> QED
  BY <1>1, WindowInit, WindowNext, PTL DEF Spec

-----------------------------------------------------------------------------
(* Frames whose bytes follow each other: f[i] is the last byte of the      *)
(* first i frames, of which a ping has none.                               *)
Carries(fr, x, y) == (fr = Ping /\ y = x) \/ (y > x /\ fr = Datas(x, y - x))

Joined(f, box, x, y) ==
  /\ f[0] = x /\ f[Len(box)] = y
  /\ \A i \in 1 .. Len(box) : Carries(box[i], f[i - 1], f[i])

LEMMA JoinAppend ==
  ASSUME NEW S, NEW box \in Seq(S), NEW fr \in S, NEW x, NEW y \in Nat, NEW z \in Nat, y <= z,
         Carries(fr, y, z), NEW f \in [0 .. Len(box) -> 0 .. y], Joined(f, box, x, y)
  PROVE  \E g \in [0 .. Len(Append(box, fr)) -> 0 .. z] : Joined(g, Append(box, fr), x, z)
<1> DEFINE n == Len(box)
           new == Append(box, fr)
           g == [i \in 0 .. n + 1 |-> IF i <= n THEN f[i] ELSE z]
<1>1. /\ n \in Nat /\ Len(new) = n + 1
      /\ \A i \in 1 .. n : new[i] = box[i]
      /\ new[n + 1] = fr
  BY AppendProperties
<1>2. f[0] = x /\ f[n] = y /\ \A i \in 1 .. n : Carries(box[i], f[i - 1], f[i])
  BY DEF Joined
<1>3. \A i \in 0 .. n : f[i] \in 0 .. z
  <2>1. \A i \in 0 .. n : f[i] \in 0 .. y
    OBVIOUS
  <2> QED
    BY <2>1
<1> HIDE DEF n, new
<1>4. g \in [0 .. n + 1 -> 0 .. z]
  <2>1. ASSUME NEW i \in 0 .. n + 1 PROVE (IF i <= n THEN f[i] ELSE z) \in 0 .. z
    <3>1. CASE i <= n
      <4>1. i \in 0 .. n
        BY <1>1, <3>1
      <4> QED
        BY <1>3, <3>1, <4>1
    <3>2. CASE ~(i <= n)
      BY <3>2
    <3> QED
      BY <3>1, <3>2
  <2> QED
    BY <2>1
<1>5. g[0] = x /\ g[n + 1] = z
  BY <1>1, <1>2
<1>6. ASSUME NEW i \in 1 .. n + 1
      PROVE  Carries(new[i], g[i - 1], g[i])
  <2>1. i <= n \/ i = n + 1
    BY <1>1
  <2>2. CASE i <= n
    <3>1. i \in 1 .. n /\ i - 1 \in 0 .. n /\ i \in 0 .. n + 1 /\ i - 1 \in 0 .. n + 1 /\ i - 1 <= n
      BY <1>1, <2>2
    <3>2. g[i] = f[i] /\ g[i - 1] = f[i - 1]
      BY <2>2, <3>1
    <3> QED
      BY <1>1, <1>2, <3>1, <3>2
  <2>3. CASE i = n + 1
    <3>1. i - 1 = n /\ n \in 0 .. n + 1 /\ n <= n
      BY <1>1, <2>3
    <3>2. g[i - 1] = y
      BY <1>2, <3>1
    <3> QED
      BY <1>1, <1>5, <2>3, <3>2
  <2> QED
    BY <2>1, <2>2, <2>3
<1> HIDE DEF g
<1>7. Joined(g, new, x, z)
  BY <1>1, <1>5, <1>6 DEF Joined
<1>8. g \in [0 .. Len(new) -> 0 .. z]
  BY <1>1, <1>4
<1> QED
  BY <1>7, <1>8 DEF new

LEMMA JoinTail ==
  ASSUME NEW S, NEW box \in Seq(S), box # <<>>, NEW x \in Nat, NEW y \in Nat,
         NEW f \in [0 .. Len(box) -> 0 .. y], Joined(f, box, x, y)
  PROVE  /\ f[1] \in Nat /\ Carries(Head(box), x, f[1])
         /\ \E g \in [0 .. Len(Tail(box)) -> 0 .. y] : Joined(g, Tail(box), f[1], y)
<1> DEFINE n == Len(box)
           new == Tail(box)
           g == [i \in 0 .. n - 1 |-> f[i + 1]]
<1>1. /\ n \in Nat /\ n > 0 /\ Len(new) = n - 1 /\ Head(box) = box[1]
      /\ \A i \in 1 .. n - 1 : new[i] = box[i + 1]
  BY HeadTailProperties, EmptySeq, LenProperties
<1>2. f[0] = x /\ f[n] = y /\ \A i \in 1 .. n : Carries(box[i], f[i - 1], f[i])
  BY DEF Joined
<1>3. \A i \in 0 .. n : f[i] \in 0 .. y
  OBVIOUS
<1> HIDE DEF n, new
<1>9. f[1] \in Nat /\ Carries(Head(box), x, f[1])
  <2>1. 1 \in 1 .. n /\ 1 - 1 = 0 /\ 1 \in 0 .. n
    BY <1>1
  <2>2. f[1] \in 0 .. y
    BY <1>3, <2>1
  <2> QED
    BY <1>1, <1>2, <2>1, <2>2
<1>4. g \in [0 .. n - 1 -> 0 .. y]
  <2>1. \A i \in 0 .. n - 1 : i + 1 \in 0 .. n
    BY <1>1
  <2> QED
    BY <1>3, <2>1
<1>5. g[0] = f[1] /\ g[n - 1] = y
  <2>1. 0 \in 0 .. n - 1 /\ n - 1 \in 0 .. n - 1 /\ 0 + 1 = 1 /\ (n - 1) + 1 = n
    BY <1>1
  <2> QED
    BY <1>2, <2>1
<1>6. ASSUME NEW i \in 1 .. n - 1
      PROVE  Carries(new[i], g[i - 1], g[i])
  <2>1. /\ i \in 0 .. n - 1 /\ i - 1 \in 0 .. n - 1 /\ i + 1 \in 1 .. n /\ (i + 1) - 1 = i
        /\ (i - 1) + 1 = i
    BY <1>1
  <2>2. g[i] = f[i + 1] /\ g[i - 1] = f[i]
    BY <2>1
  <2>3. Carries(box[i + 1], f[(i + 1) - 1], f[i + 1])
    BY <1>2, <2>1
  <2> QED
    BY <1>1, <2>1, <2>2, <2>3
<1> HIDE DEF g
<1>7. Joined(g, new, f[1], y)
  BY <1>1, <1>5, <1>6 DEF Joined
<1>8. g \in [0 .. Len(new) -> 0 .. y]
  BY <1>1, <1>4
<1> QED
  BY <1>7, <1>8, <1>9 DEF new

(* Follow, with its frames and its ends as parameters. *)
LEMMA FollowJoined ==
  /\ \A f : Follow(f) <=> Joined(f, inbox, Len(got) + Len(buffer), sent)
  /\ \A f : Follow(f)' <=> Joined(f, inbox', Len(got') + Len(buffer'), sent')
BY DEF Follow, Joined, Carries

(* Bytes of which some are returned and the rest is buffered. *)
LEMMA Returned ==
  ASSUME NEW a \in Nat, NEW l \in Nat, NEW n \in 0 .. l,
         got = Datas(0, a), got' = got \o SubSeq(Datas(a, l), 1, n),
         buffer' = SubSeq(Datas(a, l), n + 1, l)
  PROVE  /\ got' = Datas(0, a + n) /\ Len(got') = a + n /\ Len(got') \in Nat
         /\ buffer' = Datas(a + n, l - n) /\ Len(buffer') = l - n /\ Len(buffer') \in Nat
         /\ Len(got') + Len(buffer') = a + l
<1>1. n \in Nat /\ a + n \in Nat /\ l - n \in Nat /\ 0 + a = a /\ (a + n) + (l - n) = a + l
  OBVIOUS
<1>2. SubSeq(Datas(a, l), 1, n) = Datas(a, n) /\ buffer' = Datas(a + n, l - n)
  BY DatasSplit
<1>3. Datas(0, a) \o Datas(0 + a, n) = Datas(0, a + n)
  BY <1>1, DatasConcat, ZenonT(40)
<1>4. got' = Datas(0, a + n)
  BY <1>1, <1>2, <1>3
<1>5. Len(Datas(0, a + n)) = a + n /\ Len(Datas(a + n, l - n)) = l - n
  BY <1>1, DatasProperties
<1> QED
  BY <1>1, <1>2, <1>4, <1>5

(* What the readers of whole frames have to show of a step. *)
LEMMA FramesStep ==
  ASSUME sent' \in Nat, inbox' \in Seq(Seq(Units)), Len(got') \in Nat, Len(buffer') \in Nat,
         got' = Datas(0, Len(got')), buffer' = Datas(Len(got'), Len(buffer')),
         \E g \in [0 .. Len(inbox') -> 0 .. sent'] :
           Joined(g, inbox', Len(got') + Len(buffer'), sent'),
         reader' # "eof"
  PROVE  FramesInv'
<1>1. \E g \in [0 .. Len(inbox') -> 0 .. sent'] : Follow(g)'
  BY FollowJoined
<1> QED
  BY <1>1 DEF FramesInv

LEMMA FrameSent ==
  ASSUME FramesInv, Plain, NEW fr \in Seq(Units), inbox' = Append(inbox, fr), sent' \in Nat,
         sent <= sent', Carries(fr, sent, sent'), PeerMaySend,
         UNCHANGED <<got, buffer, reader>>
  PROVE  FramesInv'
<1> HIDE DEF Units
<1>1. /\ sent \in Nat /\ inbox \in Seq(Seq(Units)) /\ Len(got) \in Nat /\ Len(buffer) \in Nat
      /\ got = Datas(0, Len(got)) /\ buffer = Datas(Len(got), Len(buffer)) /\ reader # "eof"
  BY DEF FramesInv, PeerMaySend
<1>2. PICK f \in [0 .. Len(inbox) -> 0 .. sent] : Joined(f, inbox, Len(got) + Len(buffer), sent)
  BY FollowJoined DEF FramesInv
<1>3. PICK box, x, y, z : box = inbox /\ x = Len(got) + Len(buffer) /\ y = sent /\ z = sent'
  OBVIOUS
<1>4. box \in Seq(Seq(Units)) /\ y \in Nat /\ z \in Nat /\ y <= z /\ Carries(fr, y, z)
      /\ f \in [0 .. Len(box) -> 0 .. y] /\ Joined(f, box, x, y)
  BY <1>1, <1>2, <1>3
<1>5. \E g \in [0 .. Len(Append(box, fr)) -> 0 .. z] : Joined(g, Append(box, fr), x, z)
  BY <1>4, JoinAppend
<1>6. \E g \in [0 .. Len(inbox') -> 0 .. sent'] :
        Joined(g, inbox', Len(got') + Len(buffer'), sent')
  BY <1>3, <1>5
<1>7. inbox' \in Seq(Seq(Units))
  BY <1>1, AppendProperties
<1> QED
  BY <1>1, <1>6, <1>7, FramesStep

LEMMA FramesInit == Init => FramesInv
<1> SUFFICES ASSUME Init PROVE FramesInv
  OBVIOUS
<1> DEFINE f == [i \in 0 .. 0 |-> 0]
<1>1. /\ inbox = <<>> /\ Len(inbox) = 0 /\ inbox \in Seq(Seq(Units)) /\ sent = 0
      /\ got = <<>> /\ buffer = <<>> /\ Len(got) = 0 /\ Len(buffer) = 0 /\ reader = "open"
  BY EmptySeq DEF Init
<1>2. f \in [0 .. Len(inbox) -> 0 .. sent] /\ Follow(f)
  BY <1>1 DEF Follow
<1>3. got = Datas(0, Len(got)) /\ buffer = Datas(Len(got), Len(buffer))
  BY <1>1, NoDatas
<1> QED
  BY <1>1, <1>2, <1>3 DEF FramesInv

(* A stream's transport never changes. *)
LEMMA KindStays == ASSUME [Next]_vars PROVE kind' = kind
<1>1. ASSUME NEW n, H2Write(n) \/ GrpcWrite(n) \/ WsWrite(n) \/ EarlyWrite(n) \/ ObfsFirst(n)
                    \/ ObfsWrite(n) \/ PeerSends(n) \/ PeerResponds(n) \/ ReadBuffered(n)
                    \/ ReadFrame(n) \/ GrpcRead(n) \/ ObfsStrip(n) \/ ObfsRead(n)
      PROVE  kind' = kind
  BY <1>1 DEF H2Write, GrpcWrite, WsWrite, EarlyWrite, ObfsFirst, ObfsWrite, PeerSends, PeerResponds,
              ReadBuffered, ReadFrame, GrpcRead, ObfsStrip, ObfsRead
<1>2. ASSUME NEW t, NEW n, NEW k, PeerSendsGrpc(t, n, k) PROVE kind' = kind
  BY <1>2 DEF PeerSendsGrpc
<1>3. CASE EarlyDone \/ EarlyFails \/ PeerReads \/ PeerPings \/ PeerCloses \/ ReadEarly \/ ReadPing
           \/ ReadEnd \/ ObfsSpins \/ UNCHANGED vars
  BY <1>3 DEF EarlyDone, EarlyFails, PeerReads, PeerPings, PeerCloses, ReadEarly, ReadPing, ReadEnd,
              ObfsSpins, vars
<1> QED
  BY <1>1, <1>2, <1>3 DEF Next, Read

LEMMA FramesNext == FramesInv /\ [Next]_vars => FramesInv'
<1> SUFFICES ASSUME FramesInv, [Next]_vars PROVE FramesInv'
  OBVIOUS
<1> DEFINE Still == UNCHANGED <<kind, sent, inbox, got, buffer, reader, peer_closed>>
<1>1. ASSUME Still PROVE FramesInv'
  BY <1>1 DEF FramesInv, Plain, Follow
<1>0. ASSUME ~Plain, kind' = kind PROVE FramesInv'
  BY <1>0 DEF FramesInv, Plain
<1>a. kind' = kind
  BY KindStays
<1>b. SUFFICES ASSUME Plain PROVE FramesInv'
  BY <1>0, <1>a
<1>c. /\ sent \in Nat /\ inbox \in Seq(Seq(Units)) /\ Len(got) \in Nat /\ Len(buffer) \in Nat
      /\ got = Datas(0, Len(got)) /\ buffer = Datas(Len(got), Len(buffer))
      /\ \E f \in [0 .. Len(inbox) -> 0 .. sent] : Follow(f)
      /\ reader = "eof" => inbox = <<>> /\ buffer = <<>> /\ peer_closed
  BY <1>b DEF FramesInv
<1>d. PICK f \in [0 .. Len(inbox) -> 0 .. sent] : Joined(f, inbox, Len(got) + Len(buffer), sent)
  BY <1>c, FollowJoined
<1>e. ASSUME inbox # <<>>
      PROVE  /\ f[1] \in Nat /\ Carries(Head(inbox), Len(got) + Len(buffer), f[1])
             /\ \E g \in [0 .. Len(Tail(inbox)) -> 0 .. sent] : Joined(g, Tail(inbox), f[1], sent)
             /\ Tail(inbox) \in Seq(Seq(Units))
  <2> HIDE DEF Units
  <2>1. PICK box, x, y : box = inbox /\ x = Len(got) + Len(buffer) /\ y = sent
    OBVIOUS
  <2>2. box \in Seq(Seq(Units)) /\ box # <<>> /\ x \in Nat /\ y \in Nat
        /\ f \in [0 .. Len(box) -> 0 .. y] /\ Joined(f, box, x, y)
    BY <1>c, <1>d, <1>e, <2>1
  <2>3. /\ f[1] \in Nat /\ Carries(Head(box), x, f[1])
        /\ \E g \in [0 .. Len(Tail(box)) -> 0 .. y] : Joined(g, Tail(box), f[1], y)
    BY <2>2, JoinTail
  <2>4. Tail(box) \in Seq(Seq(Units))
    BY <2>2, HeadTailProperties
  <2> QED
    BY <2>1, <2>3, <2>4
<1>2. ASSUME NEW n \in 1 .. MaxOffer,
             \/ H2Write(n) \/ GrpcWrite(n) \/ WsWrite(n) \/ EarlyWrite(n) \/ ObfsFirst(n) \/ ObfsWrite(n)
      PROVE  FramesInv'
  <2>1. Still
    BY <1>2 DEF H2Write, GrpcWrite, WsWrite, EarlyWrite, ObfsFirst, ObfsWrite, peerVars, readVars
  <2> QED
    BY <1>1, <2>1
<1>3. CASE EarlyDone \/ EarlyFails \/ PeerReads \/ ReadEarly
  <2>1. Still
    BY <1>3 DEF EarlyDone, EarlyFails, PeerReads, ReadEarly, peerVars, readVars
  <2> QED
    BY <1>1, <2>1
<1>4. CASE PeerCloses
  <2>1. UNCHANGED <<kind, sent, inbox, got, buffer, reader>> /\ peer_closed' = TRUE
    BY <1>4 DEF PeerCloses, readVars
  <2> QED
    BY <1>c, <2>1 DEF FramesInv, Plain, Follow
<1>5. ASSUME NEW n \in 1 .. MaxFrame, PeerSends(n) PROVE FramesInv'
  <2>1. /\ PeerMaySend /\ inbox' = Append(inbox, Datas(sent, n)) /\ sent' = sent + n
        /\ UNCHANGED <<got, buffer, reader>>
    BY <1>b, <1>5 DEF PeerSends, Receive, readVars, Plain
  <2>2. n \in Nat /\ sent' \in Nat /\ sent < sent' /\ sent <= sent' /\ sent' - sent = n
    BY <1>c, <2>1
  <2>3. Datas(sent, n) \in Seq(Units)
    BY <1>c, <2>2, DatasProperties
  <2>4. Carries(Datas(sent, n), sent, sent')
    BY <1>c, <2>2 DEF Carries
  <2> QED
    BY <1>b, <2>1, <2>2, <2>3, <2>4, FrameSent
<1>6. CASE PeerPings
  <2>1. PeerMaySend /\ inbox' = Append(inbox, Ping) /\ UNCHANGED <<sent, got, buffer, reader>>
    BY <1>6 DEF PeerPings, readVars, Ping
  <2>2. Ping \in Seq(Units)
    BY DEF Ping, Units
  <2>3. Carries(Ping, sent, sent') /\ sent <= sent' /\ sent' \in Nat
    BY <1>c, <2>1 DEF Carries
  <2> QED
    BY <1>b, <2>1, <2>2, <2>3, FrameSent
<1>7. ASSUME NEW room \in 1 .. MaxRoom, ReadBuffered(room) PROVE FramesInv'
  <2>1. PICK n, a, l : n = LeastOf(room, Len(buffer)) /\ a = Len(got) /\ l = Len(buffer)
    OBVIOUS
  <2>2. /\ got' = got \o SubSeq(buffer, 1, n) /\ buffer' = SubSeq(buffer, n + 1, l)
        /\ reader = "open" /\ UNCHANGED <<sent, inbox, reader>>
    BY <1>7, <2>1 DEF ReadBuffered, Reading, peerVars
  <2>3. a \in Nat /\ l \in Nat /\ n \in 0 .. l /\ got = Datas(0, a) /\ buffer = Datas(a, l)
    <3>1. room \in Nat /\ Len(buffer) \in Nat
      BY <1>c
    <3> QED
      BY <1>c, <2>1, <3>1 DEF LeastOf
  <2>4. got' = got \o SubSeq(Datas(a, l), 1, n) /\ buffer' = SubSeq(Datas(a, l), n + 1, l)
    BY <2>2, <2>3
  <2>5. /\ got' = Datas(0, a + n) /\ Len(got') = a + n /\ Len(got') \in Nat
        /\ buffer' = Datas(a + n, l - n) /\ Len(buffer') = l - n /\ Len(buffer') \in Nat
        /\ Len(got') + Len(buffer') = a + l
    BY <2>3, <2>4, Returned
  <2>6. got' = Datas(0, Len(got')) /\ buffer' = Datas(Len(got'), Len(buffer'))
    BY <2>5
  <2>7. \E g \in [0 .. Len(inbox') -> 0 .. sent'] :
          Joined(g, inbox', Len(got') + Len(buffer'), sent')
    BY <1>d, <2>1, <2>2, <2>5
  <2>8. sent' \in Nat /\ inbox' \in Seq(Seq(Units)) /\ reader' # "eof"
    BY <1>c, <2>2
  <2> QED
    BY <2>5, <2>6, <2>7, <2>8, FramesStep
<1>8. ASSUME NEW room \in 1 .. MaxRoom, ReadFrame(room) PROVE FramesInv'
  <2>1. PICK data, n, a, l : data = Head(inbox) /\ n = LeastOf(room, Len(data)) /\ a = Len(got) /\ l = Len(data)
    OBVIOUS
  <2>2. /\ buffer = <<>> /\ inbox # <<>> /\ data[1][1] # "ping" /\ inbox' = Tail(inbox)
        /\ got' = got \o SubSeq(data, 1, n) /\ buffer' = SubSeq(data, n + 1, l)
        /\ reader = "open" /\ UNCHANGED <<sent, reader>>
    BY <1>8, <2>1 DEF ReadFrame, Reading, peerVars
  <2>3. Len(got) + Len(buffer) = a /\ a \in Nat /\ got = Datas(0, a)
    BY <1>c, <2>1, <2>2, EmptySeq
  <2>4. Carries(data, a, f[1]) /\ f[1] \in Nat
    BY <1>e, <2>1, <2>2, <2>3
  <2>5. data # Ping
    BY <2>2 DEF Ping
  <2>6. f[1] > a /\ data = Datas(a, f[1] - a) /\ f[1] - a \in Nat
    <3>1. f[1] > a /\ data = Datas(a, f[1] - a)
      BY <2>4, <2>5 DEF Carries
    <3> QED
      BY <2>3, <2>4, <3>1
  <2>7. l = f[1] - a
    BY <2>1, <2>3, <2>6, DatasProperties
  <2>8. l \in Nat /\ n \in 0 .. l
    <3>1. room \in Nat /\ l \in Nat /\ Len(data) = l
      BY <2>1, <2>6, <2>7
    <3> QED
      BY <2>1, <3>1 DEF LeastOf
  <2>9. got' = got \o SubSeq(Datas(a, l), 1, n) /\ buffer' = SubSeq(Datas(a, l), n + 1, l)
    BY <2>2, <2>6, <2>7
  <2>10. /\ got' = Datas(0, a + n) /\ Len(got') = a + n /\ Len(got') \in Nat
         /\ buffer' = Datas(a + n, l - n) /\ Len(buffer') = l - n /\ Len(buffer') \in Nat
         /\ Len(got') + Len(buffer') = a + l
    BY <2>3, <2>8, <2>9, Returned
  <2>11. got' = Datas(0, Len(got')) /\ buffer' = Datas(Len(got'), Len(buffer'))
    BY <2>10
  <2>12. Len(got') + Len(buffer') = f[1]
    <3>1. a + (f[1] - a) = f[1]
      BY <2>3, <2>4
    <3> QED
      BY <2>7, <2>10, <3>1
  <2>13. \E g \in [0 .. Len(inbox') -> 0 .. sent'] :
           Joined(g, inbox', Len(got') + Len(buffer'), sent')
    BY <1>e, <2>2, <2>12
  <2>14. sent' \in Nat /\ inbox' \in Seq(Seq(Units)) /\ reader' # "eof"
    BY <1>c, <1>e, <2>2
  <2> QED
    BY <2>10, <2>11, <2>13, <2>14, FramesStep
<1>9. CASE ReadPing
  <2>1. /\ inbox # <<>> /\ Head(inbox)[1][1] = "ping" /\ inbox' = Tail(inbox) /\ reader' = "err"
        /\ UNCHANGED <<sent, got, buffer>>
    BY <1>9 DEF ReadPing, peerVars
  <2>2. PICK a : a = Len(got) + Len(buffer)
    OBVIOUS
  <2>3. a \in Nat /\ f[1] \in Nat /\ Carries(Head(inbox), a, f[1])
    BY <1>c, <1>e, <2>1, <2>2
  <2>4. ~(f[1] > a /\ Head(inbox) = Datas(a, f[1] - a))
    <3> SUFFICES ASSUME f[1] > a, Head(inbox) = Datas(a, f[1] - a) PROVE FALSE
      OBVIOUS
    <3>1. f[1] - a \in Nat /\ 1 \in 1 .. f[1] - a
      BY <2>3
    <3>2. Datas(a, f[1] - a)[1] = <<"data", a + 1>>
      BY <2>3, <3>1, DatasProperties
    <3> QED
      BY <2>1, <3>2
  <2>5. f[1] = a
    BY <2>3, <2>4 DEF Carries
  <2>6. \E g \in [0 .. Len(inbox') -> 0 .. sent'] :
          Joined(g, inbox', Len(got') + Len(buffer'), sent')
    BY <1>e, <2>1, <2>2, <2>5
  <2>7. sent' \in Nat /\ inbox' \in Seq(Seq(Units)) /\ reader' # "eof"
    BY <1>c, <1>e, <2>1
  <2>8. /\ Len(got') \in Nat /\ Len(buffer') \in Nat
        /\ got' = Datas(0, Len(got')) /\ buffer' = Datas(Len(got'), Len(buffer'))
    BY <1>c, <2>1
  <2> QED
    BY <2>6, <2>7, <2>8, FramesStep
<1>10. CASE ReadEnd
  <2>1. buffer = <<>> /\ inbox = <<>> /\ peer_closed /\ UNCHANGED <<kind, sent, inbox, got, buffer, peer_closed>>
    BY <1>10 DEF ReadEnd, peerVars
  <2> QED
    BY <1>c, <2>1 DEF FramesInv, Plain, Follow
<1>11. CASE ObfsSpins
  BY <1>b, <1>11 DEF ObfsSpins, Plain
<1>12. ASSUME NEW n, GrpcRead(n) \/ ObfsStrip(n) \/ ObfsRead(n) \/ PeerResponds(n) PROVE FramesInv'
  BY <1>b, <1>12 DEF GrpcRead, ObfsStrip, ObfsRead, PeerResponds, Plain
<1>13. ASSUME NEW t, NEW n, NEW k, PeerSendsGrpc(t, n, k) PROVE FramesInv'
  BY <1>b, <1>13 DEF PeerSendsGrpc, Plain
<1>14. CASE UNCHANGED vars
  <2>1. Still
    BY <1>14 DEF vars, peerVars, readVars
  <2> QED
    BY <1>1, <2>1
<1> QED
  BY <1>2, <1>3, <1>4, <1>5, <1>6, <1>7, <1>8, <1>9, <1>10, <1>11, <1>12, <1>13, <1>14 DEF Next, Read

-----------------------------------------------------------------------------
(* The loop of GrpcStream::poll_read over the units of a frame.            *)

(* What has 0 and, with n, n + 1 has every natural number.                 *)
LEMMA SetInduction ==
  ASSUME NEW T, 0 \in T, \A n \in Nat : n \in T => n + 1 \in T
  PROVE  Nat \subseteq T
<1> DEFINE Less    == {ss \in Nat \X Nat : ss[1] < ss[2]}
           Missing == {n \in Nat : n \notin T}
<1>1. IsWellFoundedOn(Less, Nat)
  BY NatLessThanWellFounded DEF OpToRel
<1>2. SUFFICES ASSUME Missing # {} PROVE FALSE
  OBVIOUS
<1>3. PICK x \in Missing : \A y \in Missing : ~(<<y, x>> \in Less)
  <2>1. Missing \subseteq Nat
    OBVIOUS
  <2> HIDE DEF Missing, Less
  <2> QED
    BY <1>1, <1>2, <2>1, WFMin
<1>4. x # 0 /\ x \in Nat /\ x - 1 \in Nat /\ x - 1 < x
  OBVIOUS
<1>5. x - 1 \in Missing
  BY <1>4
<1>6. <<x - 1, x>> \in Less
  BY <1>4
<1> QED
  BY <1>3, <1>5, <1>6

Fresh(put, len, room) == [put |-> put, rest |-> <<>>, len |-> len, room |-> room]

LoopStep(d, len, room, F, i) == IF i = 0 THEN Fresh(<<>>, len, room) ELSE Unit(F[i - 1], d[i])

IsLoop(F, d, len, room, N) == F = [i \in 0 .. N |-> LoopStep(d, len, room, F, i)]

(* The recursive function of Loop exists.                                  *)
LEMMA LoopExists ==
  ASSUME NEW d, NEW len, NEW room, NEW n \in Nat
  PROVE  \E F : F = [i \in 0 .. n |-> LoopStep(d, len, room, F, i)]
<1> DEFINE T == {m \in Nat : \E F : F = [i \in 0 .. m |-> LoopStep(d, len, room, F, i)]}
           start == Fresh(<<>>, len, room)
<1>1. 0 \in T
  <2>1. [i \in 0 .. 0 |-> start] = [i \in 0 .. 0 |-> LoopStep(d, len, room, [j \in 0 .. 0 |-> start], i)]
    BY DEF LoopStep
  <2> QED
    BY <2>1
<1>2. ASSUME NEW m \in Nat, m \in T PROVE m + 1 \in T
  <2>1. PICK F : F = [i \in 0 .. m |-> LoopStep(d, len, room, F, i)]
    BY <1>2
  <2> DEFINE G == [i \in 0 .. m + 1 |-> IF i <= m THEN F[i] ELSE LoopStep(d, len, room, F, i)]
  <2>2. ASSUME NEW i \in 0 .. m + 1 PROVE G[i] = LoopStep(d, len, room, G, i)
    <3>1. i = 0 \/ G[i - 1] = F[i - 1]
      OBVIOUS
    <3>2. G[i] = LoopStep(d, len, room, F, i)
      BY <2>1
    <3> QED
      BY <3>1, <3>2 DEF LoopStep
  <2>3. G = [i \in 0 .. m + 1 |-> LoopStep(d, len, room, G, i)]
    <3>1. G = [i \in 0 .. m + 1 |-> G[i]]
      OBVIOUS
    <3> HIDE DEF G
    <3> QED
      BY <2>2, <3>1
  <2> HIDE DEF G
  <2> QED
    BY <2>3
<1> HIDE DEF T
<1>3. n \in T
  BY <1>1, <1>2, SetInduction
<1> QED
  BY <1>3 DEF T

LEMMA LoopIsStep ==
  ASSUME NEW d, NEW len, NEW room, Len(d) \in Nat
  PROVE  \E F : IsLoop(F, d, len, room, Len(d)) /\ Loop(d, len, room) = F[Len(d)]
<1> DEFINE F == CHOOSE F : F = [i \in 0 .. Len(d) |->
        IF i = 0 THEN [put |-> <<>>, rest |-> <<>>, len |-> len, room |-> room]
        ELSE Unit(F[i - 1], d[i])]
<1>1. PICK G : G = [i \in 0 .. Len(d) |-> LoopStep(d, len, room, G, i)]
  BY LoopExists
<1>2. G = [i \in 0 .. Len(d) |->
        IF i = 0 THEN [put |-> <<>>, rest |-> <<>>, len |-> len, room |-> room]
        ELSE Unit(G[i - 1], d[i])]
  BY <1>1, Zenon DEF LoopStep, Fresh
<1>3. F = [i \in 0 .. Len(d) |->
        IF i = 0 THEN [put |-> <<>>, rest |-> <<>>, len |-> len, room |-> room]
        ELSE Unit(F[i - 1], d[i])]
  BY <1>2, Zenon
<1>4. Loop(d, len, room) = F[Len(d)]
  BY Zenon DEF Loop
<1> QED
  BY <1>3, <1>4, Zenon DEF LoopStep, Fresh, IsLoop

(* One more byte. *)
LEMMA DatasAppend ==
  ASSUME NEW m \in Nat, NEW n \in Nat
  PROVE  Append(Datas(m, n), <<"data", m + (n + 1)>>) = Datas(m, n + 1)
<1> DEFINE s == Datas(m, n)
           c == Datas(m, n + 1)
           u == <<"data", m + (n + 1)>>
<1>1. s \in Seq(Units) /\ Len(s) = n /\ \A i \in 1 .. n : s[i] = <<"data", m + i>>
  BY DatasProperties
<1>2. c \in Seq(Units) /\ Len(c) = n + 1 /\ \A i \in 1 .. n + 1 : c[i] = <<"data", m + i>>
  <2>1. n + 1 \in Nat
    OBVIOUS
  <2> QED
    BY <2>1, DatasProperties
<1>3. u \in Units
  BY DEF Units
<1> HIDE DEF s, c, Units
<1>4. /\ Append(s, u) \in Seq(Units) /\ Len(Append(s, u)) = n + 1
      /\ \A i \in 1 .. n : Append(s, u)[i] = s[i]
      /\ Append(s, u)[n + 1] = u
  BY <1>1, <1>3, AppendProperties
<1>5. ASSUME NEW i \in 1 .. n + 1 PROVE Append(s, u)[i] = c[i]
  <2>1. CASE i = n + 1
    BY <1>2, <1>4, <2>1
  <2>2. CASE i # n + 1
    <3>1. i \in 1 .. n
      BY <2>2
    <3> QED
      BY <1>1, <1>2, <1>4, <3>1
  <2> QED
    BY <2>1, <2>2
<1>6. Append(s, u) = c
  BY <1>2, <1>4, <1>5, SeqEqual
<1> QED
  BY <1>6 DEF s, c

LEMMA ConcatAppend ==
  \A x, y \in Seq(Units) : \A e \in Units : Append(x \o y, e) = x \o Append(y, e)
<1> HIDE DEF Units
<1> QED
  OBVIOUS

(* The loop after j bytes of a message that follow byte s, when it began   *)
(* with put, the length len and the room room.                             *)
After(put, s, len, room, j) ==
  [put |-> put \o Datas(s, LeastOf(j, room)),
   rest |-> Datas(s + LeastOf(j, room), j - LeastOf(j, room)),
   len |-> len - LeastOf(j, room), room |-> room - LeastOf(j, room)]

LEMMA AfterNone ==
  ASSUME NEW put \in Seq(Units), NEW s \in Nat, NEW len \in Nat, NEW room \in Nat
  PROVE  After(put, s, len, room, 0) = Fresh(put, len, room)
<1> HIDE DEF Units
<1>1. LeastOf(0, room) = 0 /\ s + 0 = s /\ 0 - 0 = 0 /\ len - 0 = len /\ room - 0 = room
  BY DEF LeastOf
<1>2. put \o <<>> = put
  BY ConcatEmptySeq
<1> QED
  BY <1>1, <1>2, NoDatas DEF After, Fresh

LEMMA UnitRun ==
  ASSUME NEW put \in Seq(Units), NEW s \in Nat, NEW len \in Nat, NEW room \in Nat, NEW j \in Nat,
         j < len
  PROVE  Unit(After(put, s, len, room, j), <<"data", s + (j + 1)>>) = After(put, s, len, room, j + 1)
<1> DEFINE u == <<"data", s + (j + 1)>>
<1>0. u \in Units /\ put \in Seq(Units)
  BY DEF Units
<1> HIDE DEF Units, u
<1>1. CASE j < room
  <2>1. LeastOf(j, room) = j /\ LeastOf(j + 1, room) = j + 1 /\ j - j = 0 /\ (j + 1) - (j + 1) = 0
    BY <1>1 DEF LeastOf
  <2>2. Datas(s, j) \in Seq(Units) /\ Append(Datas(s, j), u) = Datas(s, j + 1)
    BY DatasProperties, DatasAppend DEF u
  <2>3. PICK p, q : p = put \o Datas(s, j) /\ q = put \o Datas(s, j + 1)
    OBVIOUS
  <2>4. Append(p, u) = q
    <3>1. PICK D, D1 : D = Datas(s, j) /\ D1 = Datas(s, j + 1)
      OBVIOUS
    <3>2. D \in Seq(Units) /\ Append(D, u) = D1 /\ p = put \o D /\ q = put \o D1
      BY <2>2, <2>3, <3>1
    <3>3. Append(put \o D, u) = put \o Append(D, u)
      <4>1. PICK w : w = u
        OBVIOUS
      <4>2. put \in Seq(Units) /\ D \in Seq(Units) /\ w \in Units
        BY <1>0, <3>2, <4>1
      <4>3. Append(put \o D, w) = put \o Append(D, w)
        BY <4>2, ConcatAppend
      <4> QED
        BY <4>1, <4>3
    <3> QED
      BY <3>2, <3>3
  <2>5. After(put, s, len, room, j) = [put |-> p, rest |-> <<>>, len |-> len - j, room |-> room - j]
    BY <2>1, <2>3, NoDatas DEF After
  <2>6. After(put, s, len, room, j + 1)
          = [put |-> q, rest |-> <<>>, len |-> len - (j + 1), room |-> room - (j + 1)]
    BY <2>1, <2>3, NoDatas DEF After
  <2>7. /\ len - j > 0 /\ len - j # 0 /\ room - j # 0
        /\ (len - j) - 1 = len - (j + 1) /\ (room - j) - 1 = room - (j + 1)
    BY <1>1
  <2>8. Unit([put |-> p, rest |-> <<>>, len |-> len - j, room |-> room - j], u)
          = [put |-> Append(p, u), rest |-> <<>>, len |-> (len - j) - 1, room |-> (room - j) - 1]
    BY <2>7 DEF Unit
  <2> QED
    BY <2>4, <2>5, <2>6, <2>7, <2>8 DEF u
<1>2. CASE ~(j < room)
  <2>1. /\ LeastOf(j, room) = room /\ LeastOf(j + 1, room) = room /\ room - room = 0
        /\ j - room \in Nat /\ (j - room) + 1 = (j + 1) - room /\ s + room \in Nat
        /\ (s + room) + ((j - room) + 1) = s + (j + 1) /\ len - room > 0
    BY <1>2 DEF LeastOf
  <2>2. PICK e, l : e = j - room /\ l = len - room
    OBVIOUS
  <2>3. PICK p, r, r1 : p = put \o Datas(s, room) /\ r = Datas(s + room, e) /\ r1 = Datas(s + room, e + 1)
    OBVIOUS
  <2>4. Append(r, u) = r1
    <3>1. s + room \in Nat /\ e \in Nat /\ s + (j + 1) = (s + room) + (e + 1)
      BY <2>1, <2>2
    <3>2. u = <<"data", (s + room) + (e + 1)>>
      BY <3>1 DEF u
    <3>3. Append(Datas(s + room, e), <<"data", (s + room) + (e + 1)>>) = Datas(s + room, e + 1)
      BY <3>1, DatasAppend, Zenon
    <3> QED
      BY <2>3, <3>2, <3>3, Zenon
  <2>5. After(put, s, len, room, j) = [put |-> p, rest |-> r, len |-> l, room |-> 0]
    BY <2>1, <2>2, <2>3 DEF After
  <2>6. After(put, s, len, room, j + 1) = [put |-> p, rest |-> r1, len |-> l, room |-> 0]
    BY <2>1, <2>2, <2>3 DEF After
  <2>7. l > 0
    BY <2>1, <2>2
  <2>8. Unit([put |-> p, rest |-> r, len |-> l, room |-> 0], u)
          = [put |-> p, rest |-> Append(r, u), len |-> l, room |-> 0]
    BY <2>7 DEF Unit
  <2> QED
    BY <2>4, <2>5, <2>6, <2>8 DEF u
<1> QED
  BY <1>1, <1>2

(* The loop over bytes of one message. *)
IsRun(d, a, s, m) == \A j \in 1 .. m : d[a + j] = <<"data", s + j>>

LEMMA LoopRun ==
  ASSUME NEW d, NEW len0, NEW room0, NEW N \in Nat, NEW F,
         IsLoop(F, d, len0, room0, N),
         NEW put \in Seq(Units), NEW s \in Nat, NEW len \in Nat, NEW room \in Nat,
         NEW a \in Nat, NEW m \in Nat, a + m <= N, m <= len,
         IsRun(d, a, s, m),
         F[a] = After(put, s, len, room, 0)
  PROVE  F[a + m] = After(put, s, len, room, m)
<1>0. put \in Seq(Units)
  OBVIOUS
<1> HIDE DEF Units
<1> DEFINE T == {j \in Nat : j <= m => F[a + j] = After(put, s, len, room, j)}
<1>1. 0 \in T
  <2>1. a + 0 = a
    OBVIOUS
  <2> QED
    BY <2>1
<1>2. ASSUME NEW j \in Nat, j \in T PROVE j + 1 \in T
  <2>1. ASSUME j + 1 <= m PROVE F[a + (j + 1)] = After(put, s, len, room, j + 1)
    <3>1. /\ j <= m /\ j < len /\ a + (j + 1) \in 0 .. N /\ a + (j + 1) # 0 /\ (a + (j + 1)) - 1 = a + j
          /\ j + 1 \in 1 .. m
      BY <2>1
    <3>2. F[a + j] = After(put, s, len, room, j)
      BY <1>2, <3>1
    <3>3. F[a + (j + 1)] = LoopStep(d, len0, room0, F, a + (j + 1))
      BY <3>1 DEF IsLoop
    <3>4. F[a + (j + 1)] = Unit(F[a + j], d[a + (j + 1)])
      BY <3>1, <3>3 DEF LoopStep
    <3>5. d[a + (j + 1)] = <<"data", s + (j + 1)>>
      BY <3>1 DEF IsRun
    <3>6. Unit(After(put, s, len, room, j), <<"data", s + (j + 1)>>) = After(put, s, len, room, j + 1)
      <4>1. j < len
        BY <3>1
      <4> QED
        BY <1>0, <4>1, UnitRun
    <3> QED
      BY <3>2, <3>4, <3>5, <3>6
  <2>2. j + 1 \in Nat
    OBVIOUS
  <2> QED
    BY <2>1, <2>2, Zenon
<1> HIDE DEF T
<1>3. m \in T
  BY <1>1, <1>2, SetInduction
<1> QED
  BY <1>3 DEF T

(* Once something is buffered the loop ends with something buffered.       *)
LoopStates == [put : Seq(Units), rest : Seq(Units), len : Nat, room : Nat]

LEMMA UnitStays ==
  ASSUME NEW s \in LoopStates, NEW u \in Units
  PROVE  Unit(s, u) \in LoopStates /\ (s.rest # <<>> => Unit(s, u).rest # <<>>)
<1>1. u[2] \in Nat
  BY DEF Units
<1>0. u \in Units
  OBVIOUS
<1> HIDE DEF Units
<1>2. PICK p, r, l, m : s = [put |-> p, rest |-> r, len |-> l, room |-> m]
        /\ p \in Seq(Units) /\ r \in Seq(Units) /\ l \in Nat /\ m \in Nat
  BY DEF LoopStates
<1>3. Append(p, u) \in Seq(Units) /\ Append(r, u) \in Seq(Units) /\ Append(r, u) # <<>>
  <2>1. Len(Append(r, u)) = Len(r) + 1 /\ Len(r) \in Nat
    BY <1>0, <1>2, AppendProperties, LenProperties
  <2>2. Append(r, u) # <<>>
    <3>1. PICK e : e = Append(r, u)
      OBVIOUS
    <3>2. Len(e) # 0
      BY <2>1, <3>1
    <3>3. e # <<>>
      BY <3>2, EmptySeq
    <3> QED
      BY <3>1, <3>3
  <2>3. Append(p, u) \in Seq(Units) /\ Append(r, u) \in Seq(Units)
    BY <1>0, <1>2, AppendProperties
  <2> QED
    BY <2>2, <2>3
<1>7. ASSUME NEW p1 \in Seq(Units), NEW r1 \in Seq(Units), NEW l1 \in Nat, NEW m1 \in Nat
      PROVE  [put |-> p1, rest |-> r1, len |-> l1, room |-> m1] \in LoopStates
  BY DEF LoopStates
<1>8. s.rest = r
  BY <1>2
<1>9. PICK p1, r1 : p1 = Append(p, u) /\ r1 = Append(r, u)
  OBVIOUS
<1>4. CASE r # <<>> \/ (l > 0 /\ m = 0)
  <2>1. Unit(s, u) = [put |-> p, rest |-> r1, len |-> l, room |-> m]
    BY <1>2, <1>4, <1>9 DEF Unit
  <2>2. Unit(s, u) \in LoopStates
    BY <1>2, <1>3, <1>7, <1>9, <2>1
  <2>3. Unit(s, u).rest # <<>>
    BY <1>3, <1>9, <2>1
  <2> QED
    BY <2>2, <2>3
<1>5. CASE r = <<>> /\ ~(l > 0 /\ m = 0) /\ l = 0
  <2>1. Unit(s, u) = [put |-> p, rest |-> r, len |-> u[2], room |-> m]
    BY <1>2, <1>5 DEF Unit
  <2>2. Unit(s, u) \in LoopStates
    BY <1>1, <1>2, <1>7, <2>1
  <2> QED
    BY <1>5, <1>8, <2>2
<1>6. CASE r = <<>> /\ ~(l > 0 /\ m = 0) /\ l # 0
  <2>1. Unit(s, u) = [put |-> p1, rest |-> r, len |-> l - 1, room |-> m - 1]
    BY <1>2, <1>6, <1>9 DEF Unit
  <2>2. l - 1 \in Nat /\ m - 1 \in Nat
    BY <1>2, <1>6
  <2>3. Unit(s, u) \in LoopStates
    BY <1>2, <1>3, <1>7, <1>9, <2>1, <2>2
  <2> QED
    BY <1>6, <1>8, <2>3
<1> QED
  BY <1>4, <1>5, <1>6

LEMMA RestStays ==
  ASSUME NEW d \in Seq(Units), NEW len \in Nat, NEW room \in Nat, NEW F,
         IsLoop(F, d, len, room, Len(d)),
         NEW a \in 0 .. Len(d), F[a].rest # <<>>, F[a] \in LoopStates
  PROVE  F[Len(d)].rest # <<>>
<1>0. PICK N : N = Len(d) /\ N \in Nat /\ \A i \in 1 .. N : d[i] \in Units
  BY ElementOfSeq, LenProperties
<1> HIDE DEF Units, LoopStates
<1> DEFINE T == {j \in Nat : a + j <= N => F[a + j] \in LoopStates /\ F[a + j].rest # <<>>}
<1>1. 0 \in T
  <2>1. a + 0 = a
    OBVIOUS
  <2> QED
    BY <2>1
<1>2. ASSUME NEW j \in Nat, j \in T PROVE j + 1 \in T
  <2>1. ASSUME a + (j + 1) <= N
        PROVE  F[a + (j + 1)] \in LoopStates /\ F[a + (j + 1)].rest # <<>>
    <3>1. /\ a + j <= N /\ a + (j + 1) \in 0 .. N /\ a + (j + 1) \in 1 .. N
          /\ a + (j + 1) # 0 /\ (a + (j + 1)) - 1 = a + j
      BY <1>0, <2>1
    <3>2. F[a + j] \in LoopStates /\ F[a + j].rest # <<>>
      BY <1>2, <3>1
    <3>3. F[a + (j + 1)] = LoopStep(d, len, room, F, a + (j + 1))
      BY <1>0, <3>1 DEF IsLoop
    <3>4. F[a + (j + 1)] = Unit(F[a + j], d[a + (j + 1)])
      BY <3>1, <3>3 DEF LoopStep
    <3>5. d[a + (j + 1)] \in Units
      BY <1>0, <3>1
    <3>6. PICK x, u : x = F[a + j] /\ u = d[a + (j + 1)]
      OBVIOUS
    <3>7. Unit(x, u) \in LoopStates /\ (x.rest # <<>> => Unit(x, u).rest # <<>>)
      BY <3>2, <3>5, <3>6, UnitStays
    <3> QED
      BY <3>2, <3>4, <3>6, <3>7
  <2>2. j + 1 \in Nat
    OBVIOUS
  <2> QED
    BY <2>1, <2>2, Zenon
<1> HIDE DEF T
<1>3. N - a \in Nat /\ a + (N - a) = N
  BY <1>0
<1>4. N - a \in T
  BY <1>1, <1>2, <1>3, SetInduction
<1> QED
  BY <1>0, <1>3, <1>4 DEF T

(* What the loop makes of a frame of gRPC: bytes are put, up to some byte, *)
(* and the others buffered; the length is of what is still to come.  Only  *)
(* of a frame with the end of a message and another's head is it not so    *)
(* when something had to be buffered.  A byte is put unless the frame has  *)
(* none.                                                                   *)
Returns(end, x, t, n, k, len) ==
  \E q \in 0 .. t + k :
    /\ end.put = Datas(x, q) /\ end.rest = Datas(x + q, (t + k) - q)
    /\ end.len = (IF n = 0 THEN len - t ELSE n - k) + ((t + k) - q)
    /\ end.len <= len \/ end.len <= n
    /\ t + k > 0 => q > 0

LEMMA GrpcLoop ==
  ASSUME NEW x \in Nat, NEW t \in Nat, NEW n \in Nat, NEW k \in Nat, NEW len \in Nat, NEW room \in Nat,
         room > 0, t <= len, k <= n, n > 0 => t = len, NEW end, end = Loop(Frame(x, t, n, k), len, room),
         t > 0 /\ n > 0 => end.rest = <<>>
  PROVE  Returns(end, x, t, n, k, len)
<1>1. PICK d : d = Frame(x, t, n, k)
  OBVIOUS
<1>2. /\ d \in Seq(Units) /\ Len(d) = (IF n = 0 THEN t ELSE t + 1 + k)
      /\ \A i \in 1 .. t : d[i] = <<"data", x + i>>
      /\ n > 0 => d[t + 1] = <<"head", n>>
      /\ n > 0 => \A i \in 1 .. k : d[(t + 1) + i] = <<"data", (x + t) + i>>
  <2>1. IsFrame(d, x, t, n, k)
    BY <1>1, FrameIsFrame
  <2> QED
    BY <2>1 DEF IsFrame
<1>3. PICK N : N = Len(d) /\ N \in Nat
  BY <1>2
<1>4. PICK F : IsLoop(F, d, len, room, N) /\ end = F[N]
  BY <1>1, <1>3, LoopIsStep
<1> HIDE DEF Units
<1>5. PICK e : e = <<>> /\ e \in Seq(Units) /\ \A m \in Nat : e \o Datas(x, m) = Datas(x, m)
  <2>1. \A m \in Nat : Datas(x, m) \in Seq(Units)
    BY DatasProperties
  <2>2. <<>> \in Seq(Units) /\ \A m \in Nat : <<>> \o Datas(x, m) = Datas(x, m)
    BY <2>1, ConcatEmptySeq
  <2> QED
    BY <2>2
<1>a. e \in Seq(Units)
  BY <1>5
<1>6. F[0] = After(e, x, len, room, 0)
  <2>1. F[0] = Fresh(e, len, room)
    BY <1>3, <1>4, <1>5 DEF LoopStep, IsLoop
  <2>2. After(e, x, len, room, 0) = Fresh(e, len, room)
    <3>1. e \in Seq(Units) /\ x \in Nat /\ len \in Nat /\ room \in Nat
      BY <1>a
    <3> QED
      BY <3>1, AfterNone, SMTT(40)
  <2> QED
    BY <2>1, <2>2
<1>7. F[t] = After(e, x, len, room, t)
  <2>1. 0 + t <= N /\ 0 + t = t /\ 0 \in Nat
    BY <1>2, <1>3
  <2>2. IsRun(d, 0, x, t)
    <3>1. \A j \in 1 .. t : 0 + j = j
      OBVIOUS
    <3> QED
      BY <1>2, <3>1 DEF IsRun
  <2>3. F[0 + t] = After(e, x, len, room, t)
    BY <1>3, <1>4, <1>a, <1>6, <2>1, <2>2, LoopRun
  <2> QED
    BY <2>1, <2>3
<1>8. PICK q : q = LeastOf(t, room) /\ q \in 0 .. t /\ q <= room /\ (q = t \/ q = room)
  BY DEF LeastOf
<1>9. F[t] = [put |-> Datas(x, q), rest |-> Datas(x + q, t - q), len |-> len - q, room |-> room - q]
  BY <1>5, <1>7, <1>8 DEF After
<1>10. CASE n = 0
  <2>1. k = 0 /\ N = t /\ t + k = t
    BY <1>2, <1>3, <1>10
  <2>2. /\ len - q = (len - t) + ((t + k) - q) /\ len - q <= len /\ q \in 0 .. t + k
        /\ t + k > 0 => q > 0
    BY <1>8, <2>1
  <2>3. end = [put |-> Datas(x, q), rest |-> Datas(x + q, (t + k) - q), len |-> len - q, room |-> room - q]
    BY <1>4, <1>9, <2>1
  <2> QED
    BY <1>10, <2>2, <2>3 DEF Returns
<1>11. CASE n > 0
  <2>0. t = len /\ N = (t + 1) + k /\ t + 1 \in 0 .. N /\ t + 1 # 0 /\ (t + 1) - 1 = t /\ t \in 0 .. N
    <3>1. t = len /\ N = t + 1 + k
      BY <1>2, <1>3, <1>11
    <3> QED
      BY <3>1
  <2>1. q = t
    <3> SUFFICES ASSUME q # t PROVE FALSE
      OBVIOUS
    <3>1. t > 0 /\ t - q \in Nat /\ t - q > 0 /\ x + q \in Nat /\ q \in Nat /\ len - q \in Nat
          /\ room - q \in Nat
      BY <1>8, <2>0
    <3>2. Datas(x + q, t - q) \in Seq(Units) /\ Len(Datas(x + q, t - q)) = t - q /\ Datas(x, q) \in Seq(Units)
      BY <3>1, DatasProperties
    <3>3. F[t].rest # <<>>
      <4>1. Datas(x + q, t - q) # <<>>
        BY <3>1, <3>2, EmptySeq
      <4> QED
        BY <1>9, <4>1
    <3>4. F[t] \in LoopStates
      BY <1>9, <3>1, <3>2 DEF LoopStates
    <3>5. F[Len(d)].rest # <<>>
      <4>1. t \in 0 .. Len(d) /\ IsLoop(F, d, len, room, Len(d))
        BY <1>3, <1>4, <2>0
      <4> QED
        BY <1>2, <3>3, <3>4, <4>1, RestStays, Zenon
    <3> QED
      BY <1>3, <1>4, <1>11, <3>1, <3>5
  <2>2. PICK P, m : P = Datas(x, t) /\ P \in Seq(Units) /\ m = room - t /\ m \in Nat
    <3>1. room - t \in Nat
      BY <1>8, <2>1
    <3>2. Datas(x, t) \in Seq(Units)
      BY DatasProperties
    <3> QED
      BY <3>1, <3>2
  <2>3. F[t] = [put |-> P, rest |-> <<>>, len |-> 0, room |-> m]
    <3>1. t - t = 0 /\ len - t = 0
      BY <2>0
    <3> QED
      BY <1>9, <2>1, <2>2, <3>1, NoDatas
  <2>4. F[t + 1] = Fresh(P, n, m)
    <3>1. F[t + 1] = LoopStep(d, len, room, F, t + 1)
      BY <1>4, <2>0 DEF IsLoop
    <3>2. F[t + 1] = Unit(F[t], <<"head", n>>)
      BY <1>2, <1>11, <2>0, <3>1 DEF LoopStep
    <3>3. Unit([put |-> P, rest |-> <<>>, len |-> 0, room |-> m], <<"head", n>>)
            = [put |-> P, rest |-> <<>>, len |-> n, room |-> m]
      BY DEF Unit
    <3> QED
      BY <2>3, <3>2, <3>3 DEF Fresh
  <2>5. x + t \in Nat
    OBVIOUS
  <2>6. F[t + 1] = After(P, x + t, n, m, 0)
    <3>1. After(P, x + t, n, m, 0) = Fresh(P, n, m)
      BY <2>2, <2>5, AfterNone
    <3> QED
      BY <2>4, <3>1
  <2>7. F[(t + 1) + k] = After(P, x + t, n, m, k)
    <3>1. t + 1 \in Nat /\ (t + 1) + k <= N
      BY <2>0
    <3>2. IsRun(d, t + 1, x + t, k)
      BY <1>2, <1>11 DEF IsRun
    <3> QED
      BY <1>3, <1>4, <2>2, <2>5, <2>6, <3>1, <3>2, LoopRun
  <2>8. PICK z : z = LeastOf(k, m) /\ z \in 0 .. k /\ z \in Nat /\ (k > 0 /\ m > 0 => z > 0)
    BY <2>2 DEF LeastOf
  <2>9. end = [put |-> P \o Datas(x + t, z), rest |-> Datas((x + t) + z, k - z), len |-> n - z, room |-> m - z]
    BY <1>4, <2>0, <2>7, <2>8 DEF After
  <2>10. P \o Datas(x + t, z) = Datas(x, t + z)
    <3>1. Datas(x, t) \o Datas(x + t, z) = Datas(x, t + z)
      <4>1. z \in Nat
        BY <2>8
      <4> QED
        BY <4>1, DatasConcat, ZenonT(30)
    <3> QED
      BY <2>2, <3>1
  <2>11. /\ (x + t) + z = x + (t + z) /\ k - z = (t + k) - (t + z) /\ n - z = (n - k) + ((t + k) - (t + z))
         /\ n - z <= n /\ t + z \in 0 .. t + k /\ (t + k > 0 => t + z > 0)
    <3>1. /\ x \in Nat /\ t \in Nat /\ k \in Nat /\ n \in Nat /\ z \in Nat /\ z <= k
          /\ (k > 0 /\ t = 0 => z > 0)
      BY <2>2, <2>8
    <3> QED
      BY <3>1
  <2>12. end = [put |-> Datas(x, t + z), rest |-> Datas(x + (t + z), (t + k) - (t + z)), len |-> n - z, room |-> m - z]
    BY <2>9, <2>10, <2>11
  <2>13. /\ end.put = Datas(x, t + z) /\ end.rest = Datas(x + (t + z), (t + k) - (t + z))
         /\ end.len = n - z
    BY <2>12
  <2>14. n # 0
    BY <1>11
  <2> QED
    BY <2>11, <2>13, <2>14 DEF Returns
<1> QED
  BY <1>10, <1>11

-----------------------------------------------------------------------------
(* Frames of gRPC that follow each other: after the first i of them, f[i]  *)
(* is the last byte and m[i] bytes of a message are to come.               *)
CarriesGrpc(fr, x, a, y, b, pk) ==
  \E t, n, k \in 0 .. MaxFrame :
    /\ fr = Frame(x, t, n, k)
    /\ t <= a /\ t + n > 0 /\ k <= n /\ (n > 0 => t = a) /\ (t > 0 /\ n > 0 => pk)
    /\ y = x + t + k
    /\ b = IF n = 0 THEN a - t ELSE n - k

JoinedGrpc(f, m, box, x, y, b, pk) ==
  /\ f[0] = x /\ f[Len(box)] = y /\ m[Len(box)] = b
  /\ \A i \in 1 .. Len(box) : CarriesGrpc(box[i], f[i - 1], m[i - 1], f[i], m[i], pk)

(* Frames that bring byte x, a bytes before the end of a message, to byte  *)
(* y, b bytes before the end of one.                                       *)
Leads(box, x, a, y, b, pk) ==
  \E f \in [0 .. Len(box) -> 0 .. y], m \in [0 .. Len(box) -> Nat] :
    JoinedGrpc(f, m, box, x, y, b, pk) /\ m[0] = a

LEMMA JoinGrpcAppend ==
  ASSUME NEW S, NEW box \in Seq(S), NEW fr \in S, NEW x, NEW y \in Nat, NEW z \in Nat, y <= z,
         NEW b \in Nat, NEW c \in Nat, NEW pk, NEW pk2, pk => pk2, CarriesGrpc(fr, y, b, z, c, pk2),
         NEW a, Leads(box, x, a, y, b, pk)
  PROVE  Leads(Append(box, fr), x, a, z, c, pk2)
<1>0. PICK f \in [0 .. Len(box) -> 0 .. y], m \in [0 .. Len(box) -> Nat] :
        JoinedGrpc(f, m, box, x, y, b, pk) /\ m[0] = a
  BY DEF Leads
<1> DEFINE n == Len(box)
           new == Append(box, fr)
           g == [i \in 0 .. n + 1 |-> IF i <= n THEN f[i] ELSE z]
           h == [i \in 0 .. n + 1 |-> IF i <= n THEN m[i] ELSE c]
<1>1. /\ n \in Nat /\ Len(new) = n + 1
      /\ \A i \in 1 .. n : new[i] = box[i]
      /\ new[n + 1] = fr
  BY AppendProperties
<1>2. /\ f[0] = x /\ f[n] = y /\ m[n] = b
      /\ \A i \in 1 .. n : CarriesGrpc(box[i], f[i - 1], m[i - 1], f[i], m[i], pk)
  BY <1>0 DEF JoinedGrpc
<1>3. \A i \in 0 .. n : f[i] \in 0 .. z /\ m[i] \in Nat
  <2>1. \A i \in 0 .. n : f[i] \in 0 .. y /\ m[i] \in Nat
    OBVIOUS
  <2> QED
    BY <2>1
<1> HIDE DEF n, new
<1>4. g \in [0 .. n + 1 -> 0 .. z] /\ h \in [0 .. n + 1 -> Nat]
  <2>1. ASSUME NEW i \in 0 .. n + 1
        PROVE  (IF i <= n THEN f[i] ELSE z) \in 0 .. z /\ (IF i <= n THEN m[i] ELSE c) \in Nat
    <3>1. CASE i <= n
      <4>1. i \in 0 .. n
        BY <1>1, <3>1
      <4> QED
        BY <1>3, <3>1, <4>1
    <3>2. CASE ~(i <= n)
      BY <3>2
    <3> QED
      BY <3>1, <3>2
  <2> QED
    BY <2>1
<1>5. g[0] = x /\ g[n + 1] = z /\ h[n + 1] = c /\ h[0] = m[0]
  BY <1>1, <1>2
<1>6. ASSUME NEW i \in 1 .. n + 1
      PROVE  CarriesGrpc(new[i], g[i - 1], h[i - 1], g[i], h[i], pk2)
  <2>1. i <= n \/ i = n + 1
    BY <1>1
  <2>2. CASE i <= n
    <3>1. i \in 1 .. n /\ i - 1 \in 0 .. n /\ i \in 0 .. n + 1 /\ i - 1 \in 0 .. n + 1 /\ i - 1 <= n
      BY <1>1, <2>2
    <3>2. g[i] = f[i] /\ g[i - 1] = f[i - 1] /\ h[i] = m[i] /\ h[i - 1] = m[i - 1]
      BY <2>2, <3>1
    <3>3. CarriesGrpc(new[i], g[i - 1], h[i - 1], g[i], h[i], pk)
      BY <1>1, <1>2, <3>1, <3>2
    <3> HIDE DEF g, h
    <3> QED
      BY <3>3 DEF CarriesGrpc
  <2>3. CASE i = n + 1
    <3>1. i - 1 = n /\ n \in 0 .. n + 1 /\ n <= n
      BY <1>1, <2>3
    <3>2. g[i - 1] = y /\ h[i - 1] = b
      BY <1>2, <3>1
    <3> QED
      BY <1>1, <1>5, <2>3, <3>2
  <2> QED
    BY <2>1, <2>2, <2>3
<1> HIDE DEF g, h
<1>7. JoinedGrpc(g, h, new, x, z, c, pk2)
  BY <1>1, <1>5, <1>6 DEF JoinedGrpc
<1>8. g \in [0 .. Len(new) -> 0 .. z] /\ h \in [0 .. Len(new) -> Nat]
  BY <1>1, <1>4
<1> QED
  BY <1>0, <1>5, <1>7, <1>8 DEF new, Leads

LEMMA JoinGrpcTail ==
  ASSUME NEW S, NEW box \in Seq(S), box # <<>>, NEW x \in Nat, NEW y \in Nat, NEW b, NEW pk,
         NEW a, Leads(box, x, a, y, b, pk)
  PROVE  \E z \in Nat, c \in Nat :
           CarriesGrpc(Head(box), x, a, z, c, pk) /\ Leads(Tail(box), z, c, y, b, pk)
<1>0. PICK f \in [0 .. Len(box) -> 0 .. y], m \in [0 .. Len(box) -> Nat] :
        JoinedGrpc(f, m, box, x, y, b, pk) /\ m[0] = a
  BY DEF Leads
<1> DEFINE n == Len(box)
           new == Tail(box)
           g == [i \in 0 .. n - 1 |-> f[i + 1]]
           h == [i \in 0 .. n - 1 |-> m[i + 1]]
<1>1. /\ n \in Nat /\ n > 0 /\ Len(new) = n - 1 /\ Head(box) = box[1]
      /\ \A i \in 1 .. n - 1 : new[i] = box[i + 1]
  BY HeadTailProperties, EmptySeq, LenProperties
<1>2. /\ f[0] = x /\ f[n] = y /\ m[n] = b
      /\ \A i \in 1 .. n : CarriesGrpc(box[i], f[i - 1], m[i - 1], f[i], m[i], pk)
  BY <1>0 DEF JoinedGrpc
<1>3. \A i \in 0 .. n : f[i] \in 0 .. y /\ m[i] \in Nat
  OBVIOUS
<1> HIDE DEF n, new
<1>9. f[1] \in Nat /\ m[1] \in Nat /\ CarriesGrpc(Head(box), x, m[0], f[1], m[1], pk)
  <2>1. 1 \in 1 .. n /\ 1 - 1 = 0 /\ 1 \in 0 .. n
    BY <1>1
  <2>2. f[1] \in 0 .. y /\ m[1] \in Nat
    BY <1>3, <2>1
  <2>3. CarriesGrpc(box[1], f[1 - 1], m[1 - 1], f[1], m[1], pk)
    BY <1>2, <2>1
  <2> QED
    BY <1>1, <1>2, <2>1, <2>2, <2>3
<1>4. g \in [0 .. n - 1 -> 0 .. y] /\ h \in [0 .. n - 1 -> Nat]
  <2>1. \A i \in 0 .. n - 1 : i + 1 \in 0 .. n
    BY <1>1
  <2> QED
    BY <1>3, <2>1
<1>5. g[0] = f[1] /\ g[n - 1] = y /\ h[0] = m[1] /\ h[n - 1] = b
  <2>1. 0 \in 0 .. n - 1 /\ n - 1 \in 0 .. n - 1 /\ 0 + 1 = 1 /\ (n - 1) + 1 = n
    BY <1>1
  <2> QED
    BY <1>2, <2>1
<1>6. ASSUME NEW i \in 1 .. n - 1
      PROVE  CarriesGrpc(new[i], g[i - 1], h[i - 1], g[i], h[i], pk)
  <2>1. /\ i \in 0 .. n - 1 /\ i - 1 \in 0 .. n - 1 /\ i + 1 \in 1 .. n /\ (i + 1) - 1 = i
        /\ (i - 1) + 1 = i
    BY <1>1
  <2>2. g[i] = f[i + 1] /\ g[i - 1] = f[i] /\ h[i] = m[i + 1] /\ h[i - 1] = m[i]
    BY <2>1
  <2>3. CarriesGrpc(box[i + 1], f[(i + 1) - 1], m[(i + 1) - 1], f[i + 1], m[i + 1], pk)
    BY <1>2, <2>1
  <2> QED
    BY <1>1, <2>1, <2>2, <2>3
<1> HIDE DEF g, h
<1>7. JoinedGrpc(g, h, new, f[1], y, b, pk)
  BY <1>1, <1>5, <1>6 DEF JoinedGrpc
<1>8. g \in [0 .. Len(new) -> 0 .. y] /\ h \in [0 .. Len(new) -> Nat]
  BY <1>1, <1>4
<1>10. Leads(Tail(box), f[1], m[1], y, b, pk)
  BY <1>5, <1>7, <1>8 DEF new, Leads
<1> QED
  BY <1>0, <1>9, <1>10

LEMMA FollowGrpcJoined ==
  /\ \A f, m : FollowGrpc(f, m) <=> /\ JoinedGrpc(f, m, inbox, Len(got) + Len(buffer), sent, message, packed)
                                    /\ m[0] + Len(buffer) = payload_len
  /\ \A f, m : FollowGrpc(f, m)' <=>
                 /\ JoinedGrpc(f, m, inbox', Len(got') + Len(buffer'), sent', message', packed')
                 /\ m[0] + Len(buffer') = payload_len'
<1>1. ASSUME NEW f, NEW m
      PROVE  FollowGrpc(f, m) <=>
               /\ JoinedGrpc(f, m, inbox, Len(got) + Len(buffer), sent, message, packed)
               /\ m[0] + Len(buffer) = payload_len
  BY SMTT(30) DEF FollowGrpc, JoinedGrpc, CarriesGrpc
<1>2. ASSUME NEW f, NEW m
      PROVE  FollowGrpc(f, m)' <=>
               /\ JoinedGrpc(f, m, inbox', Len(got') + Len(buffer'), sent', message', packed')
               /\ m[0] + Len(buffer') = payload_len'
  BY SMTT(30) DEF FollowGrpc, JoinedGrpc, CarriesGrpc
<1> QED
  BY <1>1, <1>2

(* What the reader of gRPC has to show of a step. *)
LEMMA GrpcStep ==
  ASSUME sent' \in Nat, message' \in Nat, inbox' \in Seq(Seq(Units)), Len(got') \in Nat,
         Len(buffer') \in Nat, got' = Datas(0, Len(got')), buffer' = Datas(Len(got'), Len(buffer')),
         payload_len' \in 0 .. U64 - 1,
         NEW a, Leads(inbox', Len(got') + Len(buffer'), a, sent', message', packed'),
         a + Len(buffer') = payload_len', reader' = "eof" => bare'
  PROVE  GrpcInv'
<1>1. \E g \in [0 .. Len(inbox') -> 0 .. sent'], h \in [0 .. Len(inbox') -> Nat] : FollowGrpc(g, h)'
  BY FollowGrpcJoined DEF Leads
<1> QED
  BY <1>1 DEF GrpcInv

LEMMA GrpcInit == Init => GrpcInv
<1> SUFFICES ASSUME Init PROVE GrpcInv
  OBVIOUS
<1> DEFINE f == [i \in 0 .. 0 |-> 0]
<1>1. /\ inbox = <<>> /\ Len(inbox) = 0 /\ inbox \in Seq(Seq(Units)) /\ sent = 0 /\ message = 0
      /\ got = <<>> /\ buffer = <<>> /\ Len(got) = 0 /\ Len(buffer) = 0 /\ reader = "open"
      /\ payload_len = 0
  BY EmptySeq DEF Init
<1>2. f \in [0 .. Len(inbox) -> 0 .. sent] /\ f \in [0 .. Len(inbox) -> Nat] /\ FollowGrpc(f, f)
  BY <1>1 DEF FollowGrpc
<1>3. got = Datas(0, Len(got)) /\ buffer = Datas(Len(got), Len(buffer))
  BY <1>1, NoDatas
<1>4. payload_len \in 0 .. U64 - 1
  BY <1>1 DEF U64
<1> QED
  BY <1>1, <1>2, <1>3, <1>4 DEF GrpcInv

(* What gRPC's reader knows, with a name for each part. *)
LEMMA GrpcKnows ==
  ASSUME GrpcInv, kind = "grpc", ~(packed /\ cramped)
  PROVE  /\ sent \in Nat /\ message \in Nat /\ inbox \in Seq(Seq(Units))
         /\ Len(got) \in Nat /\ Len(buffer) \in Nat
         /\ got = Datas(0, Len(got)) /\ buffer = Datas(Len(got), Len(buffer))
         /\ payload_len \in 0 .. U64 - 1 /\ payload_len \in Nat
         /\ \E a \in Nat : /\ Leads(inbox, Len(got) + Len(buffer), a, sent, message, packed)
                         /\ a + Len(buffer) = payload_len
         /\ reader = "eof" => bare \/ (inbox = <<>> /\ buffer = <<>> /\ peer_closed)
<1>1. /\ sent \in Nat /\ message \in Nat /\ inbox \in Seq(Seq(Units))
      /\ Len(got) \in Nat /\ Len(buffer) \in Nat
      /\ got = Datas(0, Len(got)) /\ buffer = Datas(Len(got), Len(buffer))
      /\ payload_len \in 0 .. U64 - 1
      /\ reader = "eof" => bare \/ (inbox = <<>> /\ buffer = <<>> /\ peer_closed)
  BY DEF GrpcInv
<1>2. PICK f \in [0 .. Len(inbox) -> 0 .. sent] : \E m \in [0 .. Len(inbox) -> Nat] : FollowGrpc(f, m)
  BY DEF GrpcInv
<1>3. PICK m \in [0 .. Len(inbox) -> Nat] : FollowGrpc(f, m)
  BY <1>2
<1>4. /\ JoinedGrpc(f, m, inbox, Len(got) + Len(buffer), sent, message, packed)
      /\ m[0] + Len(buffer) = payload_len
  BY <1>3, FollowGrpcJoined
<1>5. payload_len \in Nat
  <2>1. payload_len \in 0 .. U64 - 1
    BY <1>1
  <2>2. 0 .. U64 - 1 \subseteq Nat
    BY DEF U64
  <2> QED
    BY <2>1, <2>2, Zenon
<1>6. m[0] \in Nat
  <2>1. 0 \in 0 .. Len(inbox)
    <3>1. Len(inbox) \in Nat
      BY <1>1, LenProperties
    <3> QED
      BY <3>1
  <2> QED
    BY <2>1
<1>7. Leads(inbox, Len(got) + Len(buffer), m[0], sent, message, packed)
  BY <1>4 DEF Leads
<1> QED
  BY <1>1, <1>4, <1>5, <1>6, <1>7

(* The peer of gRPC sends a frame. *)
LEMMA GrpcSends ==
  ASSUME GrpcInv, kind = "grpc", ~(packed' /\ cramped'), NEW t \in 0 .. MaxFrame, NEW n \in 0 .. MaxFrame,
         NEW k \in 0 .. MaxFrame, PeerSendsGrpc(t, n, k)
  PROVE  GrpcInv'
<1>0. MaxFrame \in Nat /\ t \in Nat /\ n \in Nat /\ k \in Nat
  BY TransportAssumption
<1>1. /\ PeerMaySend /\ t <= message /\ t + n > 0 /\ k <= n /\ (n > 0 => t = message)
      /\ Receive(Frame(sent, t, n, k)) /\ sent' = sent + t + k
      /\ message' = (IF n = 0 THEN message - t ELSE n - k)
      /\ packed' = (packed \/ (t > 0 /\ n > 0))
      /\ UNCHANGED <<kind, got, buffer, reader, cramped, bare, payload_len>>
  BY DEF PeerSendsGrpc, readVars
<1>2. ~(packed /\ cramped) /\ (packed => packed') /\ (t > 0 /\ n > 0 => packed')
  BY <1>1
<1>3. /\ sent \in Nat /\ message \in Nat /\ inbox \in Seq(Seq(Units))
      /\ Len(got) \in Nat /\ Len(buffer) \in Nat
      /\ got = Datas(0, Len(got)) /\ buffer = Datas(Len(got), Len(buffer))
      /\ payload_len \in 0 .. U64 - 1 /\ payload_len \in Nat
      /\ \E a \in Nat : /\ Leads(inbox, Len(got) + Len(buffer), a, sent, message, packed)
                      /\ a + Len(buffer) = payload_len
      /\ reader = "eof" => bare \/ (inbox = <<>> /\ buffer = <<>> /\ peer_closed)
  BY <1>2, GrpcKnows
<1>4. PICK fr : fr = Frame(sent, t, n, k) /\ fr \in Seq(Units)
  <2>1. IsFrame(Frame(sent, t, n, k), sent, t, n, k)
    BY <1>0, <1>3, FrameIsFrame
  <2> QED
    BY <2>1 DEF IsFrame
<1>5. inbox' = Append(inbox, fr)
  BY <1>1, <1>4 DEF Receive
<1>6. sent' \in Nat /\ message' \in Nat /\ sent <= sent'
  BY <1>0, <1>1, <1>3
<1>7. CarriesGrpc(fr, sent, message, sent', message', packed')
  BY <1>1, <1>2, <1>4 DEF CarriesGrpc
<1> HIDE DEF Units
<1>8. PICK box, x, y, z, b, c, pk, pk2 :
        /\ box = inbox /\ x = Len(got) + Len(buffer) /\ y = sent /\ z = sent' /\ b = message /\ c = message'
        /\ pk = packed /\ pk2 = packed'
  OBVIOUS
<1>9. PICK a \in Nat : Leads(box, x, a, y, b, pk) /\ a + Len(buffer) = payload_len
  BY <1>3, <1>8
<1>10. /\ box \in Seq(Seq(Units)) /\ y \in Nat /\ z \in Nat /\ y <= z /\ b \in Nat /\ c \in Nat
       /\ (pk => pk2) /\ CarriesGrpc(fr, y, b, z, c, pk2)
  BY <1>2, <1>3, <1>6, <1>7, <1>8
<1>11. Leads(Append(box, fr), x, a, z, c, pk2)
  BY <1>4, <1>9, <1>10, JoinGrpcAppend
<1>12. /\ Leads(inbox', Len(got') + Len(buffer'), a, sent', message', packed')
       /\ a + Len(buffer') = payload_len'
  <2>1. /\ Append(box, fr) = inbox' /\ z = sent' /\ c = message' /\ pk2 = packed'
        /\ x = Len(got') + Len(buffer') /\ Len(buffer') = Len(buffer) /\ payload_len' = payload_len
    BY <1>1, <1>5, <1>8
  <2> QED
    BY <1>9, <1>11, <2>1
<1>13. inbox' \in Seq(Seq(Units))
  BY <1>3, <1>4, <1>5, AppendProperties
<1>14. reader' = "eof" => bare'
  BY <1>1, <1>3 DEF PeerMaySend
<1>15. /\ Len(got') \in Nat /\ Len(buffer') \in Nat
       /\ got' = Datas(0, Len(got')) /\ buffer' = Datas(Len(got'), Len(buffer'))
       /\ payload_len' \in 0 .. U64 - 1
  BY <1>1, <1>3
<1> QED
  BY <1>6, <1>12, <1>13, <1>14, <1>15, GrpcStep

(* The reader of gRPC takes a frame. *)
LEMMA GrpcReads ==
  ASSUME GrpcInv, kind = "grpc", ~(packed' /\ cramped'), NEW room \in 1 .. MaxRoom, GrpcRead(room)
  PROVE  GrpcInv'
<1>0. MaxFrame \in Nat /\ MaxFrame < U64 /\ room \in Nat /\ U64 \in Nat
  BY TransportAssumption, LengthAssumption DEF U64
<1>1. PICK data, end : data = Head(inbox) /\ end = Loop(data, payload_len, room)
  OBVIOUS
<1>2. /\ reader = "open" /\ buffer = <<>> /\ inbox # <<>> /\ inbox' = Tail(inbox) /\ got' = got \o end.put
      /\ buffer' = end.rest /\ payload_len' = end.len /\ cramped' = (cramped \/ end.rest # <<>>)
      /\ reader' = (IF end.put = <<>> THEN "eof" ELSE "open")
      /\ bare' = (bare \/ (Len(data) = 1 /\ data[1][1] = "head"))
      /\ UNCHANGED <<sent, message, packed>>
  BY <1>1 DEF GrpcRead, Reading, peerVars
<1>3. ~(packed /\ cramped) /\ (packed => end.rest = <<>>)
  BY <1>2
<1>4. /\ sent \in Nat /\ message \in Nat /\ inbox \in Seq(Seq(Units))
      /\ Len(got) \in Nat /\ Len(buffer) \in Nat
      /\ got = Datas(0, Len(got)) /\ buffer = Datas(Len(got), Len(buffer))
      /\ payload_len \in 0 .. U64 - 1 /\ payload_len \in Nat
      /\ \E a \in Nat : /\ Leads(inbox, Len(got) + Len(buffer), a, sent, message, packed)
                      /\ a + Len(buffer) = payload_len
  BY <1>3, GrpcKnows
<1> HIDE DEF Units, U64
<1>5. PICK box, a, y, b, pk : /\ box = inbox /\ a = Len(got) /\ y = sent /\ b = message /\ pk = packed
  OBVIOUS
<1>6. Len(buffer) = 0 /\ a \in Nat /\ y \in Nat /\ box \in Seq(Seq(Units)) /\ box # <<>> /\ a + 0 = a
  BY <1>2, <1>4, <1>5, EmptySeq
<1>7. Leads(box, a, payload_len, y, b, pk)
  <2>1. PICK c \in Nat : Leads(box, a + 0, c, y, b, pk) /\ c + 0 = payload_len
    BY <1>4, <1>5, <1>6
  <2>2. c = payload_len
    BY <2>1
  <2> QED
    BY <1>6, <2>1, <2>2
<1>8. PICK z \in Nat, c \in Nat : /\ CarriesGrpc(Head(box), a, payload_len, z, c, pk)
                                /\ Leads(Tail(box), z, c, y, b, pk)
  <2>1. PICK l : l = payload_len
    OBVIOUS
  <2>2. Leads(box, a, l, y, b, pk)
    BY <1>7, <2>1
  <2>3. \E z \in Nat, c \in Nat : CarriesGrpc(Head(box), a, l, z, c, pk) /\ Leads(Tail(box), z, c, y, b, pk)
    BY <1>6, <2>2, JoinGrpcTail
  <2> QED
    BY <2>1, <2>3
<1>10. PICK t \in 0 .. MaxFrame, n \in 0 .. MaxFrame, k \in 0 .. MaxFrame :
         /\ data = Frame(a, t, n, k) /\ t <= payload_len /\ t + n > 0 /\ k <= n /\ (n > 0 => t = payload_len)
         /\ (t > 0 /\ n > 0 => packed) /\ z = a + t + k
         /\ c = (IF n = 0 THEN payload_len - t ELSE n - k)
  BY <1>1, <1>5, <1>8 DEF CarriesGrpc
<1>11. t \in Nat /\ n \in Nat /\ k \in Nat /\ n < U64
  BY <1>0
<1>12. PICK q \in 0 .. t + k :
         /\ end.put = Datas(a, q) /\ end.rest = Datas(a + q, (t + k) - q)
         /\ end.len = (IF n = 0 THEN payload_len - t ELSE n - k) + ((t + k) - q)
         /\ end.len <= payload_len \/ end.len <= n
         /\ t + k > 0 => q > 0
  <2>1. t > 0 /\ n > 0 => end.rest = <<>>
    BY <1>3, <1>10
  <2>2. PICK l : l = payload_len
    OBVIOUS
  <2>3. end = Loop(Frame(a, t, n, k), l, room) /\ l \in Nat /\ t <= l /\ (n > 0 => t = l) /\ k <= n
    BY <1>1, <1>4, <1>10, <2>2
  <2>5. room > 0
    OBVIOUS
  <2>4. Returns(end, a, t, n, k, l)
    BY <1>0, <1>6, <1>11, <2>1, <2>3, <2>5, GrpcLoop
  <2> QED
    BY <2>2, <2>4 DEF Returns
<1>13. q \in Nat /\ (t + k) - q \in Nat /\ a + q \in Nat /\ (a + q) + ((t + k) - q) = z
  BY <1>6, <1>10, <1>11
<1>14. got' = Datas(0, a + q)
  <2>1. Datas(0, a) \o Datas(0 + a, q) = Datas(0, a + q) /\ 0 + a = a
    <3>1. 0 + a = a /\ 0 \in Nat
      BY <1>6
    <3>2. a \in Nat /\ q \in Nat
      BY <1>6, <1>13
    <3> QED
      BY <3>1, <3>2, DatasConcat, ZenonT(40)
  <2> QED
    BY <1>2, <1>4, <1>5, <1>12, <2>1
<1>15. Len(got') = a + q /\ Len(buffer') = (t + k) - q /\ buffer' = Datas(a + q, (t + k) - q)
  <2>1. PICK x, l : x = a + q /\ l = (t + k) - q
    OBVIOUS
  <2>2. got' = Datas(0, x) /\ buffer' = Datas(x, l) /\ x \in Nat /\ l \in Nat
    BY <1>2, <1>12, <1>13, <1>14, <2>1
  <2>3. Len(Datas(0, x)) = x /\ Len(Datas(x, l)) = l
    BY <2>2, DatasProperties
  <2> QED
    BY <2>1, <2>2, <2>3
<1>16. payload_len' = c + Len(buffer') /\ payload_len' \in 0 .. U64 - 1
  <2>1. payload_len' = c + Len(buffer')
    BY <1>2, <1>10, <1>12, <1>15
  <2>2. payload_len' \in Nat
    <3>1. Len(buffer') \in Nat
      BY <1>13, <1>15
    <3> QED
      BY <2>1, <3>1
  <2>3. payload_len' <= payload_len \/ payload_len' <= n
    BY <1>2, <1>12
  <2> QED
    BY <1>0, <1>4, <1>11, <2>1, <2>2, <2>3
<1>17. Leads(inbox', Len(got') + Len(buffer'), c, sent', message', packed')
  <2>1. /\ Tail(box) = inbox' /\ y = sent' /\ b = message' /\ pk = packed'
        /\ z = Len(got') + Len(buffer')
    BY <1>2, <1>5, <1>13, <1>15
  <2> QED
    BY <1>8, <2>1
<1>18. inbox' \in Seq(Seq(Units))
  <2>1. Tail(box) \in Seq(Seq(Units))
    BY <1>6, HeadTailProperties
  <2> QED
    BY <1>2, <1>5, <2>1
<1>19. /\ sent' \in Nat /\ message' \in Nat /\ Len(got') \in Nat /\ Len(buffer') \in Nat
       /\ got' = Datas(0, Len(got')) /\ buffer' = Datas(Len(got'), Len(buffer'))
  BY <1>2, <1>4, <1>13, <1>14, <1>15
<1>20. reader' = "eof" => bare'
  <2> SUFFICES ASSUME reader' = "eof" PROVE bare'
    OBVIOUS
  <2>1. end.put = <<>>
    BY <1>2
  <2>2. q = 0
    <3>1. Len(Datas(a, q)) = q
      BY <1>6, <1>13, DatasProperties
    <3>2. Len(Datas(a, q)) = 0
      BY <1>12, <2>1, EmptySeq
    <3> QED
      BY <3>1, <3>2
  <2>3. t = 0 /\ k = 0 /\ n > 0 /\ t + 1 = 1 /\ t + 1 + k = 1
    BY <1>10, <1>11, <1>12, <2>2
  <2>4. IsFrame(data, a, t, n, k)
    BY <1>6, <1>10, <1>11, FrameIsFrame
  <2>5. Len(data) = 1 /\ data[1] = <<"head", n>>
    BY <2>3, <2>4 DEF IsFrame
  <2>6. Len(data) = 1 /\ data[1][1] = "head"
    BY <2>5
  <2> QED
    BY <1>2, <2>6, Zenon
<1> QED
  BY <1>16, <1>17, <1>18, <1>19, <1>20, GrpcStep

LEMMA Unwrapped ==
  ASSUME NEW u \in Nat, u > 0, NEW p \in Nat, p < u, NEW n \in Nat, n <= p
  PROVE  (p + u - n) % u = p - n
BY SMT

(* The reader of gRPC empties its buffer. *)
LEMMA GrpcBuffered ==
  ASSUME GrpcInv, kind = "grpc", ~(packed' /\ cramped'), NEW room \in 1 .. MaxRoom, ReadBuffered(room)
  PROVE  GrpcInv'
<1>1. PICK n, a, l : n = LeastOf(room, Len(buffer)) /\ a = Len(got) /\ l = Len(buffer)
  OBVIOUS
<1>2. /\ got' = got \o SubSeq(buffer, 1, n) /\ buffer' = SubSeq(buffer, n + 1, l)
      /\ payload_len' = (payload_len + U64 - n) % U64
      /\ reader = "open" /\ UNCHANGED <<sent, message, inbox, packed, cramped, reader>>
  BY <1>1 DEF ReadBuffered, Reading, peerVars
<1>3. ~(packed /\ cramped)
  BY <1>2
<1>4. /\ sent \in Nat /\ message \in Nat /\ inbox \in Seq(Seq(Units))
      /\ Len(got) \in Nat /\ Len(buffer) \in Nat
      /\ got = Datas(0, Len(got)) /\ buffer = Datas(Len(got), Len(buffer))
      /\ payload_len \in 0 .. U64 - 1 /\ payload_len \in Nat
      /\ \E b \in Nat : /\ Leads(inbox, Len(got) + Len(buffer), b, sent, message, packed)
                        /\ b + Len(buffer) = payload_len
  BY <1>3, GrpcKnows
<1> HIDE DEF Units
<1>5. a \in Nat /\ l \in Nat /\ n \in 0 .. l /\ got = Datas(0, a) /\ buffer = Datas(a, l)
  <2>1. room \in Nat /\ Len(buffer) \in Nat
    BY <1>4
  <2> QED
    BY <1>1, <1>4, <2>1 DEF LeastOf
<1>6. got' = got \o SubSeq(Datas(a, l), 1, n) /\ buffer' = SubSeq(Datas(a, l), n + 1, l)
  BY <1>2, <1>5
<1>7. /\ got' = Datas(0, a + n) /\ Len(got') = a + n /\ Len(got') \in Nat
      /\ buffer' = Datas(a + n, l - n) /\ Len(buffer') = l - n /\ Len(buffer') \in Nat
      /\ Len(got') + Len(buffer') = a + l
  BY <1>5, <1>6, Returned
<1>8. PICK b \in Nat : Leads(inbox, a + l, b, sent, message, packed) /\ b + l = payload_len
  BY <1>1, <1>4
<1>9. payload_len' = payload_len - n /\ payload_len' \in 0 .. U64 - 1
  <2>1. U64 \in Nat /\ U64 > 0
    BY SMT DEF U64
  <2>2. PICK p, u : p = payload_len /\ u = U64
    OBVIOUS
  <2> HIDE DEF U64
  <2>3. p \in Nat /\ u \in Nat /\ u > 0 /\ p < u /\ n \in Nat /\ n <= p
    BY <1>4, <1>5, <1>8, <2>1, <2>2
  <2>4. (p + u - n) % u = p - n
    BY <2>3, Unwrapped
  <2>5. payload_len' = p - n
    BY <1>2, <2>2, <2>4
  <2> QED
    BY <2>2, <2>3, <2>5
<1>10. b + Len(buffer') = payload_len'
  BY <1>5, <1>7, <1>8, <1>9, SMTT(30)
<1>11. Leads(inbox', Len(got') + Len(buffer'), b, sent', message', packed')
  BY <1>2, <1>7, <1>8
<1>12. got' = Datas(0, Len(got')) /\ buffer' = Datas(Len(got'), Len(buffer'))
  BY <1>7
<1>13. sent' \in Nat /\ message' \in Nat /\ inbox' \in Seq(Seq(Units)) /\ (reader' = "eof" => bare')
  BY <1>2, <1>4
<1> QED
  BY <1>7, <1>9, <1>10, <1>11, <1>12, <1>13, GrpcStep

LEMMA GrpcNext == GrpcInv /\ [Next]_vars => GrpcInv'
<1> SUFFICES ASSUME GrpcInv, [Next]_vars PROVE GrpcInv'
  OBVIOUS
<1>a. kind' = kind
  BY KindStays
<1>b. SUFFICES ASSUME kind = "grpc", ~(packed' /\ cramped') PROVE GrpcInv'
  BY <1>a DEF GrpcInv
<1> DEFINE Still == UNCHANGED <<kind, sent, message, inbox, got, buffer, payload_len, reader, packed, cramped, bare>>
<1>1. ASSUME Still, peer_closed' = peer_closed \/ peer_closed' = TRUE PROVE GrpcInv'
  <2>1. \A f, m : FollowGrpc(f, m)' <=> FollowGrpc(f, m)
    BY <1>1 DEF FollowGrpc
  <2> QED
    BY <1>1, <2>1 DEF GrpcInv
<1>2. ASSUME NEW n \in 1 .. MaxOffer,
             \/ H2Write(n) \/ GrpcWrite(n) \/ WsWrite(n) \/ EarlyWrite(n) \/ ObfsFirst(n) \/ ObfsWrite(n)
      PROVE  GrpcInv'
  <2>1. Still /\ peer_closed' = peer_closed
    BY <1>2 DEF H2Write, GrpcWrite, WsWrite, EarlyWrite, ObfsFirst, ObfsWrite, peerVars, readVars
  <2> QED
    BY <1>1, <2>1
<1>3. CASE EarlyDone \/ EarlyFails \/ PeerReads \/ ReadEarly \/ PeerCloses
  <2>1. Still /\ (peer_closed' = peer_closed \/ peer_closed' = TRUE)
    BY <1>3 DEF EarlyDone, EarlyFails, PeerReads, ReadEarly, PeerCloses, peerVars, readVars
  <2> QED
    BY <1>1, <2>1
<1>4. ASSUME NEW n, PeerSends(n) \/ PeerResponds(n) \/ ReadFrame(n) \/ ObfsStrip(n) \/ ObfsRead(n)
      PROVE  GrpcInv'
  BY <1>b, <1>4 DEF PeerSends, PeerResponds, ReadFrame, ObfsStrip, ObfsRead
<1>5. CASE PeerPings \/ ReadPing \/ ObfsSpins
  BY <1>b, <1>5 DEF PeerPings, ReadPing, ObfsSpins
<1>6. ASSUME NEW t \in 0 .. MaxFrame, NEW n \in 0 .. MaxFrame, NEW k \in 0 .. MaxFrame, PeerSendsGrpc(t, n, k)
      PROVE  GrpcInv'
  BY <1>b, <1>6, GrpcSends
<1>7. ASSUME NEW room \in 1 .. MaxRoom, ReadBuffered(room) PROVE GrpcInv'
  BY <1>b, <1>7, GrpcBuffered
<1>8. ASSUME NEW room \in 1 .. MaxRoom, GrpcRead(room) PROVE GrpcInv'
  BY <1>b, <1>8, GrpcReads
<1>9. CASE ReadEnd
  <2>1. /\ buffer = <<>> /\ inbox = <<>> /\ peer_closed
        /\ UNCHANGED <<kind, sent, message, inbox, got, buffer, payload_len, packed, cramped, peer_closed>>
    BY <1>9 DEF ReadEnd, peerVars
  <2>2. \A f, m : FollowGrpc(f, m)' <=> FollowGrpc(f, m)
    BY <2>1 DEF FollowGrpc
  <2> QED
    BY <2>1, <2>2 DEF GrpcInv
<1>10. CASE UNCHANGED vars
  <2>1. Still /\ peer_closed' = peer_closed
    BY <1>10 DEF vars, peerVars, readVars
  <2> QED
    BY <1>1, <2>1
<1> QED
  BY <1>2, <1>3, <1>4, <1>5, <1>6, <1>7, <1>8, <1>9, <1>10 DEF Next, Read

-----------------------------------------------------------------------------
(* Pieces of simple-obfs' stream: the response, then the peer's bytes.     *)
At(j) == IF j <= 3 THEN Response[j] ELSE <<"data", j - 3>>

LEMMA StreamAt ==
  /\ At(1) = <<"line", 0>> /\ At(2) = <<"crlf", 1>> /\ At(3) = <<"crlf", 2>>
  /\ \A j \in Nat : j > 3 => At(j) = <<"data", j - 3>>
  /\ \A j \in Nat \ {0} : At(j) \in Units
<1>1. At(1) = <<"line", 0>> /\ At(2) = <<"crlf", 1>> /\ At(3) = <<"crlf", 2>>
  BY DEF At, Response
<1>2. \A j \in Nat : j > 3 => At(j) = <<"data", j - 3>>
  BY DEF At
<1>3. ASSUME NEW j \in Nat \ {0} PROVE At(j) \in Units
  <2>1. CASE j > 3
    BY <1>2, <2>1 DEF Units
  <2>2. CASE ~(j > 3)
    <3>1. j = 1 \/ j = 2 \/ j = 3
      BY <2>2
    <3> QED
      BY <1>1, <3>1 DEF Units
  <2> QED
    BY <2>1, <2>2
<1> QED
  BY <1>1, <1>2, <1>3

LEMMA PieceProperties ==
  ASSUME NEW p \in Nat, NEW n \in Nat
  PROVE  /\ Piece(p, n) \in Seq(Units) /\ Len(Piece(p, n)) = n
         /\ \A i \in 1 .. n : Piece(p, n)[i] = At(p + i)
<1>1. Piece(p, n) = [i \in 1 .. n |-> At(p + i)]
  BY DEF Piece, At
<1>2. \A i \in 1 .. n : At(p + i) \in Units
  <2>1. \A i \in 1 .. n : p + i \in Nat \ {0}
    OBVIOUS
  <2> QED
    BY <2>1, StreamAt
<1> HIDE DEF Units, At
<1> QED
  BY <1>1, <1>2

(* Sequences of units that agree are equal. *)
LEMMA UnitsEqual ==
  ASSUME NEW s \in Seq(Units), NEW t \in Seq(Units), Len(s) = Len(t),
         \A i \in 1 .. Len(s) : s[i] = t[i]
  PROVE  s = t
<1> HIDE DEF Units
<1> QED
  BY SeqEqual

LEMMA PieceSplit ==
  ASSUME NEW p \in Nat, NEW n \in Nat, NEW k \in 0 .. n
  PROVE  /\ SubSeq(Piece(p, n), 1, k) = Piece(p, k)
         /\ SubSeq(Piece(p, n), k + 1, n) = Piece(p + k, n - k)
<1> DEFINE s == Piece(p, n)
<1>0. k \in Nat /\ k <= n /\ k + 1 \in Nat
  OBVIOUS
<1>1. s \in Seq(Units) /\ Len(s) = n /\ \A i \in 1 .. n : s[i] = At(p + i)
  BY PieceProperties
<1>a. \A i \in 1 .. n : s[i] \in Units
  BY <1>1, ElementOfSeq
<1>2. SubSeq(s, 1, k) = Piece(p, k)
  <2> DEFINE a == SubSeq(s, 1, k)
             b == Piece(p, k)
  <2>1. b \in Seq(Units) /\ Len(b) = k /\ \A i \in 1 .. k : b[i] = At(p + i)
    BY <1>0, PieceProperties
  <2> HIDE DEF s, b, Units
  <2>2. \A i \in 1 .. k : i \in 1 .. n /\ s[i] \in Units
    <3>1. \A i \in 1 .. k : i \in 1 .. n
      BY <1>0
    <3> QED
      BY <1>a, <3>1
  <2>3. a \in Seq(Units) /\ Len(a) = k /\ \A i \in 1 .. k : a[i] = s[i]
    BY <1>1, <2>2, SubSeqProperties
  <2>4. \A i \in 1 .. k : a[i] = b[i]
    BY <1>1, <2>1, <2>2, <2>3
  <2> HIDE DEF a
  <2>5. a = b
    BY <2>1, <2>3, <2>4, SeqEqual
  <2> QED
    BY <2>5 DEF a, b
<1>3. SubSeq(s, k + 1, n) = Piece(p + k, n - k)
  <2> DEFINE a == SubSeq(s, k + 1, n)
             b == Piece(p + k, n - k)
  <2>1. b \in Seq(Units) /\ Len(b) = n - k /\ \A i \in 1 .. n - k : b[i] = At((p + k) + i)
    <3>1. p + k \in Nat /\ n - k \in Nat
      OBVIOUS
    <3> QED
      BY <3>1, PieceProperties
  <2> HIDE DEF s, b, Units
  <2>2. \A i \in k + 1 .. n : s[i] \in Units
    <3>1. \A i \in k + 1 .. n : i \in 1 .. n
      BY <1>0
    <3> QED
      BY <1>a, <3>1
  <2>3. a \in Seq(Units) /\ Len(a) = n - k /\ \A i \in 1 .. n - k : a[i] = s[k + i]
    BY <1>1, <2>2, SubSeqProperties
  <2>4. ASSUME NEW i \in 1 .. n - k
        PROVE  a[i] = b[i]
    <3>1. k + i \in 1 .. n /\ p + (k + i) = (p + k) + i
      OBVIOUS
    <3> QED
      BY <1>1, <2>1, <2>3, <3>1
  <2> HIDE DEF a
  <2>5. a = b
    BY <2>1, <2>3, <2>4, SeqEqual
  <2> QED
    BY <2>5 DEF a, b
<1> QED
  BY <1>2, <1>3

(* Past the response a piece is bytes. *)
LEMMA PieceOfDatas ==
  ASSUME NEW m \in Nat, NEW n \in Nat
  PROVE  Piece(m + 3, n) = Datas(m, n)
<1> DEFINE s == Piece(m + 3, n)
           t == Datas(m, n)
<1>1. m + 3 \in Nat
  OBVIOUS
<1>2. s \in Seq(Units) /\ Len(s) = n /\ \A i \in 1 .. n : s[i] = At((m + 3) + i)
  BY <1>1, PieceProperties
<1>3. t \in Seq(Units) /\ Len(t) = n /\ \A i \in 1 .. n : t[i] = <<"data", m + i>>
  BY DatasProperties
<1>4. ASSUME NEW i \in 1 .. n PROVE s[i] = t[i]
  <2>1. (m + 3) + i \in Nat /\ (m + 3) + i > 3 /\ ((m + 3) + i) - 3 = m + i
    OBVIOUS
  <2>2. At((m + 3) + i) = <<"data", m + i>>
    BY <2>1, StreamAt
  <2> QED
    BY <1>2, <1>3, <2>2
<1> HIDE DEF s, t, Units
<1>5. s = t
  BY <1>2, <1>3, <1>4, UnitsEqual
<1> QED
  BY <1>5 DEF s, t

(* What PieceGrows says of a piece of a units from p and the next n data bytes, from m. *)
Grows(p, a, m, n) == p + a = m + 3 => Piece(p, a) \o Datas(m, n) = Piece(p, a + n)

(* More bytes arrive. *)
LEMMA PieceGrows ==
  ASSUME NEW p \in Nat, NEW a \in Nat, NEW m \in Nat, NEW n \in Nat
  PROVE  Grows(p, a, m, n)
<1>0. SUFFICES ASSUME p + a = m + 3 PROVE Piece(p, a) \o Datas(m, n) = Piece(p, a + n)
  BY DEF Grows
<1> DEFINE s == Piece(p, a)
           t == Datas(m, n)
           c == Piece(p, a + n)
<1>1. /\ s \in Seq(Units) /\ Len(s) = a /\ \A i \in 1 .. a : s[i] = At(p + i)
      /\ t \in Seq(Units) /\ Len(t) = n /\ \A i \in 1 .. n : t[i] = <<"data", m + i>>
      /\ c \in Seq(Units) /\ Len(c) = a + n /\ \A i \in 1 .. a + n : c[i] = At(p + i)
  <2>1. a + n \in Nat
    OBVIOUS
  <2> QED
    BY <2>1, DatasProperties, PieceProperties
<1> HIDE DEF s, t, c, Units, At
<1>2. /\ s \o t \in Seq(Units) /\ Len(s \o t) = a + n
      /\ \A i \in 1 .. a + n : (s \o t)[i] = IF i <= a THEN s[i] ELSE t[i - a]
  BY <1>1, ConcatProperties
<1>3. ASSUME NEW i \in 1 .. a + n
      PROVE  (s \o t)[i] = c[i]
  <2>1. CASE i <= a
    <3>1. i \in 1 .. a
      BY <2>1
    <3> QED
      BY <1>1, <1>2, <2>1, <3>1
  <2>2. CASE ~(i <= a)
    <3>1. i - a \in 1 .. n /\ p + i \in Nat /\ p + i > 3 /\ (p + i) - 3 = m + (i - a)
      BY <1>0, <2>2
    <3>2. At(p + i) = <<"data", m + (i - a)>>
      BY <3>1, StreamAt
    <3> QED
      BY <1>1, <1>2, <2>2, <3>1, <3>2
  <2> QED
    BY <2>1, <2>2
<1>4. s \o t = c
  BY <1>1, <1>2, <1>3, SeqEqual
<1> QED
  BY <1>4 DEF s, t, c

LEMMA ResponsePiece == Response = Piece(0, 3) /\ Response \in Seq(Units)
<1>1. Response \in Seq(Units) /\ Len(Response) = 3
  BY DEF Response, Units
<1>2. Piece(0, 3) \in Seq(Units) /\ Len(Piece(0, 3)) = 3 /\ \A i \in 1 .. 3 : Piece(0, 3)[i] = At(0 + i)
  BY PieceProperties
<1>3. \A i \in 1 .. 3 : At(0 + i) = Response[i]
  BY DEF At
<1> HIDE DEF Units
<1>4. PICK s, t : s = Response /\ t = Piece(0, 3)
  OBVIOUS
<1>5. s \in Seq(Units) /\ t \in Seq(Units) /\ Len(s) = 3 /\ Len(t) = 3 /\ \A i \in 1 .. 3 : s[i] = t[i]
  BY <1>1, <1>2, <1>3, <1>4
<1>6. s = t
  BY <1>5, UnitsEqual
<1> QED
  BY <1>1, <1>4, <1>6

LEMMA NoPiece == \A p : Piece(p, 0) = <<>>
BY DEF Piece

(* What is left, as a sequence and as the inbox. *)
LEMMA SegmentLeft ==
  ASSUME NEW n \in Nat, n = sent, NEW p \in 0 .. 3 + n, LeftFrom(p)
  PROVE  Segment = Piece(p, (3 + n) - p)
<1>1. CASE p < 3 + n
  <2>1. inbox = <<Piece(p, (3 + n) - p)>>
    BY <1>1 DEF LeftFrom
  <2>2. PICK s : s = Piece(p, (3 + n) - p)
    OBVIOUS
  <2>3. inbox = <<s>>
    BY <2>1, <2>2
  <2>4. Segment = s
    BY <2>3 DEF Segment
  <2> QED
    BY <2>2, <2>4
<1>2. CASE ~(p < 3 + n)
  <2>1. inbox = <<>> /\ (3 + n) - p = 0
    BY <1>2 DEF LeftFrom
  <2>2. Segment = <<>>
    BY <2>1 DEF Segment
  <2> QED
    BY <2>1, <2>2, NoPiece
<1> QED
  BY <1>1, <1>2

LEMMA RemainingLeft ==
  ASSUME NEW n \in Nat, n = sent, NEW p \in 0 .. 3 + n, LeftFrom(p), NEW k \in 0 .. (3 + n) - p,
         inbox' = Remaining(k), sent' = sent
  PROVE  LeftFrom(p + k)' /\ SubSeq(Segment, 1, k) = Piece(p, k)
<1>1. PICK l : l = (3 + n) - p
  OBVIOUS
<1>2. l \in Nat /\ p \in Nat /\ k \in 0 .. l /\ p + k \in Nat /\ l - k \in Nat
  BY <1>1
<1>3. Segment = Piece(p, l)
  BY <1>1, SegmentLeft
<1>4. Len(Segment) = l
  BY <1>2, <1>3, PieceProperties
<1>5. SubSeq(Piece(p, l), 1, k) = Piece(p, k) /\ SubSeq(Piece(p, l), k + 1, l) = Piece(p + k, l - k)
  BY <1>2, PieceSplit
<1>6. inbox' = IF k = l THEN <<>> ELSE <<Piece(p + k, l - k)>>
  BY <1>3, <1>4, <1>5 DEF Remaining
<1>7. (k = l <=> ~(p + k < 3 + n)) /\ l - k = 3 + n - (p + k)
  BY <1>1, <1>2
<1>8. inbox' = IF p + k < 3 + n THEN <<Piece(p + k, 3 + n - (p + k))>> ELSE <<>>
  BY <1>6, <1>7
<1> QED
  BY <1>3, <1>5, <1>8 DEF LeftFrom

(* Where a piece has the blank line, and what follows it. *)
LEMMA OnlyBlank ==
  ASSUME NEW j \in Nat \ {0}
  PROVE  (At(j) = <<"crlf", 1>> <=> j = 2) /\ (At(j) = <<"crlf", 2>> <=> j = 3)
<1>1. CASE j > 3
  <2>1. At(j) = <<"data", j - 3>>
    BY <1>1, StreamAt
  <2> QED
    BY <1>1, <2>1
<1>2. CASE ~(j > 3)
  <2>1. j = 1 \/ j = 2 \/ j = 3
    BY <1>2
  <2> QED
    BY <2>1, StreamAt
<1> QED
  BY <1>1, <1>2

Ended(d) == \E i \in 1 .. Len(d) : d[i] = <<"crlf", 2>>

LEMMA BlankInPiece ==
  ASSUME NEW p \in Nat, NEW k \in Nat \ {0}, NEW d, d = Piece(p, k)
  PROVE  /\ BlankLines(d) # {} <=> p <= 1 /\ p + k >= 3
         /\ Ended(d) <=> p <= 2 /\ p + k >= 3
         /\ p <= 1 /\ p + k >= 3 => AfterBlank(d) = Datas(0, (p + k) - 3)
<1>1. d \in Seq(Units) /\ Len(d) = k /\ \A i \in 1 .. k : d[i] = At(p + i)
  BY PieceProperties
<1>2. \A i \in 1 .. k : /\ d[i] = <<"crlf", 1>> <=> p + i = 2
                        /\ d[i] = <<"crlf", 2>> <=> p + i = 3
  <2>1. \A i \in 1 .. k : p + i \in Nat \ {0}
    OBVIOUS
  <2> QED
    BY <1>1, <2>1, OnlyBlank
<1>3. \A i : i \in BlankLines(d) <=> i \in 1 .. k - 1 /\ p + i = 2
  <2>1. \A i : i \in BlankLines(d) <=> i \in 1 .. k - 1 /\ d[i] = <<"crlf", 1>> /\ d[i + 1] = <<"crlf", 2>>
    BY <1>1 DEF BlankLines
  <2>2. ASSUME NEW i \in 1 .. k - 1
        PROVE  d[i] = <<"crlf", 1>> /\ d[i + 1] = <<"crlf", 2>> <=> p + i = 2
    <3>1. i \in 1 .. k /\ i + 1 \in 1 .. k /\ (p + i = 2 => p + (i + 1) = 3)
      OBVIOUS
    <3>2. /\ d[i] = <<"crlf", 1>> <=> p + i = 2
          /\ d[i + 1] = <<"crlf", 2>> <=> p + (i + 1) = 3
      BY <1>2, <3>1
    <3> QED
      BY <3>1, <3>2
  <2> QED
    BY <2>1, <2>2
<1>4. BlankLines(d) # {} <=> p <= 1 /\ p + k >= 3
  <2>1. ASSUME p <= 1, p + k >= 3 PROVE BlankLines(d) # {}
    <3>1. 2 - p \in 1 .. k - 1 /\ p + (2 - p) = 2
      BY <2>1
    <3> QED
      BY <1>3, <3>1
  <2>2. ASSUME BlankLines(d) # {} PROVE p <= 1 /\ p + k >= 3
    <3>1. PICK i : i \in BlankLines(d)
      BY <2>2
    <3>2. i \in 1 .. k - 1 /\ p + i = 2
      BY <1>3, <3>1
    <3> QED
      BY <3>2
  <2> QED
    BY <2>1, <2>2
<1>5. Ended(d) <=> p <= 2 /\ p + k >= 3
  <2>1. ASSUME p <= 2, p + k >= 3 PROVE Ended(d)
    <3>1. 3 - p \in 1 .. k /\ p + (3 - p) = 3
      BY <2>1
    <3>2. d[3 - p] = <<"crlf", 2>>
      BY <1>2, <3>1
    <3> QED
      BY <1>1, <3>1, <3>2 DEF Ended
  <2>2. ASSUME Ended(d) PROVE p <= 2 /\ p + k >= 3
    <3>1. PICK i \in 1 .. k : d[i] = <<"crlf", 2>>
      BY <1>1, <2>2 DEF Ended
    <3>2. p + i = 3
      BY <1>2, <3>1
    <3> QED
      BY <3>2
  <2> QED
    BY <2>1, <2>2
<1>6. ASSUME p <= 1, p + k >= 3 PROVE AfterBlank(d) = Datas(0, (p + k) - 3)
  <2>1. PICK first : first = CHOOSE i \in BlankLines(d) : \A j \in BlankLines(d) : i <= j
    OBVIOUS
  <2>2. 2 - p \in 1 .. k - 1 /\ p + (2 - p) = 2 /\ 2 - p \in Int
    BY <1>6
  <2>3. 2 - p \in BlankLines(d)
    BY <1>3, <2>2
  <2>4. \A j \in BlankLines(d) : j = 2 - p
    BY <1>3
  <2>5. \E i \in BlankLines(d) : \A j \in BlankLines(d) : i <= j
    BY <2>2, <2>3, <2>4
  <2>6. first \in BlankLines(d)
    BY <2>1, <2>5
  <2>7. first = 2 - p
    BY <2>4, <2>6
  <2>8. AfterBlank(d) = SubSeq(d, first + 2, Len(d))
    BY <2>1 DEF AfterBlank
  <2>9. PICK c : c = 3 - p /\ c \in 0 .. k /\ first + 2 = c + 1 /\ p + c = 3 /\ k - c = (p + k) - 3
                 /\ k - c \in Nat
    BY <1>6, <2>7
  <2>10. SubSeq(Piece(p, k), c + 1, k) = Piece(p + c, k - c)
    BY <2>9, PieceSplit
  <2>11. Piece(0 + 3, k - c) = Datas(0, k - c)
    BY <2>9, PieceOfDatas
  <2>12. p + c = 0 + 3
    BY <2>9
  <2> QED
    BY <1>1, <2>8, <2>9, <2>10, <2>11, <2>12
<1> QED
  BY <1>4, <1>5, <1>6

(* What the reader of simple-obfs has to show of a step. *)
LEMMA ObfsStep ==
  ASSUME sent' \in Nat, message' = 1, buffer' = <<>>, stripped' \in BOOLEAN, mangled' \in BOOLEAN,
         NEW p \in 0 .. 3 + sent', LeftFrom(p)',
         ~stripped' /\ ~mangled' => p <= 2 /\ got' = <<>> /\ reader' # "eof",
         mangled' => p >= 3 /\ got' = <<>> /\ (stripped' => reader' = "eof"),
         stripped' /\ ~mangled' => p >= 3 /\ got' = Datas(0, p - 3),
         reader' = "eof" /\ ~mangled' => p = 3 + sent' /\ peer_closed'
  PROVE  ObfsInv'
<1>1. message' \in {0, 1} /\ message' # 0
  OBVIOUS
<1> QED
  BY <1>1 DEF ObfsInv

LEMMA ObfsInit == Init => ObfsInv
<1> SUFFICES ASSUME Init PROVE ObfsInv
  OBVIOUS
<1>1. /\ sent = 0 /\ message = 0 /\ buffer = <<>> /\ stripped = FALSE /\ mangled = FALSE
      /\ inbox = <<>> /\ got = <<>> /\ reader = "open"
  BY DEF Init
<1>2. message # 1 /\ message \in {0, 1} /\ sent \in Nat
  BY <1>1
<1> QED
  BY <1>1, <1>2 DEF ObfsInv

LEMMA ObfsResponds ==
  ASSUME ObfsInv, NEW n \in 0 .. MaxFrame, PeerResponds(n)
  PROVE  ObfsInv'
<1>1. /\ kind = "obfs" /\ message = 0 /\ message' = 1 /\ sent' = n /\ inbox' = << Response \o Datas(0, n) >>
      /\ UNCHANGED <<buffer, stripped, mangled, got, reader, peer_closed>> /\ n \in Nat
  BY DEF PeerResponds, readVars, obfsVars
<1>2. /\ buffer = <<>> /\ stripped = FALSE /\ mangled = FALSE /\ got = <<>> /\ reader # "eof"
  BY <1>1 DEF ObfsInv
<1>3. Piece(0, 3) \o Datas(0, n) = Piece(0, 3 + n)
  <2>1. 0 + 3 = 0 + 3 /\ 0 \in Nat /\ 3 \in Nat
    OBVIOUS
  <2>2. Grows(0, 3, 0, n)
    BY <1>1, <2>1, PieceGrows
  <2> QED
    BY <2>1, <2>2 DEF Grows
<1>4. inbox' = <<Piece(0, 3 + n)>>
  BY <1>1, <1>3, ResponsePiece
<1>5. LeftFrom(0)'
  <2>1. 0 < 3 + n /\ 3 + n - 0 = 3 + n
    BY <1>1
  <2> QED
    BY <1>1, <1>4, <2>1 DEF LeftFrom
<1>6. 0 \in 0 .. 3 + sent' /\ sent' \in Nat
  BY <1>1
<1>7. ~stripped' /\ ~mangled' /\ stripped' \in BOOLEAN /\ mangled' \in BOOLEAN /\ got' = <<>> /\ reader' # "eof"
      /\ buffer' = <<>>
  BY <1>1, <1>2
<1> QED
  BY <1>1, <1>5, <1>6, <1>7, ObfsStep

(* What simple-obfs' reader knows once the response is sent. *)
LEMMA ObfsKnows ==
  ASSUME ObfsInv, kind = "obfs", message = 1
  PROVE  /\ sent \in Nat /\ buffer = <<>> /\ stripped \in BOOLEAN /\ mangled \in BOOLEAN
         /\ \E p \in 0 .. 3 + sent :
              /\ LeftFrom(p)
              /\ ~stripped /\ ~mangled => p <= 2 /\ got = <<>> /\ reader # "eof"
              /\ mangled => p >= 3 /\ got = <<>> /\ (stripped => reader = "eof")
              /\ stripped /\ ~mangled => p >= 3 /\ got = Datas(0, p - 3)
              /\ reader = "eof" /\ ~mangled => p = 3 + sent /\ peer_closed
BY DEF ObfsInv

LEMMA ObfsSends ==
  ASSUME ObfsInv, kind = "obfs", NEW n \in 1 .. MaxFrame, PeerSends(n)
  PROVE  ObfsInv'
<1>1. /\ PeerMaySend /\ message = 1 /\ message' = 1 /\ sent' = sent + n /\ inbox' = <<Segment \o Datas(sent, n)>>
      /\ UNCHANGED <<buffer, stripped, mangled, got, reader, peer_closed>> /\ n \in Nat
  BY DEF PeerSends, Receive, readVars, obfsVars
<1>2. sent \in Nat /\ buffer = <<>> /\ stripped \in BOOLEAN /\ mangled \in BOOLEAN
  BY <1>1, ObfsKnows
<1>3. PICK p \in 0 .. 3 + sent :
        /\ LeftFrom(p)
        /\ ~stripped /\ ~mangled => p <= 2 /\ got = <<>> /\ reader # "eof"
        /\ mangled => p >= 3 /\ got = <<>> /\ (stripped => reader = "eof")
        /\ stripped /\ ~mangled => p >= 3 /\ got = Datas(0, p - 3)
        /\ reader = "eof" /\ ~mangled => p = 3 + sent /\ peer_closed
  BY <1>1, ObfsKnows
<1>4. PICK m, l : m = sent /\ l = (3 + m) - p
  OBVIOUS
<1>5. m \in Nat /\ p \in 0 .. 3 + m /\ p \in Nat /\ l \in Nat /\ p + l = m + 3 /\ l + n = 3 + sent' - p
      /\ p < 3 + sent' /\ p \in 0 .. 3 + sent' /\ sent' \in Nat
  BY <1>1, <1>2, <1>4, SMTT(30)
<1>6. Segment = Piece(p, l)
  BY <1>3, <1>4, <1>5, SegmentLeft
<1>7. Piece(p, l) \o Datas(m, n) = Piece(p, l + n)
  <2>1. p \in Nat /\ l \in Nat /\ n \in Nat /\ m \in Nat
    BY <1>1, <1>5
  <2>2. Grows(p, l, m, n)
    BY <2>1, PieceGrows
  <2> QED
    BY <1>5, <2>2 DEF Grows
<1>8. inbox' = <<Piece(p, 3 + sent' - p)>>
  BY <1>1, <1>4, <1>5, <1>6, <1>7
<1>9. LeftFrom(p)'
  BY <1>5, <1>8 DEF LeftFrom
<1>10. reader' = "eof" => mangled'
  BY <1>1, <1>3 DEF PeerMaySend
<1>11. /\ message' = 1 /\ buffer' = <<>> /\ stripped' \in BOOLEAN /\ mangled' \in BOOLEAN
       /\ ~stripped' /\ ~mangled' => p <= 2 /\ got' = <<>> /\ reader' # "eof"
       /\ mangled' => p >= 3 /\ got' = <<>> /\ (stripped' => reader' = "eof")
       /\ stripped' /\ ~mangled' => p >= 3 /\ got' = Datas(0, p - 3)
  BY <1>1, <1>2, <1>3
<1> QED
  BY <1>5, <1>9, <1>10, <1>11, ObfsStep

LEMMA ObfsStrips ==
  ASSUME ObfsInv, NEW k \in Nat \ {0}, ObfsStrip(k)
  PROVE  ObfsInv'
<1>1. PICK d : d = SubSeq(Segment, 1, k)
  OBVIOUS
<1>2. /\ kind = "obfs" /\ reader = "open" /\ ~stripped /\ k <= Len(Segment) /\ inbox' = Remaining(k)
      /\ stripped' = (BlankLines(d) # {})
      /\ got' = (IF BlankLines(d) # {} THEN got \o AfterBlank(d) ELSE got)
      /\ reader' = (IF BlankLines(d) # {} /\ AfterBlank(d) = <<>> THEN "eof" ELSE "open")
      /\ mangled' = (mangled \/ ((\E i \in 1 .. k : d[i] = <<"crlf", 2>>)
                                 /\ (BlankLines(d) = {} \/ AfterBlank(d) = <<>>)))
      /\ UNCHANGED <<sent, message, peer_closed, buffer>>
  BY <1>1 DEF ObfsStrip, Reading, peerVars
<1>3. message = 1
  <2>1. ASSUME message = 0 PROVE FALSE
    <3>1. Segment = <<>>
      BY <1>2, <2>1 DEF ObfsInv, Segment
    <3>2. Len(Segment) = 0
      BY <3>1, EmptySeq
    <3> QED
      BY <1>2, <3>2
  <2> QED
    BY <1>2, <2>1 DEF ObfsInv
<1>4. sent \in Nat /\ buffer = <<>> /\ stripped \in BOOLEAN /\ mangled \in BOOLEAN
  BY <1>2, <1>3, ObfsKnows
<1>5. PICK p \in 0 .. 3 + sent :
        /\ LeftFrom(p)
        /\ ~stripped /\ ~mangled => p <= 2 /\ got = <<>> /\ reader # "eof"
        /\ mangled => p >= 3 /\ got = <<>> /\ (stripped => reader = "eof")
  BY <1>2, <1>3, ObfsKnows
<1>6. PICK m, l : m = sent /\ l = (3 + m) - p
  OBVIOUS
<1>7. m \in Nat /\ p \in 0 .. 3 + m /\ p \in Nat /\ l \in Nat
  BY <1>4, <1>6
<1>8. Segment = Piece(p, l)
  BY <1>5, <1>6, <1>7, SegmentLeft
<1>9. Len(Segment) = l
  BY <1>7, <1>8, PieceProperties
<1>10. k \in 0 .. l /\ p + k \in 0 .. 3 + m /\ k \in Nat /\ p + k \in Nat
  BY <1>2, <1>6, <1>7, <1>9
<1>11. LeftFrom(p + k)' /\ d = Piece(p, k)
  <2>1. m = sent /\ sent' = sent /\ inbox' = Remaining(k) /\ LeftFrom(p) /\ k \in 0 .. (3 + m) - p
    BY <1>2, <1>5, <1>6, <1>10
  <2>2. LeftFrom(p + k)' /\ SubSeq(Segment, 1, k) = Piece(p, k)
    BY <1>7, <2>1, RemainingLeft
  <2> QED
    BY <1>1, <2>2
<1>12. PICK q : q = p + k
  OBVIOUS
<1>13. /\ BlankLines(d) # {} <=> p <= 1 /\ q >= 3
       /\ Ended(d) <=> p <= 2 /\ q >= 3
       /\ p <= 1 /\ q >= 3 => AfterBlank(d) = Datas(0, q - 3)
  BY <1>7, <1>11, <1>12, BlankInPiece
<1>14. Ended(d) <=> \E i \in 1 .. k : d[i] = <<"crlf", 2>>
  <2>1. Len(d) = k
    BY <1>7, <1>10, <1>11, PieceProperties
  <2> QED
    BY <2>1 DEF Ended
<1>15. /\ sent' \in Nat /\ message' = 1 /\ buffer' = <<>> /\ q \in 0 .. 3 + sent' /\ LeftFrom(q)' /\ q \in Nat
       /\ p < q /\ q # 3 /\ q >= 3 => q - 3 \in Nat /\ q - 3 # 0
  BY <1>2, <1>3, <1>4, <1>6, <1>7, <1>10, <1>11, <1>12
<1>16. CASE mangled
  <2>1. p >= 3 /\ got = <<>>
    BY <1>5, <1>16
  <2>2. BlankLines(d) = {} /\ q >= 3
    BY <1>7, <1>10, <1>12, <1>13, <2>1
  <2>3. ~stripped' /\ stripped' \in BOOLEAN /\ got' = <<>> /\ reader' = "open" /\ mangled' /\ mangled' \in BOOLEAN
    BY <1>2, <1>4, <1>16, <2>1, <2>2
  <2> QED
    BY <1>15, <2>2, <2>3, ObfsStep
<1>17. CASE ~mangled
  <2>1. p <= 2 /\ got = <<>>
    BY <1>2, <1>5, <1>17
  <2>2. CASE p <= 1 /\ q >= 3
    <3>1. BlankLines(d) # {} /\ Ended(d) /\ AfterBlank(d) = Datas(0, q - 3) /\ q - 3 \in Nat
      BY <1>13, <1>15, <2>2
    <3>2. Datas(0, q - 3) \in Seq(Units) /\ Len(Datas(0, q - 3)) = q - 3
      BY <3>1, DatasProperties
    <3>3. got' = Datas(0, q - 3) /\ stripped' = TRUE
      <4>1. <<>> \o Datas(0, q - 3) = Datas(0, q - 3)
        <5> HIDE DEF Units
        <5> QED
          BY <3>2, ConcatEmptySeq
      <4> QED
        BY <1>2, <2>1, <3>1, <4>1
    <3>4. CASE q = 3
      <4>1. Datas(0, q - 3) = <<>>
        BY <3>4, NoDatas
      <4>2. mangled' = TRUE /\ reader' = "eof" /\ got' = <<>>
        BY <1>2, <1>14, <3>1, <3>3, <4>1
      <4> QED
        BY <1>15, <2>2, <3>3, <4>2, ObfsStep
    <3>5. CASE q # 3
      <4>1. Datas(0, q - 3) # <<>>
        BY <1>15, <2>2, <3>2, <3>5, EmptySeq
      <4>2. mangled' = FALSE /\ reader' = "open"
        BY <1>2, <1>4, <1>17, <3>1, <4>1
      <4> QED
        BY <1>15, <2>2, <3>3, <4>2, ObfsStep
    <3> QED
      BY <3>4, <3>5
  <2>3. CASE p = 2
    <3>1. q >= 3
      BY <1>10, <1>12, <2>3
    <3>2. BlankLines(d) = {} /\ Ended(d)
      BY <1>13, <2>3, <3>1
    <3>3. stripped' = FALSE /\ got' = <<>> /\ reader' = "open" /\ mangled' = TRUE
      BY <1>2, <1>14, <2>1, <3>2
    <3> QED
      BY <1>15, <3>1, <3>3, ObfsStep
  <2>4. CASE p <= 1 /\ ~(q >= 3)
    <3>1. BlankLines(d) = {} /\ ~Ended(d) /\ q <= 2
      BY <1>13, <1>15, <2>4
    <3>2. stripped' = FALSE /\ got' = <<>> /\ reader' = "open" /\ mangled' = FALSE
      BY <1>2, <1>4, <1>14, <1>17, <2>1, <3>1
    <3> QED
      BY <1>15, <3>1, <3>2, ObfsStep
  <2>5. p <= 1 \/ p = 2
    BY <1>7, <2>1
  <2> QED
    BY <2>2, <2>3, <2>4, <2>5
<1> QED
  BY <1>16, <1>17

LEMMA ObfsReads ==
  ASSUME ObfsInv, NEW k \in Nat \ {0}, ObfsRead(k)
  PROVE  ObfsInv'
<1>2. /\ kind = "obfs" /\ reader = "open" /\ stripped /\ k <= Len(Segment) /\ inbox' = Remaining(k)
      /\ got' = got \o SubSeq(Segment, 1, k)
      /\ UNCHANGED <<sent, message, peer_closed, buffer, stripped, mangled, reader>>
  BY DEF ObfsRead, Reading, peerVars, obfsVars
<1>3. message = 1
  BY <1>2 DEF ObfsInv
<1>4. sent \in Nat /\ buffer = <<>> /\ stripped \in BOOLEAN /\ mangled \in BOOLEAN
  BY <1>2, <1>3, ObfsKnows
<1>5. PICK p \in 0 .. 3 + sent :
        /\ LeftFrom(p)
        /\ mangled => (stripped => reader = "eof")
        /\ stripped /\ ~mangled => p >= 3 /\ got = Datas(0, p - 3)
  BY <1>2, <1>3, ObfsKnows
<1>a. LeftFrom(p) /\ ~mangled /\ p >= 3 /\ got = Datas(0, p - 3)
  BY <1>2, <1>4, <1>5
<1>6. PICK m, l : m = sent /\ l = (3 + m) - p
  OBVIOUS
<1>7. m \in Nat /\ p \in 0 .. 3 + m /\ p \in Nat /\ l \in Nat
  BY <1>4, <1>6
<1>8. Segment = Piece(p, l)
  BY <1>a, <1>6, <1>7, SegmentLeft
<1>9. Len(Segment) = l
  BY <1>7, <1>8, PieceProperties
<1>10. k \in 0 .. l /\ p + k \in 0 .. 3 + m /\ k \in Nat /\ p + k \in Nat
  BY <1>2, <1>6, <1>7, <1>9
<1>11. LeftFrom(p + k)' /\ SubSeq(Segment, 1, k) = Piece(p, k)
  <2>1. m = sent /\ sent' = sent /\ inbox' = Remaining(k) /\ LeftFrom(p) /\ k \in 0 .. (3 + m) - p
    BY <1>2, <1>a, <1>6, <1>10
  <2> QED
    BY <1>7, <2>1, RemainingLeft
<1>12. PICK q, b : q = p + k /\ b = p - 3
  OBVIOUS
<1>13. b \in Nat /\ p = b + 3 /\ q - 3 = b + k /\ q >= 3
  BY <1>a, <1>7, <1>10, <1>12
<1>14. got' = Datas(0, q - 3)
  <2>1. Piece(b + 3, k) = Datas(b, k)
    BY <1>10, <1>13, PieceOfDatas
  <2>2. Datas(0, b) \o Datas(0 + b, k) = Datas(0, b + k)
    BY <1>10, <1>13, DatasConcat
  <2>3. 0 + b = b
    BY <1>13
  <2> QED
    BY <1>2, <1>a, <1>11, <1>12, <1>13, <2>1, <2>2, <2>3
<1>15. /\ sent' \in Nat /\ message' = 1 /\ buffer' = <<>> /\ q \in 0 .. 3 + sent' /\ LeftFrom(q)'
       /\ stripped' = TRUE /\ mangled' = FALSE /\ reader' # "eof"
  BY <1>2, <1>3, <1>4, <1>a, <1>6, <1>10, <1>11, <1>12
<1> QED
  BY <1>13, <1>14, <1>15, ObfsStep

LEMMA ObfsNext == ObfsInv /\ [Next]_vars => ObfsInv'
<1> SUFFICES ASSUME ObfsInv, [Next]_vars PROVE ObfsInv'
  OBVIOUS
<1>a. kind' = kind
  BY KindStays
<1>b. SUFFICES ASSUME kind = "obfs" PROVE ObfsInv'
  BY <1>a DEF ObfsInv
<1> DEFINE Kept == UNCHANGED <<kind, sent, message, inbox, got, buffer, stripped, mangled>>
<1>0. ASSUME Kept PROVE \A p : LeftFrom(p)' <=> LeftFrom(p)
  BY <1>0 DEF LeftFrom
<1>1. ASSUME Kept, reader' = reader, peer_closed' = peer_closed \/ peer_closed' = TRUE PROVE ObfsInv'
  BY <1>0, <1>1 DEF ObfsInv
<1>2. ASSUME NEW n \in 1 .. MaxOffer,
             \/ H2Write(n) \/ GrpcWrite(n) \/ WsWrite(n) \/ EarlyWrite(n) \/ ObfsFirst(n) \/ ObfsWrite(n)
      PROVE  ObfsInv'
  <2>1. Kept /\ reader' = reader /\ peer_closed' = peer_closed
    BY <1>2 DEF H2Write, GrpcWrite, WsWrite, EarlyWrite, ObfsFirst, ObfsWrite, peerVars, readVars, obfsVars
  <2> QED
    BY <1>1, <2>1
<1>3. CASE EarlyDone \/ EarlyFails \/ PeerReads \/ ReadEarly \/ PeerCloses
  <2>1. Kept /\ reader' = reader /\ (peer_closed' = peer_closed \/ peer_closed' = TRUE)
    BY <1>3 DEF EarlyDone, EarlyFails, PeerReads, ReadEarly, PeerCloses, peerVars, readVars, obfsVars
  <2> QED
    BY <1>1, <2>1
<1>4. ASSUME NEW room, ReadFrame(room) \/ GrpcRead(room) PROVE ObfsInv'
  BY <1>b, <1>4 DEF ReadFrame, GrpcRead
<1>5. CASE PeerPings \/ ReadPing
  BY <1>b, <1>5 DEF PeerPings, ReadPing
<1>6. ASSUME NEW t, NEW n, NEW k, PeerSendsGrpc(t, n, k) PROVE ObfsInv'
  BY <1>b, <1>6 DEF PeerSendsGrpc
<1>7. ASSUME NEW room, ReadBuffered(room) PROVE ObfsInv'
  BY <1>b, <1>7 DEF ReadBuffered, ObfsInv
<1>8. ASSUME NEW n \in 1 .. MaxFrame, PeerSends(n) PROVE ObfsInv'
  BY <1>b, <1>8, ObfsSends
<1>9. ASSUME NEW n \in 0 .. MaxFrame, PeerResponds(n) PROVE ObfsInv'
  BY <1>9, ObfsResponds
<1>10. ASSUME NEW k \in 1 .. Len(Response) + MaxRoom, ObfsStrip(k) \/ ObfsRead(k) PROVE ObfsInv'
  <2>1. k \in Nat \ {0}
    BY <1>10
  <2> QED
    BY <1>10, <2>1, ObfsStrips, ObfsReads
<1>11. CASE ReadEnd
  <2>1. /\ reader = "open" /\ buffer = <<>> /\ inbox = <<>> /\ peer_closed /\ stripped
        /\ reader' \in {"eof", "err"} /\ Kept /\ peer_closed' = peer_closed
    BY <1>b, <1>11 DEF ReadEnd, Reading, peerVars, obfsVars
  <2>2. message = 1
    BY <1>b, <2>1 DEF ObfsInv
  <2>3. sent \in Nat /\ stripped \in BOOLEAN /\ mangled \in BOOLEAN
    BY <1>b, <2>2, ObfsKnows
  <2>4. PICK p \in 0 .. 3 + sent :
          /\ LeftFrom(p)
          /\ mangled => (stripped => reader = "eof")
          /\ stripped /\ ~mangled => p >= 3 /\ got = Datas(0, p - 3)
    BY <1>b, <2>2, ObfsKnows
  <2>5. ~mangled /\ p >= 3 /\ got = Datas(0, p - 3)
    BY <2>1, <2>4
  <2>6. p = 3 + sent
    <3>1. ~(p < 3 + sent)
      BY <2>1, <2>4 DEF LeftFrom
    <3> QED
      BY <2>3, <3>1
  <2>7. LeftFrom(p)'
    BY <1>0, <2>1, <2>4
  <2>8. /\ sent' \in Nat /\ message' = 1 /\ buffer' = <<>> /\ stripped' = TRUE /\ mangled' = FALSE
        /\ p \in 0 .. 3 + sent' /\ p >= 3 /\ got' = Datas(0, p - 3) /\ p = 3 + sent' /\ peer_closed'
    BY <2>1, <2>2, <2>3, <2>4, <2>5, <2>6
  <2> QED
    BY <2>7, <2>8, ObfsStep
<1>12. CASE ObfsSpins
  <2>1. ~stripped /\ reader = "open" /\ reader' = "spin" /\ Kept /\ peer_closed' = peer_closed
    BY <1>12 DEF ObfsSpins, Reading, peerVars, obfsVars
  <2> QED
    BY <1>0, <2>1 DEF ObfsInv
<1>13. CASE UNCHANGED vars
  <2>1. Kept /\ reader' = reader /\ peer_closed' = peer_closed
    BY <1>13 DEF vars, peerVars, readVars, obfsVars
  <2> QED
    BY <1>1, <2>1
<1> QED
  BY <1>2, <1>3, <1>4, <1>5, <1>6, <1>7, <1>8, <1>9, <1>10, <1>11, <1>12, <1>13 DEF Next, Read

-----------------------------------------------------------------------------
(* What the invariants say of what was returned, for each reader.          *)
LEMMA FramesReturned ==
  ASSUME FramesInv, Plain PROVE ReadFaithful /\ EofIsComplete
<1>1. /\ sent \in Nat /\ Len(got) \in Nat /\ Len(buffer) \in Nat /\ got = Datas(0, Len(got))
      /\ reader = "eof" => inbox = <<>> /\ buffer = <<>>
  BY DEF FramesInv
<1>2. PICK f \in [0 .. Len(inbox) -> 0 .. sent] : Follow(f)
  BY DEF FramesInv
<1>3. f[0] = Len(got) + Len(buffer) /\ f[Len(inbox)] = sent
  BY <1>2 DEF Follow
<1>4. f[0] \in 0 .. sent
  <2>1. Len(inbox) \in Nat
    BY LenProperties DEF FramesInv
  <2>2. 0 \in 0 .. Len(inbox)
    BY <2>1
  <2> QED
    BY <2>2
<1>5. Len(got) <= sent
  BY <1>1, <1>3, <1>4
<1>6. ASSUME reader = "eof" PROVE Len(got) = sent
  <2>1. Len(inbox) = 0 /\ Len(buffer) = 0
    BY <1>1, <1>6, EmptySeq
  <2> QED
    BY <1>1, <1>3, <2>1
<1> QED
  BY <1>1, <1>5, <1>6 DEF ReadFaithful, EofIsComplete

LEMMA GrpcReturned ==
  ASSUME GrpcInv, kind = "grpc" PROVE ReadFaithful /\ EofIsComplete
<1>0. CASE packed /\ cramped
  BY <1>0 DEF ReadFaithful, EofIsComplete
<1>1. CASE ~(packed /\ cramped)
  <2>1. /\ sent \in Nat /\ Len(got) \in Nat /\ Len(buffer) \in Nat /\ got = Datas(0, Len(got))
        /\ reader = "eof" => bare \/ (inbox = <<>> /\ buffer = <<>>)
    BY <1>1 DEF GrpcInv
  <2>2. PICK f \in [0 .. Len(inbox) -> 0 .. sent] : \E m \in [0 .. Len(inbox) -> Nat] : FollowGrpc(f, m)
    BY <1>1 DEF GrpcInv
  <2>3. f[0] = Len(got) + Len(buffer) /\ f[Len(inbox)] = sent
    BY <2>2 DEF FollowGrpc
  <2>4. f[0] \in 0 .. sent
    <3>1. Len(inbox) \in Nat
      BY <1>1, LenProperties DEF GrpcInv
    <3>2. 0 \in 0 .. Len(inbox)
      BY <3>1
    <3> QED
      BY <3>2
  <2>5. Len(got) <= sent
    BY <2>1, <2>3, <2>4
  <2>6. ASSUME reader = "eof", ~bare PROVE Len(got) = sent
    <3>1. Len(inbox) = 0 /\ Len(buffer) = 0
      BY <2>1, <2>6, EmptySeq
    <3> QED
      BY <2>1, <2>3, <3>1
  <2> QED
    BY <2>1, <2>5, <2>6 DEF ReadFaithful, EofIsComplete
<1> QED
  BY <1>0, <1>1

LEMMA ObfsReturned ==
  ASSUME ObfsInv, kind = "obfs" PROVE ReadFaithful /\ EofIsComplete
<1>1. sent \in Nat /\ message \in {0, 1}
  BY DEF ObfsInv
<1>2. ASSUME got = <<>> PROVE Len(got) <= sent /\ got = Datas(0, Len(got))
  <2>1. Len(got) = 0
    BY <1>2, EmptySeq
  <2> QED
    BY <1>1, <1>2, <2>1, NoDatas
<1>3. CASE message = 0
  <2>1. got = <<>> /\ reader # "eof"
    BY <1>3 DEF ObfsInv
  <2> QED
    BY <1>2, <2>1 DEF ReadFaithful, EofIsComplete
<1>4. CASE message = 1
  <2>1. stripped \in BOOLEAN /\ mangled \in BOOLEAN
    BY <1>4, ObfsKnows
  <2>2. PICK p \in 0 .. 3 + sent :
          /\ ~stripped /\ ~mangled => p <= 2 /\ got = <<>> /\ reader # "eof"
          /\ mangled => p >= 3 /\ got = <<>> /\ (stripped => reader = "eof")
          /\ stripped /\ ~mangled => p >= 3 /\ got = Datas(0, p - 3)
          /\ reader = "eof" /\ ~mangled => p = 3 + sent /\ peer_closed
    BY <1>4, ObfsKnows
  <2>3. CASE mangled \/ ~stripped
    <3>1. got = <<>> /\ (mangled \/ reader # "eof")
      BY <2>1, <2>2, <2>3
    <3> QED
      BY <1>2, <3>1 DEF ReadFaithful, EofIsComplete
  <2>4. CASE ~mangled /\ stripped
    <3>1. p >= 3 /\ got = Datas(0, p - 3) /\ p - 3 \in Nat /\ p - 3 <= sent
          /\ (reader = "eof" => p - 3 = sent)
      BY <1>1, <2>2, <2>4
    <3>2. Len(Datas(0, p - 3)) = p - 3
      BY <3>1, DatasProperties
    <3> QED
      BY <3>1, <3>2 DEF ReadFaithful, EofIsComplete
  <2> QED
    BY <2>3, <2>4
<1> QED
  BY <1>1, <1>3, <1>4

LEMMA KindIsOne == Spec => [](kind \in Kinds)
<1>1. Init => kind \in Kinds
  BY DEF Init
<1>2. kind \in Kinds /\ [Next]_vars => (kind \in Kinds)'
  BY KindStays
<1> QED
  BY <1>1, <1>2, PTL DEF Spec

LEMMA AllReturned ==
  ASSUME kind \in Kinds, FramesInv, GrpcInv, ObfsInv PROVE ReadFaithful /\ EofIsComplete
<1>1. Plain \/ kind = "grpc" \/ kind = "obfs"
  BY TransportAssumption DEF Plain
<1> QED
  BY <1>1, FramesReturned, GrpcReturned, ObfsReturned

LEMMA ReadInvs == Spec => [](kind \in Kinds /\ FramesInv /\ GrpcInv /\ ObfsInv)
BY KindIsOne, FramesInit, FramesNext, GrpcInit, GrpcNext, ObfsInit, ObfsNext, PTL DEF Spec

(* Every transport's poll_read returns the peer's bytes in order, each     *)
(* once and nothing else, however frames, segments and read buffers are    *)
(* cut, but for gRPC when a frame with the end of one message and the head *)
(* of the next was larger than the reader's buffer.                        *)
THEOREM TransportReads == Spec => []ReadFaithful
BY ReadInvs, AllReturned, PTL

(* An end of file is reported only when every byte of the peer has been    *)
(* read, but for that gRPC stream, for one that was sent the head of a     *)
(* message alone in a frame, and for simple-obfs when a read of the        *)
(* response cut the blank line or ended with it.                           *)
THEOREM TransportEnds == Spec => []EofIsComplete
BY ReadInvs, AllReturned, PTL

=============================================================================
