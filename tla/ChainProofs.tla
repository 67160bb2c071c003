---------------------------- MODULE ChainProofs ----------------------------
(***************************************************************************)
(* Proofs that the layers of a chain nest and that data visits the servers *)
(* of the chain in order, for chains of every length.                      *)
(***************************************************************************)
EXTENDS Chain, FiniteSetTheorems, SequenceTheorems, WellFoundedInduction, TLAPS

(* What has 0 and, with n, n + 1 has every natural number.                 *)
LEMMA SetInduction ==
  ASSUME NEW T, 0 \in T, \A n \in Nat : n \in T => n + 1 \in T
  PROVE  Nat \subseteq T
<1> DEFINE Less    == {ss \in Nat \X Nat : ss[1] < ss[2]}
           Missing == {n \in Nat : n \notin T}
<1>1. IsWellFoundedOn(Less, Nat)
  BY NatLessThanWellFounded DEF OpToRel
<1>2. SUFFICES ASSUME Missing # {} PROVE FALSE
  OBVIOUS
<1>3. PICK x \in Missing : \A y \in Missing : ~(<<y, x>> \in Less)
  <2>1. Missing \subseteq Nat
    OBVIOUS
  <2> HIDE DEF Missing, Less
  <2> QED
    BY <1>1, <1>2, <2>1, WFMin
<1>4. x # 0 /\ x \in Nat /\ x - 1 \in Nat /\ x - 1 < x
  OBVIOUS
<1>5. x - 1 \in Missing
  BY <1>4
<1>6. <<x - 1, x>> \in Less
  BY <1>4
<1> QED
  BY <1>3, <1>5, <1>6

-----------------------------------------------------------------------------
(* What Present returns.                                                   *)

Step(s, F, i) ==
  IF i = 0 THEN <<>> ELSE IF s[i] = NoAddr THEN F[i - 1] ELSE Append(F[i - 1], s[i])

(* The recursive function of Present exists.                               *)
LEMMA StepExists ==
  ASSUME NEW s, NEW n \in Nat
  PROVE  \E F : F = [i \in 0 .. n |-> Step(s, F, i)]
<1> DEFINE T == {m \in Nat : \E F : F = [i \in 0 .. m |-> Step(s, F, i)]}
<1>1. 0 \in T
  <2>1. [i \in 0 .. 0 |-> <<>>] = [i \in 0 .. 0 |-> Step(s, [j \in 0 .. 0 |-> <<>>], i)]
    BY DEF Step
  <2> QED
    BY <2>1
<1>2. ASSUME NEW m \in Nat, m \in T PROVE m + 1 \in T
  <2>1. PICK F : F = [i \in 0 .. m |-> Step(s, F, i)]
    BY <1>2
  <2> DEFINE G == [i \in 0 .. m + 1 |-> IF i <= m THEN F[i] ELSE Step(s, F, i)]
  <2>2. ASSUME NEW i \in 0 .. m + 1 PROVE G[i] = Step(s, G, i)
    <3>1. i = 0 \/ G[i - 1] = F[i - 1]
      OBVIOUS
    <3>2. G[i] = Step(s, F, i)
      BY <2>1
    <3> QED
      BY <3>1, <3>2 DEF Step
  <2>3. G = [i \in 0 .. m + 1 |-> Step(s, G, i)]
    <3>1. G = [i \in 0 .. m + 1 |-> G[i]]
      OBVIOUS
    <3> HIDE DEF G
    <3> QED
      BY <2>2, <3>1
  <2> HIDE DEF G
  <2> QED
    BY <2>3
<1> HIDE DEF T
<1>3. n \in T
  BY <1>1, <1>2, SetInduction
<1> QED
  BY <1>3 DEF T

LEMMA PresentIsStep ==
  ASSUME NEW s, Len(s) \in Nat
  PROVE  \E F : F = [i \in 0 .. Len(s) |-> Step(s, F, i)] /\ Present(s) = F[Len(s)]
<1> DEFINE F == CHOOSE F : F = [i \in 0 .. Len(s) |-> IF i = 0 THEN <<>>
        ELSE IF s[i] = NoAddr THEN F[i - 1] ELSE Append(F[i - 1], s[i])]
<1>1. PICK G : G = [i \in 0 .. Len(s) |-> Step(s, G, i)]
  BY StepExists
<1>2. G = [i \in 0 .. Len(s) |-> IF i = 0 THEN <<>>
        ELSE IF s[i] = NoAddr THEN G[i - 1] ELSE Append(G[i - 1], s[i])]
  BY <1>1, Zenon DEF Step
<1>3. F = [i \in 0 .. Len(s) |-> IF i = 0 THEN <<>>
        ELSE IF s[i] = NoAddr THEN F[i - 1] ELSE Append(F[i - 1], s[i])]
  BY <1>2, Zenon
<1>4. Present(s) = F[Len(s)]
  BY Zenon DEF Present
<1> QED
  BY <1>3, <1>4, Zenon DEF Step

LEMMA PresentEmpty == Present(<<>>) = <<>>
<1>1. Len(<<>>) = 0
  OBVIOUS
<1>2. PICK F : F = [i \in 0 .. 0 |-> Step(<<>>, F, i)] /\ Present(<<>>) = F[0]
  BY <1>1, PresentIsStep
<1> QED
  BY <1>2 DEF Step

(* One more element: an address is appended, None is not.                  *)
LEMMA PresentAppend ==
  ASSUME NEW S, NEW s \in Seq(S), NEW x \in S
  PROVE  Present(Append(s, x)) = IF x = NoAddr THEN Present(s) ELSE Append(Present(s), x)
<1> DEFINE t == Append(s, x)
           n == Len(s)
<1>1. n \in Nat /\ Len(t) = n + 1 /\ t[n + 1] = x /\ \A i \in 1 .. n : t[i] = s[i]
  BY AppendProperties
<1> HIDE DEF t, n
<1>2. PICK F : F = [i \in 0 .. n |-> Step(s, F, i)] /\ Present(s) = F[n]
  BY <1>1, PresentIsStep DEF n
<1>3. PICK G : G = [i \in 0 .. n + 1 |-> Step(t, G, i)] /\ Present(t) = G[n + 1]
  BY <1>1, PresentIsStep
<1> DEFINE T == {i \in Nat : i <= n => G[i] = F[i]}
<1>4. 0 \in T
  BY <1>1, <1>2, <1>3 DEF Step
<1>5. ASSUME NEW i \in Nat, i \in T PROVE i + 1 \in T
  <2>1. CASE i + 1 <= n
    <3>1. G[i] = F[i] /\ t[i + 1] = s[i + 1]
      BY <1>1, <1>5, <2>1
    <3>2. i + 1 \in 0 .. n /\ i + 1 \in 0 .. n + 1 /\ (i + 1) - 1 = i /\ i + 1 # 0
      BY <1>1, <2>1
    <3>3. F[i + 1] = Step(s, F, i + 1)
      BY <1>2, <3>2
    <3>4. G[i + 1] = Step(t, G, i + 1)
      BY <1>3, <3>2
    <3>5. G[i + 1] = F[i + 1]
      BY <3>1, <3>2, <3>3, <3>4 DEF Step
    <3> QED
      BY <3>5
  <2>2. CASE ~(i + 1 <= n)
    BY <2>2
  <2> QED
    BY <2>1, <2>2
<1> HIDE DEF T
<1>6. n \in T
  BY <1>1, <1>4, <1>5, SetInduction
<1>7. G[n] = F[n]
  BY <1>1, <1>6 DEF T
<1>8. n + 1 \in 0 .. n + 1 /\ (n + 1) - 1 = n /\ n + 1 # 0
  BY <1>1
<1>9. G[n + 1] = Step(t, G, n + 1)
  BY <1>3, <1>8
<1>10. G[n + 1] = IF x = NoAddr THEN F[n] ELSE Append(F[n], x)
  BY <1>1, <1>7, <1>8, <1>9 DEF Step
<1> QED
  BY <1>2, <1>3, <1>10 DEF t

LEMMA PresentType ==
  ASSUME NEW S, NEW s \in Seq(S \cup {NoAddr}), NoAddr \notin S
  PROVE  Present(s) \in Seq(S)
<1> DEFINE n == Len(s)
<1>1. n \in Nat /\ \A i \in 1 .. n : s[i] \in S \cup {NoAddr}
  OBVIOUS
<1> HIDE DEF n
<1>2. PICK F : F = [i \in 0 .. n |-> Step(s, F, i)] /\ Present(s) = F[n]
  BY <1>1, PresentIsStep DEF n
<1> DEFINE T == {i \in Nat : i <= n => F[i] \in Seq(S)}
<1>3. 0 \in T
  BY <1>1, <1>2 DEF Step
<1>4. ASSUME NEW i \in Nat, i \in T PROVE i + 1 \in T
  <2>1. CASE i + 1 <= n
    <3>1. F[i] \in Seq(S) /\ s[i + 1] \in S \cup {NoAddr}
      BY <1>1, <1>4, <2>1
    <3>2. F[i + 1] = Step(s, F, i + 1)
      BY <1>1, <1>2, <2>1, SMTT(30)
    <3>3. F[i + 1] \in Seq(S)
      BY <3>1, <3>2, AppendProperties DEF Step
    <3> QED
      BY <3>3
  <2>2. CASE ~(i + 1 <= n)
    BY <2>2
  <2> QED
    BY <2>1, <2>2
<1> HIDE DEF T
<1>5. n \in T
  BY <1>1, <1>3, <1>4, SetInduction
<1> QED
  BY <1>1, <1>2, <1>5 DEF T

-----------------------------------------------------------------------------
(* How the addresses of a chain are asked for, entry by entry.             *)

IsServer(ch, i) == Proto[ch[i]] \in Addressed

LEMMA AddrsType ==
  ASSUME NEW ch \in Seq(Tags) PROVE Addrs(ch) \in Seq(Tags)
<1> DEFINE s == [i \in 1 .. Len(ch) |-> GetAddr(ch[i])]
<1>1. s \in Seq(Tags \cup {NoAddr})
  BY DEF GetAddr
<1>2. NoAddr \notin Tags
  BY ChainAssumption
<1> HIDE DEF s
<1>3. Present(s) \in Seq(Tags)
  BY <1>1, <1>2, PresentType
<1> QED
  BY <1>3 DEF Addrs, s

LEMMA AddrsAppend ==
  ASSUME NEW ch \in Seq(Tags), NEW t \in Tags
  PROVE  Addrs(Append(ch, t)) = IF Proto[t] \in Addressed THEN Append(Addrs(ch), t) ELSE Addrs(ch)
<1> DEFINE s == [i \in 1 .. Len(ch) |-> GetAddr(ch[i])]
           r == [i \in 1 .. Len(Append(ch, t)) |-> GetAddr(Append(ch, t)[i])]
<1>1. s \in Seq(Tags \cup {NoAddr}) /\ GetAddr(t) \in Tags \cup {NoAddr}
  BY DEF GetAddr
<1>2. /\ Len(ch) \in Nat /\ Len(Append(ch, t)) = Len(ch) + 1
      /\ Append(ch, t)[Len(ch) + 1] = t
      /\ \A i \in 1 .. Len(ch) : Append(ch, t)[i] = ch[i]
  BY AppendProperties
<1>3. r = Append(s, GetAddr(t))
  <2>1. Len(s) = Len(ch) /\ \A i \in 1 .. Len(ch) : s[i] = GetAddr(ch[i])
    OBVIOUS
  <2> HIDE DEF s
  <2>2. /\ Append(s, GetAddr(t)) \in Seq(Tags \cup {NoAddr})
        /\ Len(Append(s, GetAddr(t))) = Len(ch) + 1
        /\ Append(s, GetAddr(t))[Len(ch) + 1] = GetAddr(t)
        /\ \A i \in 1 .. Len(ch) : Append(s, GetAddr(t))[i] = s[i]
    BY <1>1, <2>1, AppendProperties
  <2>3. /\ r \in Seq(Tags \cup {NoAddr}) /\ Len(r) = Len(ch) + 1
        /\ \A i \in 1 .. Len(ch) + 1 : r[i] = Append(s, GetAddr(t))[i]
    <3>1. ASSUME NEW i \in 1 .. Len(ch) + 1
          PROVE  GetAddr(Append(ch, t)[i]) = Append(s, GetAddr(t))[i]
      BY <1>2, <2>1, <2>2
    <3>2. \A i \in 1 .. Len(ch) + 1 : Append(s, GetAddr(t))[i] \in Tags \cup {NoAddr}
      BY <2>2, ElementOfSeq
    <3>3. \A i \in 1 .. Len(ch) + 1 : GetAddr(Append(ch, t)[i]) \in Tags \cup {NoAddr}
      BY <3>1, <3>2
    <3>4. r = [i \in 1 .. Len(ch) + 1 |-> GetAddr(Append(ch, t)[i])]
      BY <1>2
    <3> HIDE DEF r
    <3>5. r \in Seq(Tags \cup {NoAddr}) /\ Len(r) = Len(ch) + 1
      BY <1>2, <3>3, <3>4
    <3> QED
      BY <3>1, <3>4, <3>5
  <2> HIDE DEF r
  <2> QED
    BY <2>2, <2>3, SeqEqual
<1> HIDE DEF s
<1>4. Addrs(ch) = Present(s) /\ Addrs(Append(ch, t)) = Present(r)
  BY DEF Addrs, s
<1>5. GetAddr(t) = (IF Proto[t] \in Addressed THEN t ELSE NoAddr) /\ t # NoAddr
  BY ChainAssumption DEF GetAddr
<1>6. Present(r) = IF GetAddr(t) = NoAddr THEN Present(s) ELSE Append(Present(s), GetAddr(t))
  BY <1>1, <1>3, PresentAppend, ZenonT(40)
<1> QED
  BY <1>4, <1>5, <1>6

LEMMA AskedStep ==
  ASSUME NEW ch \in Seq(Tags)
  PROVE  /\ \A i \in 0 .. Len(ch) : Asked(ch, i) \in Nat
         /\ Asked(ch, 0) = 0
         /\ Asked(ch, Len(ch)) = Len(Addrs(ch))
         /\ \A i \in 1 .. Len(ch) :
              Asked(ch, i) = IF IsServer(ch, i) THEN Asked(ch, i - 1) + 1 ELSE Asked(ch, i - 1)
<1>1. \A i \in 0 .. Len(ch) : SubSeq(ch, 1, i) \in Seq(Tags)
  OBVIOUS
<1>2. \A i \in 0 .. Len(ch) : Asked(ch, i) \in Nat
  BY <1>1, AddrsType DEF Asked
<1>3. Asked(ch, 0) = 0
  <2>1. SubSeq(ch, 1, 0) = <<>>
    BY SubSeqEmpty
  <2>2. [i \in 1 .. Len(<<>>) |-> GetAddr(<<>>[i])] = <<>>
    OBVIOUS
  <2>3. Addrs(<<>>) = <<>>
    BY <2>2, PresentEmpty DEF Addrs
  <2>4. Len(<<>>) = 0
    OBVIOUS
  <2> QED
    BY <2>1, <2>3, <2>4, Zenon DEF Asked
<1>4. Asked(ch, Len(ch)) = Len(Addrs(ch))
  <2>1. SubSeq(ch, 1, Len(ch)) = ch
    BY SubSeqFull
  <2> QED
    BY <2>1 DEF Asked
<1>5. ASSUME NEW i \in 1 .. Len(ch)
      PROVE  Asked(ch, i) = IF IsServer(ch, i) THEN Asked(ch, i - 1) + 1 ELSE Asked(ch, i - 1)
  <2>1. SubSeq(ch, 1, i) = Append(SubSeq(ch, 1, i - 1), ch[i])
    BY SubSeqRecursiveSecond
  <2>2. ch[i] \in Tags /\ SubSeq(ch, 1, i - 1) \in Seq(Tags)
    BY <1>1
  <2> DEFINE p == SubSeq(ch, 1, i - 1)
  <2> HIDE DEF p
  <2>3. Addrs(Append(p, ch[i])) = IF IsServer(ch, i) THEN Append(Addrs(p), ch[i]) ELSE Addrs(p)
    BY <2>2, AddrsAppend DEF p, IsServer
  <2>4. Addrs(p) \in Seq(Tags)
    BY <2>2, AddrsType DEF p
  <2>5. Len(Append(Addrs(p), ch[i])) = Len(Addrs(p)) + 1
    BY <2>4, <2>2, AppendProperties
  <2> QED
    BY <2>1, <2>3, <2>5 DEF p, Asked
<1> QED
  BY <1>2, <1>3, <1>4, <1>5

LEMMA AskedGrows ==
  ASSUME NEW ch \in Seq(Tags), NEW i \in 0 .. Len(ch), NEW j \in i .. Len(ch)
  PROVE  Asked(ch, i) <= Asked(ch, j)
<1> DEFINE T == {d \in Nat : i + d <= Len(ch) => Asked(ch, i) <= Asked(ch, i + d)}
<1>0. i \in Nat /\ j \in Nat /\ Len(ch) \in Nat /\ Asked(ch, i) \in Nat
  BY AskedStep
<1>1. 0 \in T
  BY <1>0
<1>2. ASSUME NEW d \in Nat, d \in T PROVE d + 1 \in T
  <2>1. CASE i + (d + 1) <= Len(ch)
    <3>1. /\ i + d \in 0 .. Len(ch) /\ i + (d + 1) \in 1 .. Len(ch) /\ (i + (d + 1)) - 1 = i + d
          /\ i + (d + 1) \in 0 .. Len(ch)
      BY <1>0, <2>1
    <3>2. Asked(ch, i) <= Asked(ch, i + d)
      BY <1>2, <3>1
    <3>3. Asked(ch, i + d) \in Nat /\ Asked(ch, i + (d + 1)) \in Nat
      BY <3>1, AskedStep
    <3>4. \/ Asked(ch, i + (d + 1)) = Asked(ch, i + d) + 1
          \/ Asked(ch, i + (d + 1)) = Asked(ch, i + d)
      BY <3>1, AskedStep
    <3>5. Asked(ch, i) <= Asked(ch, i + (d + 1))
      BY <1>0, <3>2, <3>3, <3>4
    <3> QED
      BY <3>5
  <2>2. CASE ~(i + (d + 1) <= Len(ch))
    BY <2>2
  <2> QED
    BY <2>1, <2>2
<1> HIDE DEF T
<1>3. j - i \in T
  BY <1>0, <1>1, <1>2, SetInduction
<1>4. j - i \in Nat /\ i + (j - i) = j
  BY <1>0
<1> QED
  BY <1>0, <1>3, <1>4 DEF T

(* An entry becomes the last builder when all addresses were asked for.    *)
LEMMA IsLastMeans ==
  ASSUME NEW ch \in Seq(Tags), NEW i \in 1 .. Len(ch)
  PROVE  /\ IsLast(ch, i) <=> IsServer(ch, i) /\ Asked(ch, i) = Len(Addrs(ch))
         /\ NextAddr(ch, i) \in Tags \cup {NoAddr}
         /\ NextAddr(ch, i) # NoAddr <=> IsServer(ch, i) /\ Asked(ch, i) < Len(Addrs(ch))
<1>1. Addrs(ch) \in Seq(Tags) /\ Len(Addrs(ch)) \in Nat /\ NoAddr \notin Tags
  BY AddrsType, ChainAssumption
<1>2. Asked(ch, i) \in Nat
  BY AskedStep
<1>3. Asked(ch, i) <= Len(Addrs(ch))
  <2>1. i \in 0 .. Len(ch) /\ Len(ch) \in i .. Len(ch)
    OBVIOUS
  <2>2. Asked(ch, Len(ch)) = Len(Addrs(ch))
    BY AskedStep
  <2> QED
    BY <2>1, <2>2, AskedGrows
<1>4. ASSUME Asked(ch, i) < Len(Addrs(ch))
      PROVE  Addrs(ch)[Asked(ch, i) + 1] \in Tags
  <2>1. Asked(ch, i) + 1 \in 1 .. Len(Addrs(ch))
    BY <1>1, <1>2, <1>4
  <2> QED
    BY <1>1, <2>1, ElementOfSeq
<1> QED
  BY <1>1, <1>2, <1>3, <1>4 DEF IsLast, NextAddr, IsServer

(* There is a last builder when the chain has a server; it is the last of  *)
(* them, and all that follow leave the addresses alone.                    *)
LEMMA LastServer ==
  ASSUME NEW ch \in Seq(Tags)
  PROVE  /\ HasLast(ch) <=> Addrs(ch) # <<>>
         /\ ~HasLast(ch) => \A i \in 1 .. Len(ch) : ~IsServer(ch, i)
         /\ HasLast(ch) => /\ LastEntry(ch) \in 1 .. Len(ch)
                           /\ IsServer(ch, LastEntry(ch))
                           /\ \A i \in 0 .. LastEntry(ch) - 1 : Asked(ch, i) < Len(Addrs(ch))
                           /\ \A i \in LastEntry(ch) .. Len(ch) : Asked(ch, i) = Len(Addrs(ch))
                           /\ \A i \in LastEntry(ch) + 1 .. Len(ch) : ~IsServer(ch, i)
<1> DEFINE n == Len(ch)
           a == Len(Addrs(ch))
<1>1. Addrs(ch) \in Seq(Tags) /\ a \in Nat /\ n \in Nat
  BY AddrsType
<1>2. Addrs(ch) = <<>> <=> a = 0
  BY <1>1
<1>3. /\ \A i \in 0 .. n : Asked(ch, i) \in Nat
      /\ Asked(ch, 0) = 0 /\ Asked(ch, n) = a
      /\ \A i \in 1 .. n :
           Asked(ch, i) = IF IsServer(ch, i) THEN Asked(ch, i - 1) + 1 ELSE Asked(ch, i - 1)
  BY AskedStep
<1>4. \A i \in 0 .. n : \A j \in i .. n : Asked(ch, i) <= Asked(ch, j)
  BY AskedGrows
<1>5. \A i \in 1 .. n : IsLast(ch, i) <=> IsServer(ch, i) /\ Asked(ch, i) = a
  BY IsLastMeans
<1> HIDE DEF n, a
<1>6. ASSUME NEW i \in 1 .. n, IsServer(ch, i) PROVE Asked(ch, i) > 0 /\ a > 0
  <2>1. i - 1 \in 0 .. n /\ n \in i .. n /\ i \in 0 .. n
    BY <1>1
  <2>2. Asked(ch, i) = Asked(ch, i - 1) + 1
    BY <1>3, <1>6
  <2>3. Asked(ch, i) <= Asked(ch, n)
    BY <1>4, <2>1
  <2> QED
    BY <1>1, <1>3, <2>1, <2>2, <2>3
<1>7. ASSUME a > 0 PROVE \E i \in 1 .. n : IsServer(ch, i) /\ Asked(ch, i) = a
  <2> DEFINE T == {i \in Nat : i <= n => Asked(ch, i) < a}
  <2>1. SUFFICES ASSUME \A i \in 1 .. n : ~(IsServer(ch, i) /\ Asked(ch, i) = a)
                 PROVE  FALSE
    OBVIOUS
  <2>2. 0 \in T
    BY <1>3, <1>7
  <2>3. ASSUME NEW i \in Nat, i \in T PROVE i + 1 \in T
    <3>1. CASE i + 1 <= n
      <4>1. /\ i + 1 \in 1 .. n /\ i \in 0 .. n /\ i + 1 \in 0 .. n /\ (i + 1) - 1 = i
            /\ Asked(ch, i) < a
        BY <1>1, <2>3, <3>1
      <4>2. /\ Asked(ch, i + 1) = IF IsServer(ch, i + 1) THEN Asked(ch, i) + 1 ELSE Asked(ch, i)
            /\ Asked(ch, i) \in Nat
        BY <1>3, <4>1
      <4>3. ~(IsServer(ch, i + 1) /\ Asked(ch, i + 1) = a)
        BY <2>1, <4>1
      <4>4. Asked(ch, i + 1) < a
        BY <1>1, <4>1, <4>2, <4>3
      <4> QED
        BY <4>4
    <3>2. CASE ~(i + 1 <= n)
      BY <3>2
    <3> QED
      BY <3>1, <3>2
  <2> HIDE DEF T
  <2>4. n \in T
    BY <1>1, <2>2, <2>3, SetInduction
  <2> QED
    BY <1>1, <1>3, <2>4 DEF T
<1>8. HasLast(ch) <=> a > 0
  BY <1>5, <1>6, <1>7 DEF HasLast, n
<1>9. ASSUME HasLast(ch)
      PROVE  /\ LastEntry(ch) \in 1 .. n /\ IsServer(ch, LastEntry(ch))
             /\ Asked(ch, LastEntry(ch)) = a
  <2>1. LastEntry(ch) \in 1 .. n /\ IsLast(ch, LastEntry(ch))
    BY <1>9, Zenon DEF HasLast, LastEntry, n
  <2> QED
    BY <1>5, <2>1
<1>10. ASSUME HasLast(ch), NEW i \in 0 .. LastEntry(ch) - 1 PROVE Asked(ch, i) < a
  <2> DEFINE l == LastEntry(ch)
  <2>1. l \in 1 .. n /\ IsServer(ch, l) /\ Asked(ch, l) = a
    BY <1>9, <1>10
  <2> HIDE DEF l
  <2>2. i \in 0 .. n /\ l - 1 \in i .. n /\ l - 1 \in 0 .. n
    BY <1>1, <1>10, <2>1 DEF l
  <2>3. Asked(ch, i) <= Asked(ch, l - 1) /\ Asked(ch, l) = Asked(ch, l - 1) + 1
    BY <1>3, <1>4, <2>1, <2>2
  <2> QED
    BY <1>1, <1>3, <2>1, <2>2, <2>3
<1>11. ASSUME HasLast(ch), NEW i \in LastEntry(ch) .. n PROVE Asked(ch, i) = a
  <2> DEFINE l == LastEntry(ch)
  <2>1. l \in 1 .. n /\ Asked(ch, l) = a
    BY <1>9, <1>11
  <2> HIDE DEF l
  <2>2. l \in 0 .. n /\ i \in l .. n /\ i \in 0 .. n /\ n \in i .. n
    BY <1>1, <1>11, <2>1 DEF l
  <2>3. a <= Asked(ch, i) /\ Asked(ch, i) <= a
    BY <1>3, <1>4, <2>1, <2>2
  <2> QED
    BY <1>1, <1>3, <2>2, <2>3
<1>12. ASSUME HasLast(ch), NEW i \in LastEntry(ch) + 1 .. n PROVE ~IsServer(ch, i)
  <2> DEFINE l == LastEntry(ch)
  <2>1. l \in 1 .. n
    BY <1>9, <1>12
  <2>2. i \in l .. n /\ i - 1 \in l .. n /\ i \in 1 .. n
    BY <1>1, <1>12, <2>1
  <2>3. Asked(ch, i) = a /\ Asked(ch, i - 1) = a
    BY <1>11, <1>12, <2>2
  <2> QED
    BY <1>1, <1>3, <2>2, <2>3
<1>13. ASSUME ~HasLast(ch), NEW i \in 1 .. n PROVE ~IsServer(ch, i)
  BY <1>1, <1>6, <1>8, <1>13
<1>14. HasLast(ch) <=> Addrs(ch) # <<>>
  BY <1>1, <1>2, <1>8
<1> QED
  BY <1>9, <1>10, <1>11, <1>12, <1>13, <1>14, Zenon DEF n, a

-----------------------------------------------------------------------------
(* The fields of ChainStreamBuilder.                                       *)

BuilderSet == [proto : ProtocolType, addr : Tags \cup {NoAddr}]

LEMMA EntryFacts ==
  ASSUME NEW ch \in Seq(Tags), NEW j \in 1 .. Len(Builders(ch))
  PROVE  /\ Len(Builders(ch)) = Len(ch) - (IF HasLast(ch) THEN 1 ELSE 0)
         /\ EntryOf(ch, j) \in 1 .. Len(ch)
         /\ Builders(ch)[j].proto = Proto[ch[EntryOf(ch, j)]]
         /\ Builders(ch)[j].addr = NextAddr(ch, EntryOf(ch, j))
<1>1. HasLast(ch) => LastEntry(ch) \in 1 .. Len(ch)
  BY LastServer
<1>2. Len(Builders(ch)) = Len(ch) - (IF HasLast(ch) THEN 1 ELSE 0)
  BY <1>1 DEF Builders
<1>3. EntryOf(ch, j) \in 1 .. Len(ch)
  BY <1>1, <1>2 DEF EntryOf
<1>4. Builders(ch)[j] = Builder(Proto[ch[EntryOf(ch, j)]], NextAddr(ch, EntryOf(ch, j)))
  BY <1>2 DEF Builders
<1> QED
  BY <1>2, <1>3, <1>4 DEF Builder

LEMMA BuildersType ==
  ASSUME NEW ch \in Seq(Tags)
  PROVE  /\ Builders(ch) \in Seq(BuilderSet)
         /\ Len(Builders(ch)) = Len(ch) - (IF HasLast(ch) THEN 1 ELSE 0)
         /\ Len(Builders(ch)) \in Nat
         /\ LastBuilder(ch) \in Addressed \cup {"None"}
         /\ LastBuilder(ch) = "None" <=> ~HasLast(ch)
<1>1. HasLast(ch) => LastEntry(ch) \in 1 .. Len(ch) /\ IsServer(ch, LastEntry(ch))
  BY LastServer
<1> DEFINE n == Len(ch) - (IF HasLast(ch) THEN 1 ELSE 0)
<1>2. n \in Nat
  BY <1>1
<1>3. ASSUME NEW j \in 1 .. n
      PROVE  Builder(Proto[ch[EntryOf(ch, j)]], NextAddr(ch, EntryOf(ch, j))) \in BuilderSet
  <2>1. EntryOf(ch, j) \in 1 .. Len(ch)
    BY <1>1, <1>2, <1>3 DEF EntryOf
  <2>2. NextAddr(ch, EntryOf(ch, j)) \in Tags \cup {NoAddr}
    BY <2>1, IsLastMeans
  <2>3. ch[EntryOf(ch, j)] \in Tags
    BY <2>1
  <2>4. Proto[ch[EntryOf(ch, j)]] \in ProtocolType
    BY <2>3, ChainAssumption
  <2> QED
    BY <2>2, <2>4 DEF Builder, BuilderSet
<1>4. Builders(ch) = [j \in 1 .. n |-> Builder(Proto[ch[EntryOf(ch, j)]], NextAddr(ch, EntryOf(ch, j)))]
  BY DEF Builders
<1> HIDE DEF n
<1>5. Builders(ch) \in Seq(BuilderSet) /\ Len(Builders(ch)) = n
  BY <1>2, <1>3, <1>4
<1> QED
  BY <1>1, <1>2, <1>5 DEF n, LastBuilder, IsServer, Addressed

(* Layer p of the chain, the last builder included.                        *)
LEMMA TypesFacts ==
  ASSUME NEW bs \in Seq(BuilderSet), NEW last \in Addressed \cup {"None"}
  PROVE  /\ Types(bs, last) \in Seq(ProtocolType)
         /\ Len(Types(bs, last)) = Len(bs) + (IF last = "None" THEN 0 ELSE 1)
         /\ \A p \in 1 .. Len(bs) : Types(bs, last)[p] = bs[p].proto
         /\ last # "None" => Types(bs, last)[Len(bs) + 1] = last
<1> DEFINE f == [i \in 1 .. Len(bs) |-> bs[i].proto]
           g == IF last = "None" THEN <<>> ELSE <<last>>
<1>1. \A i \in 1 .. Len(bs) : bs[i].proto \in ProtocolType
  <2>1. \A i \in 1 .. Len(bs) : bs[i] \in BuilderSet
    BY ElementOfSeq
  <2> QED
    BY <2>1 DEF BuilderSet
<1>2. f \in Seq(ProtocolType) /\ Len(f) = Len(bs) /\ \A p \in 1 .. Len(bs) : f[p] = bs[p].proto
  BY <1>1
<1>3. /\ g \in Seq(ProtocolType) /\ Len(g) = (IF last = "None" THEN 0 ELSE 1)
      /\ last # "None" => g[1] = last
  <2>1. CASE last = "None"
    BY <2>1
  <2>2. CASE last # "None"
    <3>1. last \in ProtocolType
      BY <2>2 DEF ProtocolType
    <3>2. g = <<last>>
      BY <2>2
    <3> HIDE DEF g
    <3> QED
      BY <2>2, <3>1, <3>2
  <2> QED
    BY <2>1, <2>2
<1>4. Types(bs, last) = f \o g
  BY DEF Types
<1> HIDE DEF f, g
<1> QED
  BY <1>2, <1>3, <1>4, ConcatProperties

LEMMA FromRight ==
  ASSUME NEW bs \in Seq(BuilderSet), NEW last \in Addressed \cup {"None"}
  PROVE  /\ TypesFromRight(bs, last) \in Seq(ProtocolType)
         /\ Len(TypesFromRight(bs, last)) = Len(Types(bs, last))
         /\ Len(Types(bs, last)) \in Nat
         /\ \A i \in 1 .. Len(Types(bs, last)) :
              TypesFromRight(bs, last)[i] = Types(bs, last)[(Len(Types(bs, last)) - i) + 1]
<1>1. Types(bs, last) \in Seq(ProtocolType)
  BY TypesFacts
<1> QED
  BY <1>1 DEF TypesFromRight, Reverse

(* A layer is built as TCP when a UoT layer comes further up.              *)
LEMMA MarkerFacts ==
  ASSUME NEW bs \in Seq(BuilderSet), NEW last \in Addressed \cup {"None"}
  PROVE  LET m == BuildUdpMarker(TypesFromRight(bs, last))
             n == Len(Types(bs, last))
         IN  /\ m \in Seq(BOOLEAN) /\ Len(m) = n
             /\ \A p \in 1 .. n :
                  m[p] <=> \E q \in p + 1 .. n : IsUot(Types(bs, last)[q])
<1> DEFINE r == TypesFromRight(bs, last)
           t == Types(bs, last)
           n == Len(t)
           m == BuildUdpMarker(r)
<1>1. r \in Seq(ProtocolType) /\ Len(r) = n /\ n \in Nat /\ \A i \in 1 .. n : r[i] = t[(n - i) + 1]
  BY FromRight
<1> HIDE DEF r, t, n
<1> DEFINE v == [i \in 1 .. n |-> \E j \in 1 .. i - 1 : IsUot(r[j])]
<1>2. v \in Seq(BOOLEAN) /\ Len(v) = n
  BY <1>1
<1>3. m = Reverse(v)
  BY <1>1 DEF BuildUdpMarker
<1>4. \A i \in 1 .. n : v[i] = (\E j \in 1 .. i - 1 : IsUot(r[j]))
  OBVIOUS
<1> HIDE DEF v, m
<1>5. m \in Seq(BOOLEAN) /\ Len(m) = n /\ \A p \in 1 .. n : m[p] = v[(n - p) + 1]
  <2>1. m = [p \in 1 .. n |-> v[(n - p) + 1]]
    BY <1>2, <1>3 DEF Reverse
  <2>2. ASSUME NEW p \in 1 .. n PROVE v[(n - p) + 1] \in BOOLEAN
    <3>1. (n - p) + 1 \in 1 .. n
      BY <1>1
    <3> QED
      BY <1>2, <3>1, ElementOfSeq
  <2> QED
    BY <1>1, <2>1, <2>2
<1>6. ASSUME NEW p \in 1 .. n PROVE m[p] <=> \E q \in p + 1 .. n : IsUot(t[q])
  <2>1. (n - p) + 1 \in 1 .. n /\ ((n - p) + 1) - 1 = n - p
    BY <1>1
  <2>2. m[p] <=> \E j \in 1 .. n - p : IsUot(r[j])
    BY <1>4, <1>5, <2>1
  <2>3. ASSUME NEW j \in 1 .. n - p, IsUot(r[j]) PROVE \E q \in p + 1 .. n : IsUot(t[q])
    <3>1. j \in 1 .. n /\ (n - j) + 1 \in p + 1 .. n
      BY <1>1
    <3> QED
      BY <1>1, <2>3, <3>1
  <2>4. ASSUME NEW q \in p + 1 .. n, IsUot(t[q]) PROVE \E j \in 1 .. n - p : IsUot(r[j])
    <3>1. (n - q) + 1 \in 1 .. n - p /\ (n - q) + 1 \in 1 .. n /\ (n - ((n - q) + 1)) + 1 = q
      <4>1. q \in Int /\ p \in Int /\ n \in Int /\ 1 <= p /\ p + 1 <= q /\ q <= n
        BY <1>1, <2>4
      <4> QED
        BY <4>1
    <3>2. r[(n - q) + 1] = t[q]
      BY <1>1, <3>1
    <3> QED
      BY <2>4, <3>1, <3>2
  <2> QED
    BY <2>2, <2>3, <2>4
<1> QED
  BY <1>5, <1>6 DEF m, r, n, t

LEMMA Least ==
  ASSUME NEW S, S \subseteq Nat, S # {}
  PROVE  \E x \in S : \A y \in S : x <= y
<1> DEFINE T == {n \in Nat : \A y \in S : n <= y}
<1>1. SUFFICES ASSUME \A x \in S : \E y \in S : ~(x <= y) PROVE FALSE
  OBVIOUS
<1>2. 0 \in T
  OBVIOUS
<1>3. ASSUME NEW n \in Nat, n \in T PROVE n + 1 \in T
  <2>1. \A y \in S : n <= y
    BY <1>3
  <2>2. n \notin S
    BY <1>1, <2>1
  <2>3. \A y \in S : n + 1 <= y
    BY <2>1, <2>2
  <2> QED
    BY <2>3
<1>4. PICK z : z \in S
  OBVIOUS
<1> HIDE DEF T
<1>5. z + 1 \in T
  BY <1>2, <1>3, <1>4, SetInduction
<1> QED
  BY <1>4, <1>5 DEF T

(* The UoT layer that is furthest up, if there is one.                     *)
LEMMA HighestUot ==
  ASSUME NEW t, NEW n \in Nat, NEW p \in 1 .. n, IsUot(t[p])
  PROVE  \E u \in p .. n : IsUot(t[u]) /\ \A q \in u + 1 .. n : ~IsUot(t[q])
<1> DEFINE S == {d \in 0 .. n - p : IsUot(t[n - d])}
<1>1. n - p \in S /\ S \subseteq Nat
  BY SMT
<1>2. PICK d \in S : \A e \in S : d <= e
  <2> HIDE DEF S
  <2> QED
    BY <1>1, Least
<1>3. d \in 0 .. n - p /\ IsUot(t[n - d]) /\ n - d \in p .. n
  OBVIOUS
<1>4. ASSUME NEW q \in (n - d) + 1 .. n, IsUot(t[q]) PROVE FALSE
  <2>1. q \in Int /\ (n - d) + 1 <= q /\ q <= n
    BY <1>3, <1>4
  <2>2. n - q \in 0 .. n - p /\ n - (n - q) = q /\ ~(d <= n - q)
    BY <1>3, <2>1
  <2>3. n - q \in S
    BY <1>4, <2>2
  <2> QED
    BY <1>2, <2>2, <2>3
<1> QED
  BY <1>3, <1>4

(* Where a last builder that is not UoT sends to: the address of the UoT   *)
(* layer that is furthest up.                                              *)
LEMMA UdpAddrAt ==
  ASSUME NEW bs \in Seq(BuilderSet), NEW last \in Addressed, NEW remote,
         NEW u \in 1 .. Len(bs), IsUot(bs[u].proto), ~IsUot(last),
         \A q \in u + 1 .. Len(bs) : ~IsUot(bs[q].proto)
  PROVE  LastUdpAddr(bs, last, remote) = bs[u].addr
<1> DEFINE r == TypesFromRight(bs, last)
           t == Types(bs, last)
           n == Len(bs) + 1
           uots == {i \in 1 .. Len(r) : IsUot(r[i])}
           c == CHOOSE i \in uots : \A j \in uots : i <= j
           x == (n - u) + 1
<1>0. last # "None" /\ last \in Addressed \cup {"None"}
  BY DEF Addressed
<1>1. /\ Len(t) = n /\ n \in Nat /\ \A p \in 1 .. Len(bs) : t[p] = bs[p].proto
      /\ t[n] = last
  BY <1>0, TypesFacts
<1>2. Len(r) = n /\ \A i \in 1 .. n : r[i] = t[(n - i) + 1]
  BY <1>0, <1>1, FromRight, SMTT(30)
<1>3. LastUdpAddr(bs, last, remote) =
        IF uots = {} THEN remote ELSE IF c - 1 = 0 THEN NoAddr ELSE bs[(Len(bs) - (c - 1)) + 1].addr
  BY Zenon DEF LastUdpAddr
<1> HIDE DEF r, t
<1>4. u \in Nat /\ Len(bs) \in Nat /\ 1 <= u /\ u <= Len(bs)
  OBVIOUS
<1>5. x \in 1 .. n /\ (n - x) + 1 = u /\ x # 1 /\ (Len(bs) - (x - 1)) + 1 = u
  BY <1>4
<1>6. x \in uots
  BY <1>1, <1>2, <1>5
<1>7. ASSUME NEW i \in uots PROVE x <= i
  <2>1. i \in 1 .. n /\ IsUot(t[(n - i) + 1])
    BY <1>2, <1>7
  <2>2. (n - i) + 1 \in 1 .. n
    BY <1>1, <2>1
  <2>3. (n - i) + 1 # n
    BY <1>1, <2>1
  <2>4. (n - i) + 1 \in 1 .. Len(bs)
    BY <1>4, <2>2, <2>3
  <2>5. IsUot(bs[(n - i) + 1].proto)
    BY <1>1, <2>1, <2>4
  <2>6. ~((n - i) + 1 \in u + 1 .. Len(bs))
    BY <2>5
  <2> QED
    BY <1>4, <2>1, <2>4, <2>6
<1> HIDE DEF uots, n, x
<1>8. c \in uots /\ \A j \in uots : c <= j
  BY <1>6, <1>7
<1> HIDE DEF c
<1>9. c = x
  <2>1. uots \subseteq Int
    BY DEF uots
  <2>2. c <= x /\ x <= c
    BY <1>6, <1>7, <1>8
  <2> QED
    BY <1>6, <1>8, <2>1, <2>2
<1> QED
  BY <1>3, <1>5, <1>6, <1>9

LEMMA UdpAddrNone ==
  ASSUME NEW bs \in Seq(BuilderSet), NEW last \in Addressed \cup {"None"}, NEW remote,
         ~IsUot(last), \A q \in 1 .. Len(bs) : ~IsUot(bs[q].proto)
  PROVE  LastUdpAddr(bs, last, remote) = remote
<1> DEFINE r == TypesFromRight(bs, last)
           t == Types(bs, last)
           n == Len(t)
           uots == {i \in 1 .. Len(r) : IsUot(r[i])}
<1>1. /\ n \in Nat /\ n = Len(bs) + (IF last = "None" THEN 0 ELSE 1)
      /\ \A p \in 1 .. Len(bs) : t[p] = bs[p].proto
      /\ last # "None" => t[Len(bs) + 1] = last
  BY TypesFacts, FromRight
<1>2. Len(r) = n /\ \A i \in 1 .. n : r[i] = t[(n - i) + 1]
  BY FromRight
<1>3. LastUdpAddr(bs, last, remote) = remote \/ uots # {}
  BY Zenon DEF LastUdpAddr
<1> HIDE DEF r, t, n
<1>4. ASSUME NEW p \in 1 .. n PROVE ~IsUot(t[p])
  BY <1>1, <1>4
<1>5. uots = {}
  <2>1. \A i \in 1 .. n : (n - i) + 1 \in 1 .. n
    BY <1>1
  <2> QED
    BY <1>2, <1>4, <2>1
<1> QED
  BY <1>3, <1>5

-----------------------------------------------------------------------------
(* The servers that the first k builders account for.                      *)

Count(k) == IF Asked(chain, k) < Len(Addrs(chain)) THEN Asked(chain, k) + 1 ELSE Len(Addrs(chain))

(* A builder with an address adds that of the next server, one without an  *)
(* address adds none: the pairing of the two passes of build_inner_map.    *)
LEMMA ReachedStep ==
  ASSUME chain \in Seq(Tags), NEW k \in Nat, k + 1 \in 1 .. Len(Builders(chain))
  PROVE  Reached(k + 1) = IF Builders(chain)[k + 1].addr = NoAddr THEN Reached(k)
                          ELSE Append(Reached(k), Builders(chain)[k + 1].addr)
<1> DEFINE A == Addrs(chain)
           a == Builders(chain)[k + 1].addr
           e == EntryOf(chain, k + 1)
           l == LastEntry(chain)
<1>1. A \in Seq(Tags) /\ Len(A) \in Nat
  BY AddrsType
<1>2. /\ Len(Builders(chain)) = Len(chain) - (IF HasLast(chain) THEN 1 ELSE 0)
      /\ e \in 1 .. Len(chain) /\ a = NextAddr(chain, e)
  BY EntryFacts
<1>3. a # NoAddr <=> IsServer(chain, e) /\ Asked(chain, e) < Len(A)
  BY <1>2, IsLastMeans
<1>4. /\ \A i \in 0 .. Len(chain) : Asked(chain, i) \in Nat
      /\ \A i \in 1 .. Len(chain) : Asked(chain, i) =
           IF IsServer(chain, i) THEN Asked(chain, i - 1) + 1 ELSE Asked(chain, i - 1)
  BY AskedStep
<1>5. CASE ~HasLast(chain)
  <2>1. A = <<>> /\ ~IsServer(chain, e)
    BY <1>2, <1>5, LastServer
  <2> QED
    BY <1>3, <2>1 DEF Reached
<1>6. CASE HasLast(chain)
  <2>1. /\ A # <<>> /\ l \in 1 .. Len(chain) /\ IsServer(chain, l)
        /\ \A i \in 0 .. l - 1 : Asked(chain, i) < Len(A)
        /\ \A i \in l .. Len(chain) : Asked(chain, i) = Len(A)
        /\ \A i \in l + 1 .. Len(chain) : ~IsServer(chain, i)
    BY <1>6, LastServer
  <2>2. e = IF k + 1 >= l THEN k + 2 ELSE k + 1
    BY <1>6, <2>1 DEF EntryOf
  <2>3. Reached(k) = SubSeq(A, 1, Count(k)) /\ Reached(k + 1) = SubSeq(A, 1, Count(k + 1))
    BY <2>1 DEF Reached, Count
  <2> HIDE DEF A, a, e, l
  <2>4. CASE k + 1 < l
    <3>1. e = k + 1 /\ k \in 0 .. l - 1 /\ k + 1 \in 0 .. l - 1 /\ k \in 0 .. Len(chain)
          /\ k + 1 \in 1 .. Len(chain) /\ (k + 1) - 1 = k
      BY <2>1, <2>2, <2>4
    <3>2. /\ Asked(chain, k) \in Nat /\ Asked(chain, k) < Len(A) /\ Asked(chain, k + 1) < Len(A)
          /\ Asked(chain, k + 1) =
               IF IsServer(chain, k + 1) THEN Asked(chain, k) + 1 ELSE Asked(chain, k)
      BY <1>4, <2>1, <3>1
    <3>3. Count(k) = Asked(chain, k) + 1 /\ Count(k + 1) = Asked(chain, k + 1) + 1
      BY <3>2 DEF Count, A
    <3>4. CASE IsServer(chain, k + 1)
      <4>1. a # NoAddr /\ a = A[Asked(chain, k + 1) + 1]
        BY <1>2, <1>3, <3>1, <3>2, <3>4 DEF NextAddr, IsServer, A
      <4>2. Count(k + 1) = Count(k) + 1 /\ a = A[Count(k) + 1] /\ Count(k) + 1 \in 1 .. Len(A)
        BY <1>1, <3>2, <3>3, <3>4, <4>1
      <4>3. SubSeq(A, 1, Count(k) + 1) = Append(SubSeq(A, 1, Count(k)), A[Count(k) + 1])
        <5>1. PICK c : c = Count(k)
          OBVIOUS
        <5>2. c + 1 \in 1 .. Len(A) /\ c \in Nat /\ (c + 1) - 1 = c
          BY <3>2, <3>3, <4>2, <5>1
        <5>3. SubSeq(A, 1, c + 1) = Append(SubSeq(A, 1, (c + 1) - 1), A[c + 1])
          BY <1>1, <5>2, SubSeqRecursiveSecond
        <5> QED
          BY <5>1, <5>2, <5>3
      <4> QED
        BY <2>3, <4>1, <4>2, <4>3 DEF a
    <3>5. CASE ~IsServer(chain, k + 1)
      <4>1. a = NoAddr /\ Count(k + 1) = Count(k)
        BY <1>3, <3>1, <3>2, <3>3, <3>5
      <4> QED
        BY <2>3, <4>1 DEF a
    <3> QED
      BY <3>4, <3>5
  <2>5. CASE ~(k + 1 < l)
    <3>1. /\ e = k + 2 /\ e \in l + 1 .. Len(chain) /\ k + 1 \in l .. Len(chain)
          /\ k \in 0 .. Len(chain) /\ k + 1 \in 1 .. Len(chain) /\ (k + 1) - 1 = k
      BY <1>2, <1>6, <2>1, <2>2, <2>5
    <3>2. a = NoAddr /\ Asked(chain, k + 1) = Len(A)
      BY <1>3, <2>1, <3>1
    <3>3. Count(k + 1) = Len(A)
      BY <1>1, <3>2 DEF Count, A
    <3>4. Count(k) = Len(A)
      <4>1. /\ Asked(chain, k) \in Nat
            /\ Asked(chain, k + 1) =
                 IF IsServer(chain, k + 1) THEN Asked(chain, k) + 1 ELSE Asked(chain, k)
        BY <1>4, <3>1
      <4> QED
        BY <1>1, <3>2, <4>1 DEF Count, A
    <3> QED
      BY <2>3, <3>2, <3>3, <3>4 DEF a
  <2> QED
    BY <2>4, <2>5
<1> QED
  BY <1>5, <1>6

LEMMA ReachedEnds ==
  ASSUME chain \in Seq(Tags), Addrs(chain) # <<>>
  PROVE  Reached(0) = <<Head(Addrs(chain))>> /\ Reached(Len(Builders(chain))) = Addrs(chain)
<1> DEFINE A == Addrs(chain)
           l == LastEntry(chain)
           n == Len(Builders(chain))
<1>1. A \in Seq(Tags) /\ Len(A) \in Nat /\ Len(A) >= 1
  <2>1. A \in Seq(Tags)
    BY AddrsType
  <2> QED
    BY <2>1
<1>2. HasLast(chain)
  BY LastServer
<1>3. n = Len(chain) - 1 /\ Len(chain) \in Nat
  BY <1>2, BuildersType
<1>4. /\ l \in 1 .. Len(chain) /\ IsServer(chain, l)
      /\ \A i \in l .. Len(chain) : Asked(chain, i) = Len(A)
  BY <1>2, LastServer
<1>5. /\ Asked(chain, 0) = 0
      /\ \A i \in 0 .. Len(chain) : Asked(chain, i) \in Nat
      /\ \A i \in 1 .. Len(chain) : Asked(chain, i) =
           IF IsServer(chain, i) THEN Asked(chain, i - 1) + 1 ELSE Asked(chain, i - 1)
  BY AskedStep
<1>6. \A k : Reached(k) = SubSeq(A, 1, Count(k))
  BY DEF Reached, Count
<1> HIDE DEF A, l, n
<1>7. Count(0) = 1
  BY <1>1, <1>5 DEF Count, A
<1>8. Count(n) = Len(A)
  <2>1. n \in 0 .. Len(chain) /\ Len(chain) \in 1 .. Len(chain) /\ Len(chain) \in l .. Len(chain)
        /\ n = Len(chain) - 1
    BY <1>3, <1>4
  <2>2. /\ Asked(chain, n) \in Nat /\ Asked(chain, Len(chain)) = Len(A)
        /\ Asked(chain, Len(chain)) =
             IF IsServer(chain, Len(chain)) THEN Asked(chain, n) + 1 ELSE Asked(chain, n)
    BY <1>4, <1>5, <2>1
  <2> QED
    BY <1>1, <2>2 DEF Count, A
<1>9. SubSeq(A, 1, 1) = <<Head(A)>> /\ SubSeq(A, 1, Len(A)) = A
  <2>1. SubSeq(A, 1, Len(A)) = A
    BY <1>1, SubSeqFull
  <2>2. SubSeq(A, 1, 1) = <<A[1]>>
    <3>1. 1 \in 1 .. Len(A) /\ A[1] \in Tags
      BY <1>1
    <3>2. SubSeq(A, 1, 1) = Append(SubSeq(A, 1, 1 - 1), A[1])
      BY <1>1, <3>1, SubSeqRecursiveSecond
    <3>3. SubSeq(A, 1, 1 - 1) = <<>>
      BY <1>1, SubSeqEmpty
    <3>4. Append(<<>>, A[1]) = <<A[1]>>
      BY <3>1
    <3> QED
      BY <3>2, <3>3, <3>4
  <2> QED
    BY <1>1, <2>1, <2>2
<1> QED
  BY <1>6, <1>7, <1>8, <1>9 DEF A, n

-----------------------------------------------------------------------------
(* What build_inner_markers has found out about the layers.                *)

Marked == phase \in {"ready", "building", "built", "failed"}
Top    == Len(build_udp_marker)

LEMMA BuilderFacts ==
  ASSUME TypeOK, FieldsInv, Marked
  PROVE  /\ chain \in Seq(Tags) /\ builders = Builders(chain) /\ builders \in Seq(BuilderSet)
         /\ last_builder = LastBuilder(chain) /\ last_builder \in Addressed \cup {"None"}
         /\ build_udp_marker = BuildUdpMarker(TypesFromRight(builders, last_builder))
         /\ last_udp_addr = LastUdpAddr(builders, last_builder, remote_addr)
         /\ Len(builders) \in Nat
         /\ Top = Len(builders) + (IF last_builder = "None" THEN 0 ELSE 1) /\ Top >= 1
<1>1. /\ chain \in Seq(Tags) /\ builders = Builders(chain) /\ last_builder = LastBuilder(chain)
      /\ build_udp_marker = BuildUdpMarker(TypesFromRight(builders, last_builder))
      /\ last_udp_addr = LastUdpAddr(builders, last_builder, remote_addr)
  BY DEF FieldsInv, Marked
<1>2. /\ builders \in Seq(BuilderSet) /\ last_builder \in Addressed \cup {"None"}
      /\ Len(builders) = Len(chain) - (IF HasLast(chain) THEN 1 ELSE 0) /\ Len(builders) \in Nat
      /\ last_builder = "None" <=> ~HasLast(chain)
  BY <1>1, BuildersType
<1>3. Top = Len(builders) + (IF last_builder = "None" THEN 0 ELSE 1)
  BY <1>1, <1>2, MarkerFacts, TypesFacts DEF Top
<1>4. Len(chain) \in Nat /\ Len(chain) >= 1
  BY <1>1 DEF TypeOK
<1> QED
  BY <1>1, <1>2, <1>3, <1>4

(* A layer of datagrams or of UoT has no UoT above it, and layers of       *)
(* streams have only such below them.                                      *)
LEMMA Marks ==
  ASSUME TypeOK, FieldsInv, Marked
  PROVE  /\ build_udp_marker \in Seq(BOOLEAN)
         /\ \A p \in 1 .. Top : \A q \in p .. Top : build_udp_marker[q] => build_udp_marker[p]
         /\ \A p \in 1 .. Len(builders) : \A q \in p + 1 .. Len(builders) :
              IsUot(builders[q].proto) => build_udp_marker[p]
         /\ IsUot(last_builder) => \A p \in 1 .. Len(builders) : build_udp_marker[p]
         /\ ~build_udp_marker[Top]
         /\ \A p \in 1 .. Len(builders) : IsUot(builders[p].proto) /\ ~build_udp_marker[p] =>
              last_builder = "SS" /\ last_udp_addr = builders[p].addr
         /\ \A p \in 1 .. Len(builders) : builders[p].proto = "SS" /\ ~build_udp_marker[p] =>
              last_builder = "SS"
<1> DEFINE t == Types(builders, last_builder)
<1>1. /\ builders \in Seq(BuilderSet) /\ last_builder \in Addressed \cup {"None"}
      /\ build_udp_marker = BuildUdpMarker(TypesFromRight(builders, last_builder))
      /\ Len(builders) \in Nat /\ chain \in Seq(Tags) /\ builders = Builders(chain)
      /\ Top = Len(builders) + (IF last_builder = "None" THEN 0 ELSE 1) /\ Top >= 1
  BY BuilderFacts
<1>2. /\ build_udp_marker \in Seq(BOOLEAN) /\ Len(t) = Top
      /\ \A p \in 1 .. Top : build_udp_marker[p] <=> \E q \in p + 1 .. Top : IsUot(t[q])
  <2>1. Len(build_udp_marker) = Len(t)
    BY <1>1, MarkerFacts
  <2>2. Len(t) = Top
    BY <2>1 DEF Top
  <2> QED
    BY <1>1, <2>2, MarkerFacts
<1>3. /\ \A p \in 1 .. Len(builders) : t[p] = builders[p].proto
      /\ last_builder # "None" => t[Top] = last_builder
  <2>1. /\ \A p \in 1 .. Len(builders) : t[p] = builders[p].proto
        /\ last_builder # "None" => t[Len(builders) + 1] = last_builder
    BY <1>1, TypesFacts
  <2> QED
    BY <1>1, <2>1
<1> HIDE DEF t
<1>4. Top \in Nat /\ Len(builders) <= Top /\ Top \in 1 .. Top
  BY <1>1
<1>5. ASSUME NEW p \in 1 .. Top, NEW q \in p .. Top, build_udp_marker[q] PROVE build_udp_marker[p]
  <2>1. q \in 1 .. Top
    BY <1>4
  <2>2. PICK r \in q + 1 .. Top : IsUot(t[r])
    BY <1>2, <1>5, <2>1
  <2>3. r \in p + 1 .. Top
    BY <1>4
  <2> QED
    BY <1>2, <2>2, <2>3
<1>6. ASSUME NEW p \in 1 .. Len(builders), NEW q \in p + 1 .. Len(builders), IsUot(builders[q].proto)
      PROVE  build_udp_marker[p]
  <2>1. p \in 1 .. Top /\ q \in p + 1 .. Top /\ q \in 1 .. Len(builders)
    BY <1>1, <1>4
  <2> QED
    BY <1>2, <1>3, <1>6, <2>1
<1>7. ASSUME IsUot(last_builder), NEW p \in 1 .. Len(builders) PROVE build_udp_marker[p]
  <2>1. last_builder # "None"
    BY <1>7 DEF IsUot
  <2>2. p \in 1 .. Top /\ Top \in p + 1 .. Top
    BY <1>1, <1>4, <2>1
  <2> QED
    BY <1>2, <1>3, <1>7, <2>1, <2>2
<1>8. ~build_udp_marker[Top]
  <2>1. Top + 1 .. Top = {}
    BY <1>4
  <2> QED
    BY <1>2, <1>4, <2>1
<1>9. ASSUME NEW p \in 1 .. Len(builders), builders[p].proto \in Addressed, ~build_udp_marker[p]
      PROVE  last_builder \in Addressed /\ ~IsUot(last_builder) /\ last_builder = "SS"
  <2>1. EntryOf(chain, p) \in 1 .. Len(chain) /\ IsServer(chain, EntryOf(chain, p))
    BY <1>1, <1>9, EntryFacts DEF IsServer
  <2>2. HasLast(chain)
    BY <1>1, <2>1, LastServer
  <2>3. last_builder \in Addressed
    BY <1>1, <2>2, BuilderFacts, BuildersType
  <2>4. ~IsUot(last_builder)
    BY <1>7, <1>9
  <2> QED
    BY <2>3, <2>4 DEF Addressed, IsUot
<1>10. ASSUME NEW p \in 1 .. Len(builders), IsUot(builders[p].proto), ~build_udp_marker[p]
       PROVE  last_builder = "SS" /\ last_udp_addr = builders[p].addr
  <2>1. builders[p].proto \in Addressed
    BY <1>10 DEF IsUot, Addressed
  <2>2. last_builder \in Addressed /\ ~IsUot(last_builder) /\ last_builder = "SS"
    BY <1>9, <1>10, <2>1
  <2>3. \A q \in p + 1 .. Len(builders) : ~IsUot(builders[q].proto)
    BY <1>6, <1>10
  <2>4. LastUdpAddr(builders, last_builder, remote_addr) = builders[p].addr
    BY <1>1, <1>10, <2>2, <2>3, UdpAddrAt
  <2>5. last_udp_addr = LastUdpAddr(builders, last_builder, remote_addr)
    BY BuilderFacts
  <2> QED
    BY <2>2, <2>4, <2>5
<1>11. ASSUME NEW p \in 1 .. Len(builders), builders[p].proto = "SS", ~build_udp_marker[p]
       PROVE  last_builder = "SS"
  <2>1. builders[p].proto \in Addressed
    BY <1>11 DEF Addressed
  <2> QED
    BY <1>9, <1>11, <2>1
<1> QED
  BY <1>2, <1>5, <1>6, <1>7, <1>8, <1>10, <1>11

(* A builder that is not a server has no address.                          *)
LEMMA NoServerNoAddr ==
  ASSUME TypeOK, FieldsInv, Marked, NEW p \in 1 .. Len(builders)
  PROVE  /\ builders[p] \in BuilderSet
         /\ builders[p].proto \notin Addressed => builders[p].addr = NoAddr
<1>1. chain \in Seq(Tags) /\ builders = Builders(chain) /\ builders \in Seq(BuilderSet)
  BY BuilderFacts
<1>2. /\ EntryOf(chain, p) \in 1 .. Len(chain)
      /\ builders[p].proto = Proto[chain[EntryOf(chain, p)]]
      /\ builders[p].addr = NextAddr(chain, EntryOf(chain, p))
  BY <1>1, EntryFacts
<1>3. builders[p] \in BuilderSet
  BY <1>1, ElementOfSeq
<1> QED
  BY <1>2, <1>3 DEF NextAddr

LEMMA NoBlackhole ==
  ASSUME TypeOK, FieldsInv, Marked, ~is_black_hole, NEW p \in 1 .. Len(builders)
  PROVE  builders[p].proto # "Blackhole"
<1> DEFINE r == TypesFromRight(builders, last_builder)
           t == Types(builders, last_builder)
           n == Len(t)
<1>1. builders \in Seq(BuilderSet) /\ last_builder \in Addressed \cup {"None"} /\ Len(builders) \in Nat
  BY BuilderFacts
<1>2. /\ r \in Seq(ProtocolType) /\ Len(r) = n /\ n \in Nat
      /\ \A i \in 1 .. n : r[i] = t[(n - i) + 1]
  BY <1>1, FromRight
<1>3. n \in Nat /\ Len(builders) <= n /\ t[p] = builders[p].proto
  BY <1>1, TypesFacts
<1>4. ~\E i \in DOMAIN r : r[i] = "Blackhole"
  BY DEF FieldsInv, Marked
<1> HIDE DEF r, t, n
<1>5. (n - p) + 1 \in 1 .. n /\ (n - ((n - p) + 1)) + 1 = p
  BY <1>1, <1>3
<1>6. r[(n - p) + 1] = t[p] /\ (n - p) + 1 \in DOMAIN r
  BY <1>2, <1>5
<1> QED
  BY <1>3, <1>4, <1>6

-----------------------------------------------------------------------------
(* One more layer.                                                         *)

AddrSet  == Tags \cup {Target, NoAddr}
LayerSet == [proto : ProtocolType, addr : AddrSet, kind : {"stream", "uot", "datagram"}]

(* A socket to x and layers with the addresses of h.                       *)
Along(x, h) == <<x>> \o Present(h)

LEMMA AlongAppend ==
  ASSUME NEW x \in AddrSet, NEW h \in Seq(AddrSet), NEW a \in AddrSet
  PROVE  Along(x, Append(h, a)) = IF a = NoAddr THEN Along(x, h) ELSE Append(Along(x, h), a)
<1>1. NoAddr \notin Tags \cup {Target}
  BY ChainAssumption
<1>2. PICK S : S = Tags \cup {Target}
  OBVIOUS
<1>3. AddrSet = S \cup {NoAddr}
  BY <1>2 DEF AddrSet
<1>4. Present(h) \in Seq(S)
  BY <1>1, <1>2, <1>3, PresentType
<1>5. Present(h) \in Seq(AddrSet)
  BY <1>3, <1>4, SeqMonotonic
<1>6. PICK p : p = Present(h)
  OBVIOUS
<1>7. <<x>> \in Seq(AddrSet) /\ p \in Seq(AddrSet)
  BY <1>5, <1>6
<1>8. <<x>> \o Append(p, a) = Append(<<x>> \o p, a)
  <2>1. /\ <<x>> \o p \in Seq(AddrSet) /\ Len(<<x>> \o p) = 1 + Len(p)
        /\ \A i \in 1 .. 1 + Len(p) : (<<x>> \o p)[i] = IF i <= 1 THEN x ELSE p[i - 1]
    <3>1. Len(<<x>>) = 1 /\ <<x>>[1] = x
      OBVIOUS
    <3> QED
      BY <1>7, <3>1, ConcatProperties
  <2>2. /\ Append(p, a) \in Seq(AddrSet) /\ Len(Append(p, a)) = Len(p) + 1
        /\ \A i \in 1 .. Len(p) : Append(p, a)[i] = p[i]
        /\ Append(p, a)[Len(p) + 1] = a /\ Len(p) \in Nat
    BY <1>7, AppendProperties
  <2>3. /\ <<x>> \o Append(p, a) \in Seq(AddrSet)
        /\ Len(<<x>> \o Append(p, a)) = 1 + (Len(p) + 1)
        /\ \A i \in 1 .. 1 + (Len(p) + 1) :
             (<<x>> \o Append(p, a))[i] = IF i <= 1 THEN x ELSE Append(p, a)[i - 1]
    <3>1. Len(<<x>>) = 1 /\ <<x>>[1] = x
      OBVIOUS
    <3>2. PICK y : y = Append(p, a)
      OBVIOUS
    <3>3. y \in Seq(AddrSet) /\ Len(y) = Len(p) + 1
      BY <2>2, <3>2
    <3>4. /\ <<x>> \o y \in Seq(AddrSet) /\ Len(<<x>> \o y) = 1 + Len(y)
          /\ \A i \in 1 .. 1 + Len(y) : (<<x>> \o y)[i] = IF i <= 1 THEN x ELSE y[i - 1]
      BY <1>7, <3>1, <3>3, ConcatProperties
    <3> QED
      BY <3>2, <3>3, <3>4
  <2>4. /\ Append(<<x>> \o p, a) \in Seq(AddrSet)
        /\ Len(Append(<<x>> \o p, a)) = (1 + Len(p)) + 1
        /\ \A i \in 1 .. 1 + Len(p) : Append(<<x>> \o p, a)[i] = (<<x>> \o p)[i]
        /\ Append(<<x>> \o p, a)[(1 + Len(p)) + 1] = a
    <3>1. PICK y : y = <<x>> \o p
      OBVIOUS
    <3>2. y \in Seq(AddrSet) /\ Len(y) = 1 + Len(p)
      BY <2>1, <3>1
    <3>3. /\ Append(y, a) \in Seq(AddrSet) /\ Len(Append(y, a)) = (1 + Len(p)) + 1
          /\ \A i \in 1 .. 1 + Len(p) : Append(y, a)[i] = y[i]
          /\ Append(y, a)[(1 + Len(p)) + 1] = a
      BY <3>2, AppendProperties
    <3> QED
      BY <3>1, <3>3
  <2>5. PICK f, g : f = <<x>> \o Append(p, a) /\ g = Append(<<x>> \o p, a)
    OBVIOUS
  <2>6. \A i \in 1 .. Len(p) + 2 : f[i] = g[i]
    <3>1. SUFFICES ASSUME NEW i \in 1 .. Len(p) + 2 PROVE f[i] = g[i]
      OBVIOUS
    <3>2. CASE i = Len(p) + 2
      BY <2>2, <2>3, <2>4, <2>5, <3>2
    <3>3. CASE i # Len(p) + 2
      BY <2>1, <2>2, <2>3, <2>4, <2>5, <3>3
    <3> QED
      BY <3>2, <3>3
  <2>7. f \in Seq(AddrSet) /\ g \in Seq(AddrSet) /\ Len(f) = Len(p) + 2 /\ Len(g) = Len(p) + 2
    BY <2>2, <2>3, <2>4, <2>5
  <2>8. f = g
    BY <2>6, <2>7, SeqEqual
  <2> QED
    BY <2>5, <2>8
<1>9. Present(Append(h, a)) = IF a = NoAddr THEN p ELSE Append(p, a)
  BY <1>6, PresentAppend
<1> QED
  BY <1>6, <1>8, <1>9 DEF Along

(* The addresses of the layers with one more on top.                       *)
LEMMA AddrsOfStack ==
  ASSUME NEW st \in Seq(LayerSet), NEW l \in LayerSet
  PROVE  /\ [i \in 1 .. Len(st) |-> st[i].addr] \in Seq(AddrSet)
         /\ Append(st, l) \in Seq(LayerSet) /\ Len(Append(st, l)) = Len(st) + 1
         /\ \A i \in 1 .. Len(st) : Append(st, l)[i] = st[i]
         /\ Append(st, l)[Len(st) + 1] = l
         /\ [i \in 1 .. Len(Append(st, l)) |-> Append(st, l)[i].addr]
              = Append([i \in 1 .. Len(st) |-> st[i].addr], l.addr)
<1> DEFINE f == [i \in 1 .. Len(st) |-> st[i].addr]
           a == Append(st, l)
           g == [i \in 1 .. Len(a) |-> a[i].addr]
           h == Append(f, l.addr)
<1>0. Len(st) \in Nat /\ l.addr \in AddrSet
  BY DEF LayerSet
<1>1. \A i \in 1 .. Len(st) : st[i].addr \in AddrSet
  <2>1. \A i \in 1 .. Len(st) : st[i] \in LayerSet
    BY ElementOfSeq
  <2> QED
    BY <2>1 DEF LayerSet
<1>2. f \in Seq(AddrSet) /\ Len(f) = Len(st) /\ \A i \in 1 .. Len(st) : f[i] = st[i].addr
  BY <1>0, <1>1
<1>3. /\ a \in Seq(LayerSet) /\ Len(a) = Len(st) + 1
      /\ \A i \in 1 .. Len(st) : a[i] = st[i]
      /\ a[Len(st) + 1] = l
  BY AppendProperties
<1> HIDE DEF f, a
<1>4. /\ h \in Seq(AddrSet) /\ Len(h) = Len(st) + 1
      /\ \A i \in 1 .. Len(st) : h[i] = st[i].addr
      /\ h[Len(st) + 1] = l.addr
  BY <1>0, <1>2, AppendProperties
<1>5. \A i \in 1 .. Len(st) + 1 : a[i].addr = h[i]
  BY <1>0, <1>3, <1>4
<1> HIDE DEF h
<1>6. g = [i \in 1 .. Len(st) + 1 |-> h[i]]
  BY <1>3, <1>5
<1>7. h = [i \in 1 .. Len(st) + 1 |-> h[i]]
  BY <1>4
<1> QED
  BY <1>2, <1>3, <1>6, <1>7 DEF f, a, h

LEMMA WrapFacts ==
  ASSUME NEW b \in [proto : ProtocolType, addr : AddrSet], NEW tcp \in BOOLEAN,
         NEW st \in Seq(LayerSet)
  PROVE  \/ b.proto \notin Addressed /\ st \o Wrap(b, tcp) = st
         \/ \E l \in LayerSet : /\ st \o Wrap(b, tcp) = Append(st, l)
                                /\ l.proto = b.proto /\ l.addr = b.addr
                                /\ l.kind = "stream" <=> tcp
                                /\ l.kind = "uot" <=> ~tcp /\ IsUot(b.proto)
                                /\ l.kind = "datagram" => b.proto = "SS"
<1>1. b.proto \in ProtocolType /\ b.addr \in AddrSet
  OBVIOUS
<1>2. CASE b.proto = "Direct" \/ (~tcp /\ ~IsUot(b.proto) /\ b.proto # "SS")
  <2>1. Wrap(b, tcp) = <<>>
    BY <1>2 DEF Wrap
  <2>2. st \o <<>> = st
    BY ConcatEmptySeq
  <2>3. b.proto \notin Addressed
    BY <1>2 DEF Addressed, IsUot
  <2> QED
    BY <2>1, <2>2, <2>3
<1>3. CASE ~(b.proto = "Direct" \/ (~tcp /\ ~IsUot(b.proto) /\ b.proto # "SS"))
  <2> DEFINE k == IF tcp THEN "stream" ELSE IF IsUot(b.proto) THEN "uot" ELSE "datagram"
             l == Layer(b.proto, b.addr, k)
  <2>1. Wrap(b, tcp) = <<l>>
    BY <1>3 DEF Wrap
  <2>2. l \in LayerSet
    BY <1>1 DEF Layer, LayerSet
  <2>3. /\ l.proto = b.proto /\ l.addr = b.addr
        /\ l.kind = "stream" <=> tcp
        /\ l.kind = "uot" <=> ~tcp /\ IsUot(b.proto)
        /\ l.kind = "datagram" => b.proto = "SS"
    BY <1>3 DEF Layer
  <2> HIDE DEF l
  <2>4. st \o <<l>> = Append(st, l)
    BY <2>2, AppendIsConcat
  <2> QED
    BY <2>1, <2>2, <2>3, <2>4
<1> QED
  BY <1>2, <1>3

LEMMA UdpAddrType ==
  ASSUME NEW ch \in Seq(Tags), NEW remote \in Tags \cup {NoAddr}
  PROVE  LastUdpAddr(Builders(ch), LastBuilder(ch), remote) \in Tags \cup {NoAddr}
<1> DEFINE bs == Builders(ch)
           last == LastBuilder(ch)
           t == Types(bs, last)
<1>1. /\ bs \in Seq(BuilderSet) /\ last \in Addressed \cup {"None"} /\ Len(bs) \in Nat
      /\ last = "None" <=> ~HasLast(ch)
  BY BuildersType
<1>2. CASE IsUot(last)
  <2> DEFINE r == TypesFromRight(bs, last)
             uots == {i \in 1 .. Len(r) : IsUot(r[i])}
             c == CHOOSE i \in uots : \A j \in uots : i <= j
  <2>1. LastUdpAddr(bs, last, remote) =
          IF uots = {} THEN remote ELSE IF c - 1 = 0 THEN NoAddr ELSE bs[(Len(bs) - (c - 1)) + 1].addr
    BY Zenon DEF LastUdpAddr
  <2>2. last # "None" /\ last \in Addressed
    BY <1>1, <1>2 DEF IsUot, Addressed
  <2>3. Len(t) = Len(bs) + 1 /\ t[Len(bs) + 1] = last
    BY <1>1, <2>2, TypesFacts
  <2>4. Len(r) = Len(bs) + 1 /\ r[1] = last
    <3>1. Len(r) = Len(t) /\ \A i \in 1 .. Len(t) : r[i] = t[(Len(t) - i) + 1]
      BY <1>1, FromRight
    <3>2. 1 \in 1 .. Len(t) /\ (Len(t) - 1) + 1 = Len(bs) + 1
      BY <1>1, <2>3
    <3> QED
      BY <2>3, <3>1, <3>2
  <2> HIDE DEF r
  <2>5. 1 \in uots /\ uots \subseteq 1 .. Len(bs) + 1
    BY <1>1, <1>2, <2>4
  <2> HIDE DEF uots, bs, last
  <2>6. c \in uots /\ \A j \in uots : c <= j
    <3>1. \A j \in uots : 1 <= j
      BY <2>5
    <3> QED
      BY <2>5, <3>1
  <2> HIDE DEF c
  <2>7. c = 1
    BY <1>1, <2>5, <2>6
  <2>8. LastUdpAddr(bs, last, remote) = NoAddr
    BY <2>1, <2>5, <2>7
  <2> QED
    BY <2>8 DEF bs, last
<1>3. CASE ~IsUot(last) /\ \E p \in 1 .. Len(bs) : IsUot(bs[p].proto)
  <2> HIDE DEF last, bs
  <2>1. PICK p \in 1 .. Len(bs) : IsUot(bs[p].proto)
    BY <1>3
  <2> DEFINE v == [i \in 1 .. Len(bs) |-> bs[i].proto]
  <2>2. \A i \in 1 .. Len(bs) : v[i] = bs[i].proto
    OBVIOUS
  <2> HIDE DEF v
  <2>3. PICK u \in p .. Len(bs) : IsUot(v[u]) /\ \A q \in u + 1 .. Len(bs) : ~IsUot(v[q])
    BY <1>1, <2>1, <2>2, HighestUot
  <2>4. u \in 1 .. Len(bs) /\ \A q \in u + 1 .. Len(bs) : q \in 1 .. Len(bs)
    BY <1>1
  <2>5. HasLast(ch)
    <3>1. EntryOf(ch, u) \in 1 .. Len(ch) /\ bs[u].proto = Proto[ch[EntryOf(ch, u)]]
      BY <2>4, EntryFacts DEF bs
    <3>2. IsServer(ch, EntryOf(ch, u))
      BY <2>2, <2>3, <2>4, <3>1 DEF IsServer, IsUot, Addressed
    <3> QED
      BY <3>1, <3>2, LastServer
  <2>6. last \in Addressed
    BY <1>1, <2>5
  <2>7. LastUdpAddr(bs, last, remote) = bs[u].addr
    BY <1>1, <1>3, <2>2, <2>3, <2>4, <2>6, UdpAddrAt
  <2>8. bs[u] \in BuilderSet
    BY <1>1, <2>4, ElementOfSeq
  <2> QED
    BY <2>7, <2>8 DEF BuilderSet, bs, last
<1>4. CASE ~IsUot(last) /\ ~\E p \in 1 .. Len(bs) : IsUot(bs[p].proto)
  <2> HIDE DEF last, bs
  <2>1. LastUdpAddr(bs, last, remote) = remote
    BY <1>1, <1>4, UdpAddrNone
  <2> QED
    BY <2>1 DEF last, bs
<1> QED
  BY <1>2, <1>3, <1>4

-----------------------------------------------------------------------------
(* The actions.                                                            *)

LEMMA InitInv == Init => IInv
<1>1. SUFFICES ASSUME Init PROVE IInv
  OBVIOUS
<1>2. PICK n \in 1 .. MaxChain : chain \in [1 .. n -> Tags \cup {Unknown}]
  BY <1>1 DEF Init
<1>3. chain \in Seq(Tags \cup {Unknown}) /\ Len(chain) = n /\ n \in Nat /\ n >= 1
  BY <1>2, ChainAssumption
<1>4. chain # <<>>
  BY <1>3
<1>5. TypeOK
  <2>1. /\ builders = <<>> /\ build_udp_marker = <<>> /\ stack = <<>> /\ applied = 0
        /\ socket = <<"none", NoAddr>>
    BY <1>1 DEF Init
  <2>2. \A S : <<>> \in Seq(S)
    OBVIOUS
  <2>3. Len(<<>>) = 0 /\ 0 \in 0 .. 0
    OBVIOUS
  <2>4. applied \in 0 .. Len(builders)
    BY <2>1, <2>3
  <2>5. socket \in {"none", "tcp", "udp"} \X (Tags \cup {Target, NoAddr})
    BY <2>1
  <2> QED
    BY <1>1, <1>3, <1>4, <2>1, <2>2, <2>4, <2>5 DEF Init, TypeOK
<1>6. DOMAIN stack = {}
  BY <1>1 DEF Init
<1> QED
  BY <1>1, <1>5, <1>6 DEF Init, IInv, FieldsInv, SocketInv, StackInv, RouteInv, StreamsNest,
     TcpRoute, UdpRouteOneHop

LEMMA StepRefuse == ASSUME IInv, RefuseChain PROVE IInv'
<1>1. DOMAIN stack' = {}
  BY DEF IInv, SocketInv, RefuseChain
<1> QED
  BY <1>1 DEF RefuseChain, config, builder, IInv, TypeOK, FieldsInv, SocketInv, StackInv, RouteInv,
     StreamsNest, TcpRoute, UdpRouteOneHop

LEMMA StepBuildInnerMap == ASSUME IInv, BuildInnerMap PROVE IInv'
<1>1. chain \in Seq(Tags) /\ chain' = chain
  <2>1. chain \in Seq(Tags \cup {Unknown}) /\ \A i \in DOMAIN chain : chain[i] \in Tags
    BY DEF IInv, TypeOK, BuildInnerMap
  <2> QED
    BY <2>1 DEF BuildInnerMap, config
<1>2. DOMAIN stack' = {} /\ stack' = <<>> /\ applied' = 0 /\ phase' = "ready" /\ socket' = socket
      /\ network' = network
  BY DEF IInv, SocketInv, BuildInnerMap, config
<1>3. /\ builders' = Builders(chain) /\ last_builder' = LastBuilder(chain)
      /\ remote_addr' = IF Addrs(chain) = <<>> THEN NoAddr ELSE Head(Addrs(chain))
      /\ is_black_hole' = \E i \in DOMAIN TypesFromRight(builders', last_builder') :
                            TypesFromRight(builders', last_builder')[i] = "Blackhole"
      /\ build_udp_marker' = BuildUdpMarker(TypesFromRight(builders', last_builder'))
      /\ last_udp_addr' = LastUdpAddr(builders', last_builder', remote_addr')
  BY DEF BuildInnerMap
<1>4. FieldsInv'
  BY <1>1, <1>3, Zenon DEF FieldsInv
<1>5. TypeOK'
  <2>1. /\ builders' \in Seq(BuilderSet) /\ last_builder' \in Addressed \cup {"None"}
        /\ Len(builders') \in Nat
    BY <1>1, <1>3, BuildersType
  <2>2. remote_addr' \in Tags \cup {NoAddr}
    <3>1. Addrs(chain) \in Seq(Tags)
      BY <1>1, AddrsType
    <3> QED
      BY <1>3, <3>1, HeadTailProperties
  <2>3. last_udp_addr' \in Tags \cup {NoAddr}
    BY <1>1, <1>3, <2>2, UdpAddrType
  <2>4. build_udp_marker' \in Seq(BOOLEAN)
    BY <1>3, <2>1, MarkerFacts
  <2>5. is_black_hole' \in BOOLEAN
    BY <1>3, Zenon
  <2> QED
    BY <1>1, <1>2, <2>1, <2>2, <2>3, <2>4, <2>5 DEF IInv, TypeOK, BuilderSet
<1> QED
  BY <1>2, <1>4, <1>5 DEF IInv, SocketInv, StackInv, RouteInv, StreamsNest, TcpRoute, UdpRouteOneHop

LEMMA StepFail == ASSUME IInv, Fail PROVE IInv'
<1>1. DOMAIN stack' = {} /\ phase' = "failed" /\ stack' = <<>>
  BY DEF Fail
<1>2. TypeOK'
  BY <1>1 DEF IInv, TypeOK, Fail, config, builder
<1>3. FieldsInv'
  BY DEF IInv, FieldsInv, Fail, config, builder
<1> QED
  BY <1>1, <1>2, <1>3 DEF IInv, SocketInv, StackInv, RouteInv, StreamsNest, TcpRoute, UdpRouteOneHop

LEMMA StepConnect == ASSUME IInv, Connect PROVE IInv'
<1>1. /\ phase = "ready" /\ phase' = "building" /\ ~is_black_hole
      /\ UNCHANGED <<config, builder, applied, stack>> /\ stack = <<>> /\ applied = 0
  BY DEF Connect, IInv, SocketInv
<1>2. socket' = << IF AsTcp(1) THEN "tcp" ELSE "udp",
                   IF remote_addr = NoAddr THEN Target ELSE remote_addr >>
  BY DEF Connect, AsTcp
<1>3. TypeOK /\ FieldsInv /\ Marked
  BY <1>1 DEF IInv, Marked
<1>4. TypeOK'
  <2>1. remote_addr \in Tags \cup {NoAddr}
    BY <1>3 DEF TypeOK
  <2>2. socket' \in {"none", "tcp", "udp"} \X (Tags \cup {Target, NoAddr})
    BY <1>2, <2>1
  <2> QED
    BY <1>1, <1>3, <2>2 DEF TypeOK, config, builder
<1>5. FieldsInv'
  BY <1>1, <1>3 DEF FieldsInv, Marked, config, builder
<1>6. SocketInv'
  BY <1>1, <1>2 DEF SocketInv, AsTcp, config, builder
<1>7. DOMAIN stack' = {} /\ stack' = <<>>
  BY <1>1
<1>8. RouteInv'
  <2>1. chain \in Seq(Tags) /\ chain' = chain /\ applied' = 0
    BY <1>1, <1>3 DEF FieldsInv, Marked, config
  <2>2. Hops' = <<socket'[2]>>
    <3>1. Len(stack') = 0 /\ [i \in 1 .. 0 |-> stack'[i].addr] = <<>>
      BY <1>7
    <3>2. Present([i \in 1 .. Len(stack') |-> stack'[i].addr]) = <<>>
      BY <3>1, PresentEmpty
    <3>3. <<socket'[2]>> \o <<>> = <<socket'[2]>>
      OBVIOUS
    <3> QED
      BY <3>2, <3>3 DEF Hops
  <2>3. CASE Addrs(chain) = <<>>
    <3>1. socket'[2] = Target
      BY <1>2, <1>3, <2>3 DEF FieldsInv, Marked
    <3> QED
      BY <2>1, <2>2, <2>3, <3>1 DEF RouteInv, Reached
  <2>4. CASE Addrs(chain) # <<>>
    <3>1. Reached(0) = <<Head(Addrs(chain))>>
      BY <2>1, <2>4, ReachedEnds
    <3>2. Addrs(chain) \in Seq(Tags)
      BY <2>1, AddrsType
    <3>3. Head(Addrs(chain)) \in Tags /\ NoAddr \notin Tags
      BY <2>4, <3>2, HeadTailProperties, ChainAssumption
    <3>4. socket'[2] = Head(Addrs(chain))
      BY <1>2, <1>3, <2>4, <3>3 DEF FieldsInv, Marked
    <3>5. Reached(0)' = Reached(0)
      BY <2>1 DEF Reached
    <3> QED
      BY <2>1, <2>2, <3>1, <3>4, <3>5 DEF RouteInv
  <2> QED
    BY <2>3, <2>4
<1> QED
  BY <1>1, <1>4, <1>5, <1>6, <1>7, <1>8 DEF IInv, StackInv, StreamsNest, TcpRoute, UdpRouteOneHop

(* What a layer finds below it: streams if it needs one.                   *)
LEMMA Below ==
  ASSUME IInv, phase = "building", NEW k, k = applied + 1, k <= Top,
         \/ AsTcp(k)
         \/ k <= Len(builders) /\ IsUot(builders[k].proto)
         \/ k = Top /\ IsUot(last_builder)
  PROVE  /\ \A i \in DOMAIN stack : stack[i].kind = "stream"
         /\ AsTcp(k) => AsTcp(1)
<1>1. TypeOK /\ FieldsInv /\ Marked /\ StackInv
  BY DEF IInv, Marked
<1>2. /\ Len(builders) \in Nat /\ Top \in Nat
      /\ Top = Len(builders) + (IF last_builder = "None" THEN 0 ELSE 1)
  BY <1>1, BuilderFacts
<1>3. /\ applied \in Nat /\ k \in 1 .. Top /\ 1 \in 1 .. Top /\ k \in 1 .. Top
      /\ \A j \in 1 .. applied : j \in 1 .. Top /\ k \in j .. Top
  BY <1>1, <1>2 DEF TypeOK
<1>4. \A p \in 1 .. Top : \A q \in p .. Top : build_udp_marker[q] => build_udp_marker[p]
  BY <1>1, Marks
<1>5. AsTcp(k) => AsTcp(1)
  BY <1>3, <1>4 DEF AsTcp
<1>6. ASSUME NEW j \in 1 .. applied PROVE AsTcp(j)
  <2>1. CASE AsTcp(k)
    BY <1>3, <1>4, <2>1 DEF AsTcp
  <2>2. CASE k <= Len(builders) /\ IsUot(builders[k].proto)
    <3>1. j \in 1 .. Len(builders) /\ k \in j + 1 .. Len(builders)
      BY <1>2, <1>3, <2>2
    <3> QED
      BY <1>1, <2>2, <3>1, Marks DEF AsTcp
  <2>3. CASE k = Top /\ IsUot(last_builder)
    <3>1. applied \in 0 .. Len(builders)
      BY <1>1 DEF TypeOK
    <3>2. j \in 1 .. Len(builders)
      BY <1>2, <3>1
    <3> QED
      BY <1>1, <2>3, <3>2, Marks DEF AsTcp
  <2> QED
    BY <2>1, <2>2, <2>3
<1>7. \A i \in DOMAIN stack : stack[i].kind = "stream"
  BY <1>1, <1>6 DEF StackInv
<1> QED
  BY <1>5, <1>7

LEMMA Nest ==
  ASSUME StreamsNest, stack \in Seq(LayerSet), NEW l \in LayerSet,
         stack' = Append(stack, l), socket' = socket, l.proto # "Blackhole",
         l.kind = "stream" => socket[1] = "tcp",
         l.kind # "datagram" => \A i \in DOMAIN stack : stack[i].kind = "stream"
  PROVE  StreamsNest'
<1> DEFINE n == Len(stack)
<1>1. /\ n \in Nat /\ DOMAIN stack = 1 .. n /\ DOMAIN stack' = 1 .. n + 1
      /\ \A i \in 1 .. n : stack'[i] = stack[i]
      /\ stack'[n + 1] = l
  BY AppendProperties
<1> HIDE DEF n
<1>2. SUFFICES ASSUME NEW i \in 1 .. n + 1
               PROVE  /\ stack'[i].proto # "Blackhole"
                      /\ stack'[i].kind = "stream" \/ (stack'[i].kind = "uot" /\ i > 1)
                           => StreamBelow(i)'
  BY <1>1 DEF StreamsNest
<1>3. CASE i \in 1 .. n
  <2>1. i > 1 => i - 1 \in 1 .. n
    BY <1>1, <1>3
  <2>2. StreamBelow(i)' = StreamBelow(i)
    BY <1>1, <1>3, <2>1 DEF StreamBelow
  <2> QED
    BY <1>1, <1>3, <2>2 DEF StreamsNest
<1>4. CASE i = n + 1
  <2>1. stack'[i] = l
    BY <1>1, <1>4
  <2>2. ASSUME l.kind # "datagram", i > 1 PROVE StreamBelow(i)'
    <3>1. i - 1 \in 1 .. n /\ i # 1
      BY <1>1, <1>4, <2>2
    <3> QED
      BY <1>1, <2>2, <3>1 DEF StreamBelow
  <2>3. ASSUME l.kind = "stream", i = 1 PROVE StreamBelow(i)'
    BY <2>3 DEF StreamBelow
  <2>4. i = 1 \/ i > 1
    BY <1>1
  <2> QED
    BY <2>1, <2>2, <2>3, <2>4
<1> QED
  BY <1>1, <1>3, <1>4

LEMMA StackType == ASSUME TypeOK PROVE stack \in Seq(LayerSet)
BY DEF TypeOK, LayerSet, AddrSet

LEMMA StepBuildLayer == ASSUME IInv, BuildLayer PROVE IInv'
<1>0. PICK k, b : k = applied + 1 /\ b = builders[k]
  OBVIOUS
<1>1. /\ phase = "building" /\ phase' = "building" /\ applied' = k /\ applied < Len(builders)
      /\ UNCHANGED <<config, phase, builder, socket>>
      /\ stack' = stack \o Wrap(b, AsTcp(k))
  BY <1>0 DEF BuildLayer, AsTcp
<1>2. TypeOK /\ FieldsInv /\ Marked /\ SocketInv /\ StackInv /\ RouteInv /\ StreamsNest
  BY <1>1 DEF IInv, Marked
<1>3. /\ Len(builders) \in Nat /\ Top \in Nat /\ Len(builders) <= Top
      /\ chain \in Seq(Tags) /\ builders = Builders(chain)
  BY <1>2, BuilderFacts
<1>4. applied \in Nat /\ k \in Nat /\ k \in 1 .. Len(builders) /\ k \in 1 .. Top /\ k <= Top
  BY <1>0, <1>1, <1>2, <1>3 DEF TypeOK
<1>5. b \in BuilderSet /\ (b.proto \notin Addressed => b.addr = NoAddr) /\ b.proto # "Blackhole"
  BY <1>0, <1>1, <1>2, <1>4, NoServerNoAddr, NoBlackhole DEF SocketInv
<1>6. AsTcp(k) \in BOOLEAN /\ stack \in Seq(LayerSet)
  <2>1. build_udp_marker[k] \in BOOLEAN
    BY <1>2, <1>4 DEF TypeOK, Top
  <2> QED
    BY <1>2, <2>1, StackType DEF AsTcp
<1>7. FieldsInv'
  BY <1>1, <1>2 DEF FieldsInv, Marked, config, builder
<1>8. SocketInv'
  BY <1>1, <1>2 DEF SocketInv, AsTcp, config, builder
<1>9. \A j : AsTcp(j)' <=> AsTcp(j)
  BY <1>1 DEF AsTcp, config, builder
<1>10. last_builder' = last_builder /\ last_udp_addr' = last_udp_addr /\ socket' = socket
       /\ chain' = chain /\ builders' = builders
  BY <1>1 DEF config, builder
<1>11. Reached(k)' = IF b.addr = NoAddr THEN Reached(applied) ELSE Append(Reached(applied), b.addr)
  <2>1. Reached(k) = IF b.addr = NoAddr THEN Reached(applied) ELSE Append(Reached(applied), b.addr)
    BY <1>0, <1>3, <1>4, ReachedStep
  <2>2. Reached(k)' = Reached(k)
    BY <1>10 DEF Reached
  <2> QED
    BY <2>1, <2>2
<1>12. CASE b.proto \notin Addressed /\ stack' = stack
  <2>1. TypeOK'
    BY <1>1, <1>2, <1>4, <1>12 DEF TypeOK, config, builder
  <2>2. StackInv'
    <3>1. \A j \in 1 .. applied : j \in 1 .. applied'
      BY <1>0, <1>1, <1>4
    <3> QED
      BY <1>1, <1>2, <1>9, <1>10, <1>12, <3>1 DEF StackInv
  <2>3. RouteInv'
    <3>1. Hops' = Hops /\ DatagramLayers' = DatagramLayers
      BY <1>10, <1>12 DEF Hops, DatagramLayers
    <3>2. Reached(k)' = Reached(applied)
      BY <1>5, <1>11, <1>12
    <3>3. Reached(applied)' = Reached(k)'
      BY <1>1 DEF Reached
    <3> QED
      BY <1>1, <1>2, <3>1, <3>2, <3>3 DEF RouteInv
  <2>4. StreamsNest'
    BY <1>1, <1>2, <1>12 DEF StreamsNest, StreamBelow
  <2> QED
    BY <1>1, <1>7, <1>8, <2>1, <2>2, <2>3, <2>4 DEF IInv, TcpRoute, UdpRouteOneHop
<1>13. ASSUME NEW l \in LayerSet, stack' = Append(stack, l), l.proto = b.proto, l.addr = b.addr,
              l.kind = "stream" <=> AsTcp(k),
              l.kind = "uot" <=> ~AsTcp(k) /\ IsUot(b.proto),
              l.kind = "datagram" => b.proto = "SS"
       PROVE  IInv'
  <2>1. PICK n : n = Len(stack)
    OBVIOUS
  <2>2. /\ n \in Nat /\ stack' \in Seq(LayerSet) /\ Len(stack') = n + 1
        /\ DOMAIN stack = 1 .. n /\ DOMAIN stack' = 1 .. n + 1
        /\ \A i \in 1 .. n : stack'[i] = stack[i]
        /\ stack'[n + 1] = l
    BY <1>6, <1>13, <2>1, AppendProperties
  <2>3. l.kind \in {"stream", "uot", "datagram"} /\ l.proto # "Blackhole"
    BY <1>5, <1>13 DEF LayerSet
  <2>4. ASSUME l.kind # "datagram"
        PROVE  /\ \A i \in DOMAIN stack : stack[i].kind = "stream"
               /\ AsTcp(k) => AsTcp(1)
    <3>1. AsTcp(k) \/ (k <= Len(builders) /\ IsUot(builders[k].proto))
      BY <1>0, <1>4, <1>13, <2>3, <2>4
    <3> QED
      BY <1>0, <1>1, <1>4, <3>1, Below
  <2>5. ASSUME l.kind # "stream"
        PROVE  /\ ~AsTcp(k) /\ last_builder = "SS"
               /\ l.kind = "uot" => last_udp_addr = l.addr
    <3>1. ~AsTcp(k) /\ ~build_udp_marker[k]
      BY <1>13, <2>5 DEF AsTcp
    <3>2. CASE l.kind = "uot"
      BY <1>0, <1>2, <1>4, <1>13, <3>1, <3>2, Marks
    <3>3. CASE l.kind = "datagram"
      BY <1>0, <1>2, <1>4, <1>13, <3>1, <3>3, Marks
    <3> QED
      BY <2>3, <2>5, <3>1, <3>2, <3>3
  <2>6. TypeOK'
    <3>1. applied' \in 0 .. Len(builders')
      BY <1>1, <1>4, <1>10
    <3> QED
      BY <1>1, <1>2, <2>2, <3>1 DEF TypeOK, config, builder, LayerSet, AddrSet
  <2>7. StackInv'
    <3>1. SUFFICES ASSUME NEW i \in 1 .. n + 1
          PROVE  /\ stack'[i].kind = "stream" => AsTcp(1)
                 /\ stack'[i].kind # "stream" => /\ \E j \in 1 .. applied' : ~AsTcp(j)
                                                /\ last_builder = "SS"
                 /\ stack'[i].kind = "uot" =>
                      /\ last_udp_addr = stack'[i].addr
                      /\ \A j \in i + 1 .. n + 1 : stack'[j].kind = "datagram"
      BY <1>9, <1>10, <2>2 DEF StackInv
    <3>2. CASE i \in 1 .. n
      <4>1. /\ stack'[i] = stack[i] /\ i \in DOMAIN stack
            /\ \A j \in 1 .. applied : j \in 1 .. applied'
        BY <1>0, <1>1, <1>4, <2>2, <3>2
      <4>2. /\ stack[i].kind = "stream" => AsTcp(1)
            /\ stack[i].kind # "stream" => /\ \E j \in 1 .. applied : ~AsTcp(j)
                                          /\ last_builder = "SS"
            /\ stack[i].kind = "uot" => /\ last_udp_addr = stack[i].addr
                                       /\ \A j \in i + 1 .. n : stack[j].kind = "datagram"
        BY <1>1, <1>2, <2>1, <4>1 DEF StackInv
      <4>3. ASSUME stack[i].kind = "uot", NEW j \in i + 1 .. n + 1
            PROVE  stack'[j].kind = "datagram"
        <5>1. CASE j = n + 1
          <6>1. stack[i].kind # "stream"
            BY <4>3
          <6>2. l.kind = "datagram"
            BY <2>4, <4>1, <6>1
          <6> QED
            BY <2>2, <5>1, <6>2
        <5>2. CASE j # n + 1
          <6>1. j \in i + 1 .. n /\ j \in 1 .. n
            BY <2>2, <3>2, <4>3, <5>2
          <6> QED
            BY <2>2, <4>2, <4>3, <6>1
        <5> QED
          BY <5>1, <5>2
      <4> QED
        BY <4>1, <4>2, <4>3
    <3>3. CASE i = n + 1
      <4>1. stack'[i] = l /\ i + 1 .. n + 1 = {} /\ k \in 1 .. applied'
        BY <1>1, <1>4, <2>2, <3>3
      <4>2. l.kind = "stream" => AsTcp(1)
        BY <1>13, <2>3, <2>4
      <4> QED
        BY <2>5, <4>1, <4>2
    <3> QED
      BY <2>2, <3>2, <3>3
  <2>8. StreamsNest'
    <3>1. l.kind = "stream" => socket[1] = "tcp"
      <4>1. ASSUME l.kind = "stream" PROVE AsTcp(1)
        BY <1>13, <2>4, <4>1
      <4> QED
        BY <1>1, <1>2, <4>1 DEF SocketInv
    <3> QED
      BY <1>2, <1>6, <1>10, <1>13, <2>3, <2>4, <3>1, Nest
  <2>9. RouteInv'
    <3>1. SUFFICES ASSUME DatagramLayers' = {} PROVE Hops' = Reached(k)'
      <4>1. Reached(applied)' = Reached(k)'
        BY <1>1 DEF Reached
      <4> QED
        BY <4>1 DEF RouteInv
    <3>2. DatagramLayers = {}
      <4>1. \A i \in 1 .. n : i \in 1 .. n + 1
        BY <2>2
      <4> QED
        BY <2>2, <3>1, <4>1 DEF DatagramLayers
    <3>3. Hops = Reached(applied)
      BY <1>1, <1>2, <3>2 DEF RouteInv
    <3>4. PICK h, x : h = [i \in 1 .. Len(stack) |-> stack[i].addr] /\ x = socket[2]
      OBVIOUS
    <3>5. h \in Seq(AddrSet) /\ l.addr \in AddrSet /\ x \in AddrSet
      BY <1>2, <1>6, <1>13, <3>4, AddrsOfStack DEF TypeOK, LayerSet, AddrSet
    <3>6. [i \in 1 .. Len(stack') |-> stack'[i].addr] = Append(h, l.addr)
      BY <1>6, <1>13, <3>4, AddrsOfStack
    <3>7. Hops = Along(x, h) /\ Hops' = Along(x, Append(h, l.addr))
      BY <1>10, <3>4, <3>6 DEF Hops, Along
    <3>8. Hops' = IF l.addr = NoAddr THEN Hops ELSE Append(Hops, l.addr)
      BY <3>5, <3>7, AlongAppend
    <3> QED
      BY <1>11, <1>13, <3>3, <3>8
  <2> QED
    BY <1>1, <1>7, <1>8, <2>6, <2>7, <2>8, <2>9 DEF IInv, TcpRoute, UdpRouteOneHop
<1>14. b \in [proto : ProtocolType, addr : AddrSet]
  BY <1>5 DEF BuilderSet, AddrSet
<1> QED
  BY <1>1, <1>6, <1>12, <1>13, <1>14, WrapFacts

(* The last layer, where there is one: the layers below name the servers,  *)
(* and it names the target.                                                *)
LEMMA LastHop ==
  ASSUME IInv, phase = "building", applied = Len(builders), DatagramLayers = {},
         Addrs(chain) # <<>>, chain' = chain, socket' = socket,
         NEW l \in LayerSet, stack' = Append(stack, l),
         NEW n, n = Len(stack), Header(n + 1)' = Target,
         \A i \in 1 .. n : Header(i)' = stack[i].addr
  PROVE  (Path = ConfiguredRoute)'
<1>1. TypeOK /\ FieldsInv /\ Marked /\ RouteInv
  BY DEF IInv, Marked
<1>2. chain \in Seq(Tags) /\ builders = Builders(chain)
  BY <1>1, BuilderFacts
<1>3. stack \in Seq(LayerSet)
  BY <1>1, StackType
<1>4. Hops = Addrs(chain)
  BY <1>1, <1>2, ReachedEnds DEF RouteInv
<1>5. PICK h, x : h = [i \in 1 .. Len(stack) |-> stack[i].addr] /\ x = socket[2]
  OBVIOUS
<1>6. /\ h \in Seq(AddrSet) /\ x \in AddrSet /\ Target \in AddrSet /\ Target # NoAddr
      /\ Len(h) = n /\ n \in Nat /\ \A i \in 1 .. n : h[i] = stack[i].addr
  <2>1. h \in Seq(AddrSet)
    BY <1>3, <1>5, AddrsOfStack
  <2>2. n \in Nat
    BY <1>3, <1>5
  <2> QED
    BY <1>1, <1>5, <2>1, <2>2, ChainAssumption DEF TypeOK, AddrSet
<1>7. Len(stack') = n + 1
  BY <1>3, <1>5, AddrsOfStack
<1>8. [i \in 1 .. Len(stack') |-> Header(i)'] = Append(h, Target)
  <2>1. /\ Append(h, Target) \in Seq(AddrSet) /\ Len(Append(h, Target)) = n + 1
        /\ \A i \in 1 .. n : Append(h, Target)[i] = h[i]
        /\ Append(h, Target)[n + 1] = Target
    BY <1>6, AppendProperties
  <2>2. \A i \in 1 .. n + 1 : Header(i)' = Append(h, Target)[i]
    <3>1. SUFFICES ASSUME NEW i \in 1 .. n + 1 PROVE Header(i)' = Append(h, Target)[i]
      OBVIOUS
    <3>2. CASE i \in 1 .. n
      BY <1>5, <1>6, <2>1, <3>2
    <3>3. CASE i = n + 1
      BY <2>1, <3>3
    <3> QED
      BY <1>6, <3>2, <3>3
  <2>3. PICK g : g = Append(h, Target)
    OBVIOUS
  <2>4. g = [i \in 1 .. n + 1 |-> g[i]]
    <3>1. g \in Seq(AddrSet) /\ Len(g) = n + 1
      BY <2>1, <2>3
    <3> QED
      BY <3>1
  <2>5. [i \in 1 .. n + 1 |-> Header(i)'] = [i \in 1 .. n + 1 |-> g[i]]
    BY <2>2, <2>3
  <2> QED
    BY <1>7, <2>3, <2>4, <2>5
<1>9. Path' = Along(x, Append(h, Target))
  BY <1>5, <1>8 DEF Path, Along
<1>10. Hops = Along(x, h)
  BY <1>5 DEF Hops, Along
<1>11. Path' = Append(Addrs(chain), Target)
  BY <1>4, <1>6, <1>9, <1>10, AlongAppend
<1>12. Addrs(chain) \in Seq(Tags \cup {Target}) /\ Target \in Tags \cup {Target}
  <2>1. Addrs(chain) \in Seq(Tags) /\ Tags \subseteq Tags \cup {Target}
    BY <1>2, AddrsType
  <2> QED
    BY <2>1, SeqMonotonic
<1>13. Append(Addrs(chain), Target) = Addrs(chain) \o <<Target>>
  BY <1>12, AppendIsConcat
<1> QED
  BY <1>11, <1>13 DEF ConfiguredRoute

(* No address is named for a chain without a server.                       *)
LEMMA NoHop ==
  ASSUME IInv, phase = "building", applied = Len(builders), last_builder = "None",
         chain' = chain, socket' = socket, stack' = stack
  PROVE  (Path = ConfiguredRoute)'
<1>1. TypeOK /\ FieldsInv /\ Marked /\ RouteInv /\ StackInv
  BY DEF IInv, Marked
<1>2. chain \in Seq(Tags) /\ last_builder = LastBuilder(chain)
  BY <1>1, BuilderFacts
<1>3. Addrs(chain) = <<>>
  BY <1>2, BuildersType, LastServer
<1>4. stack \in Seq(LayerSet)
  BY <1>1, StackType
<1>5. \A i \in 1 .. Len(stack) : stack[i].kind = "stream"
  BY <1>1, <1>4 DEF StackInv
<1>6. DatagramLayers = {}
  BY <1>4, <1>5 DEF DatagramLayers
<1>7. Hops = <<Target>>
  BY <1>1, <1>3, <1>6 DEF RouteInv, Reached
<1>8. \A i \in 1 .. Len(stack) : Header(i)' = stack[i].addr
  BY <1>5 DEF Header
<1>9. [i \in 1 .. Len(stack') |-> Header(i)'] = [i \in 1 .. Len(stack) |-> stack[i].addr]
  BY <1>8
<1>10. Path' = Hops
  BY <1>9 DEF Path, Hops
<1>11. <<>> \o <<Target>> = <<Target>>
  OBVIOUS
<1> QED
  BY <1>3, <1>7, <1>10, <1>11 DEF ConfiguredRoute

LEMMA StepBuildLast == ASSUME IInv, BuildLast PROVE IInv'
<1>1. /\ phase = "building" /\ phase' = "built" /\ applied = Len(builders)
      /\ UNCHANGED <<config, builder, socket, applied>>
  BY DEF BuildLast
<1>2. TypeOK /\ FieldsInv /\ Marked /\ SocketInv /\ StackInv /\ StreamsNest
  BY <1>1 DEF IInv, Marked
<1>3. /\ Len(builders) \in Nat /\ chain \in Seq(Tags) /\ last_builder = LastBuilder(chain)
      /\ last_builder \in Addressed \cup {"None"}
      /\ Top = Len(builders) + (IF last_builder = "None" THEN 0 ELSE 1) /\ Top >= 1
  BY <1>2, BuilderFacts
<1>4. FieldsInv'
  BY <1>1, <1>2 DEF FieldsInv, Marked, config, builder
<1>5. SocketInv'
  BY <1>1, <1>2 DEF SocketInv, AsTcp, config, builder
<1>6. chain' = chain /\ socket' = socket /\ network' = network
  BY <1>1 DEF config
<1>7. stack \in Seq(LayerSet)
  BY <1>2, StackType
<1>8. CASE last_builder = "None"
  <2>1. stack' = stack
    BY <1>8 DEF BuildLast
  <2>2. TypeOK'
    BY <1>1, <1>2, <2>1 DEF TypeOK, config, builder
  <2>3. StreamsNest'
    BY <1>2, <1>6, <2>1 DEF StreamsNest, StreamBelow
  <2>4. (Path = ConfiguredRoute)'
    BY <1>1, <1>6, <1>8, <2>1, NoHop
  <2> QED
    BY <1>1, <1>4, <1>5, <2>2, <2>3, <2>4 DEF IInv, StackInv, RouteInv, TcpRoute, UdpRouteOneHop
<1>9. CASE last_builder # "None"
  <2> DEFINE addr == IF network = "tcp" \/ IsUot(last_builder) THEN Target ELSE last_udp_addr
             b == Builder(last_builder, addr)
             tcp == AsTcp(Top)
  <2>1. stack' = stack \o Wrap(b, tcp)
    BY <1>9 DEF BuildLast, Top
  <2>2. /\ last_builder \in Addressed /\ Top = Len(builders) + 1 /\ Top = applied + 1 /\ Top <= Top
        /\ Addrs(chain) # <<>>
    <3>1. HasLast(chain)
      BY <1>3, <1>9, BuildersType
    <3> QED
      BY <1>1, <1>3, <1>9, <3>1, LastServer
  <2>3. tcp <=> network = "tcp"
    BY <1>2, Marks DEF AsTcp
  <2>4. b \in [proto : ProtocolType, addr : AddrSet] /\ b.proto = last_builder /\ b.addr = addr
    BY <1>2, <2>2 DEF Builder, TypeOK, ProtocolType, AddrSet
  <2>5. tcp \in BOOLEAN
    BY <2>3 DEF AsTcp
  <2> HIDE DEF b, tcp
  <2>6. PICK l \in LayerSet : /\ stack' = Append(stack, l)
                              /\ l.proto = last_builder /\ l.addr = addr
                              /\ l.kind = "stream" <=> tcp
                              /\ l.kind = "uot" <=> ~tcp /\ IsUot(last_builder)
                              /\ l.kind = "datagram" => last_builder = "SS"
    BY <1>7, <2>1, <2>2, <2>4, <2>5, WrapFacts
  <2>7. l.kind \in {"stream", "uot", "datagram"} /\ l.proto # "Blackhole"
    BY <2>2, <2>6 DEF LayerSet, Addressed
  <2>8. PICK n : n = Len(stack)
    OBVIOUS
  <2>9. /\ n \in Nat /\ stack' \in Seq(LayerSet) /\ Len(stack') = n + 1
        /\ DOMAIN stack = 1 .. n /\ DOMAIN stack' = 1 .. n + 1
        /\ \A i \in 1 .. n : stack'[i] = stack[i]
        /\ stack'[n + 1] = l
    BY <1>7, <2>6, <2>8, AppendProperties
  <2>10. ASSUME l.kind # "datagram"
         PROVE  /\ \A i \in DOMAIN stack : stack[i].kind = "stream"
                /\ AsTcp(Top) => AsTcp(1)
    <3>1. PICK k : k = Top
      OBVIOUS
    <3>2. AsTcp(k) \/ (k = Top /\ IsUot(last_builder))
      BY <2>6, <2>7, <2>10, <3>1 DEF tcp
    <3>3. k = applied + 1 /\ k <= Top
      BY <2>2, <3>1
    <3>4. /\ \A i \in DOMAIN stack : stack[i].kind = "stream"
          /\ AsTcp(k) => AsTcp(1)
      BY <1>1, <3>2, <3>3, Below
    <3> QED
      BY <3>1, <3>4
  <2>11. TypeOK'
    BY <1>1, <1>2, <2>9 DEF TypeOK, config, builder, LayerSet, AddrSet
  <2>12. StreamsNest'
    <3>1. l.kind = "stream" => socket[1] = "tcp"
      <4>1. ASSUME l.kind = "stream" PROVE AsTcp(1)
        BY <2>6, <2>10, <4>1 DEF tcp
      <4> QED
        BY <1>1, <1>2, <4>1 DEF SocketInv
    <3> QED
      BY <1>2, <1>6, <1>7, <2>6, <2>7, <2>10, <3>1, Nest
  <2>13. ASSUME DatagramLayers = {} PROVE (Path = ConfiguredRoute)'
    <3>1. Header(n + 1)' = Target
      <4>1. CASE l.kind = "datagram"
        BY <2>6, <2>9, <4>1 DEF Header
      <4>2. CASE l.kind # "datagram"
        <5>1. l.addr = Target
          BY <2>3, <2>6, <2>7, <4>2
        <5> QED
          BY <2>6, <2>9, <5>1 DEF Header
      <4> QED
        BY <4>1, <4>2
    <3>2. ASSUME NEW i \in 1 .. n PROVE Header(i)' = stack[i].addr
      <4>1. stack'[i] = stack[i] /\ i # n + 1 /\ i \in DOMAIN stack
        BY <2>9
      <4>2. stack[i].kind # "datagram"
        BY <2>13, <4>1 DEF DatagramLayers
      <4>3. CASE stack[i].kind = "stream"
        BY <4>1, <4>3 DEF Header
      <4>4. CASE stack[i].kind = "uot"
        <5>1. /\ last_udp_addr = stack[i].addr /\ last_builder = "SS"
              /\ \A j \in i + 1 .. n : stack[j].kind = "datagram"
              /\ \E j \in 1 .. applied : ~AsTcp(j)
          BY <1>1, <1>2, <2>8, <4>1, <4>4 DEF StackInv
        <5>2. network # "tcp"
          BY <5>1 DEF AsTcp
        <5>3. i = n
          <6>1. SUFFICES ASSUME i # n PROVE FALSE
            OBVIOUS
          <6>2. i + 1 \in i + 1 .. n /\ i + 1 \in DOMAIN stack
            BY <2>9, <6>1
          <6> QED
            BY <2>13, <5>1, <6>2 DEF DatagramLayers
        <5>4. stack'[i + 1].addr = stack[i].addr
          BY <2>6, <2>9, <5>1, <5>2, <5>3 DEF IsUot
        <5> QED
          BY <2>9, <4>1, <5>4 DEF Header
      <4>5. stack[i] \in LayerSet
        BY <1>7, <2>8, ElementOfSeq
      <4>6. stack[i].kind \in {"stream", "uot", "datagram"}
        BY <4>5 DEF LayerSet
      <4> QED
        BY <4>2, <4>3, <4>4, <4>6
    <3> QED
      BY <1>1, <1>6, <2>2, <2>6, <2>8, <2>13, <3>1, <3>2, LastHop
  <2>14. TcpRoute'
    <3>1. SUFFICES ASSUME network = "tcp" PROVE (Path = ConfiguredRoute)'
      BY <1>6 DEF TcpRoute
    <3>2. DatagramLayers = {}
      BY <1>1, <1>2, <3>1 DEF DatagramLayers, StackInv, AsTcp
    <3> QED
      BY <2>13, <3>2
  <2>15. UdpRouteOneHop'
    <3>1. SUFFICES ASSUME Cardinality(DatagramLayers') <= 1, network = "udp"
                   PROVE  (Path = ConfiguredRoute)'
      BY <1>6 DEF UdpRouteOneHop
    <3>2. SUFFICES ASSUME DatagramLayers # {} PROVE FALSE
      BY <2>13
    <3>3. PICK i \in DOMAIN stack : stack[i].kind = "datagram"
      BY <3>2 DEF DatagramLayers
    <3>4. last_builder = "SS"
      BY <1>1, <1>2, <3>3 DEF StackInv
    <3>5. l.kind = "datagram"
      BY <2>3, <2>6, <2>7, <3>1, <3>4 DEF IsUot
    <3>6. i \in DatagramLayers' /\ n + 1 \in DatagramLayers' /\ i # n + 1
      BY <2>9, <3>3, <3>5 DEF DatagramLayers
    <3>7. PICK D : D = DatagramLayers'
      OBVIOUS
    <3>8. IsFiniteSet(1 .. n + 1) /\ D \subseteq 1 .. n + 1
      BY <2>9, <3>7, FS_Interval DEF DatagramLayers
    <3>9. IsFiniteSet(D) /\ {i, n + 1} \subseteq D
      BY <3>6, <3>7, <3>8, FS_Subset
    <3>10. IsFiniteSet({i}) /\ Cardinality({i}) = 1
      BY FS_Singleton
    <3>11. Cardinality({i} \cup {n + 1}) = 2
      BY <3>6, <3>10, FS_AddElement
    <3>12. {i} \cup {n + 1} = {i, n + 1}
      OBVIOUS
    <3>13. Cardinality({i, n + 1}) <= Cardinality(D)
      BY <3>9, FS_Subset
    <3>14. Cardinality(D) \in Nat
      BY <3>9, FS_CardinalityType
    <3> QED
      BY <3>1, <3>7, <3>11, <3>12, <3>13, <3>14
  <2> QED
    BY <1>1, <1>4, <1>5, <2>11, <2>12, <2>14, <2>15 DEF IInv, StackInv, RouteInv
<1> QED
  BY <1>8, <1>9

LEMMA NextInv == IInv /\ [Next]_vars => IInv'
<1>1. SUFFICES ASSUME IInv, [Next]_vars PROVE IInv'
  OBVIOUS
<1>2. CASE UNCHANGED vars
  <2>1. UNCHANGED <<chain, network, phase, builders, last_builder, remote_addr, is_black_hole,
                    build_udp_marker, last_udp_addr, applied, stack, socket>>
    BY <1>2 DEF vars, config, builder
  <2>2. TypeOK' /\ FieldsInv'
    BY <1>1, <2>1 DEF IInv, TypeOK, FieldsInv
  <2>3. SocketInv' /\ StackInv'
    BY <1>1, <2>1 DEF IInv, SocketInv, StackInv, AsTcp
  <2>4. RouteInv'
    BY <1>1, <2>1 DEF IInv, RouteInv, DatagramLayers, Hops, Reached
  <2>5. StreamsNest'
    BY <1>1, <2>1 DEF IInv, StreamsNest, StreamBelow
  <2>6. Path' = Path /\ ConfiguredRoute' = ConfiguredRoute
    BY <2>1 DEF Path, Header, ConfiguredRoute
  <2>7. TcpRoute' /\ UdpRouteOneHop'
    BY <1>1, <2>1, <2>6 DEF IInv, TcpRoute, UdpRouteOneHop, DatagramLayers
  <2> QED
    BY <2>2, <2>3, <2>4, <2>5, <2>7 DEF IInv
<1> QED
  BY <1>1, <1>2, StepRefuse, StepBuildInnerMap, StepConnect, StepBuildLayer, StepBuildLast, StepFail
     DEF Next

-----------------------------------------------------------------------------
(* The invariant: the fields are those of the chain, the layers are built  *)
(* as build_udp_marker says, and the addresses they name are the servers   *)
(* that the builders used so far account for.                              *)
THEOREM ChainInvariant == Spec => []IInv
<1>1. Init => IInv
  BY InitInv
<1>2. IInv /\ [Next]_vars => IInv'
  BY NextInv
<1> QED
  BY <1>1, <1>2, PTL DEF Spec

(* A TCP connection through a chain of any length and any mix of protocols *)
(* visits its servers in order and ends at the target: what build_inner_map *)
(* pairs in two passes is what build_tcp needs.                            *)
THEOREM ChainTcpRoute == Spec => []TcpRoute
<1>1. IInv => TcpRoute
  BY DEF IInv
<1> QED
  BY <1>1, ChainInvariant, PTL

(* So does a UDP session with at most one Shadowsocks layer of datagrams:  *)
(* the index that build_inner_markers computes from the right is that of   *)
(* the UoT layer below it.                                                 *)
THEOREM ChainUdpRoute == Spec => []UdpRouteOneHop
<1>1. IInv => UdpRouteOneHop
  BY DEF IInv
<1> QED
  BY <1>1, ChainInvariant, PTL

(* Layers that need a byte stream have one below, for every chain, and no  *)
(* black hole is asked to build.                                           *)
THEOREM ChainStreamsNest == Spec => []StreamsNest
<1>1. IInv => StreamsNest
  BY DEF IInv
<1> QED
  BY <1>1, ChainInvariant, PTL
=============================================================================
