---------------------------- MODULE SharedProofs ----------------------------
(***************************************************************************)
(* Proofs about the two structures that all connections share: the salt    *)
(* context of Shadowsocks and the router's CIDR matcher.                   *)
(*                                                                         *)
(* For any number of streams and salts and any size of the filters, no     *)
(* salt is used twice within ItemCount uses.  The argument: FiltersHold    *)
(* says exactly which part of the history each filter holds, and           *)
(* CheckedIsFresh carries the outcome of a check to the set that relies on *)
(* it; both are needed to show that Set preserves NoReuse.                 *)
(*                                                                         *)
(* For addresses of any width and any sequence of rules, the vectors of    *)
(* the matcher are a tree and get returns the longest match.  The          *)
(* argument: every node can be named by the bits that lead to it, no two   *)
(* alike; a descent meets exactly the nodes named by the key's prefixes,   *)
(* so put neither moves a node nor makes one twice, and the nodes with a   *)
(* value are those of the blocks with a rule.                              *)
(***************************************************************************)
EXTENDS SaltContext, IpTrie, FiniteSetTheorems, SequenceTheorems, WellFoundedInduction, TLAPS


(* The filters start empty, nobody is in check_and_set. *)
LEMMA InitIInv == Init => IInv
<1> SUFFICES ASSUME Init PROVE IInv
  OBVIOUS
<1>1. used = <<>> /\ Len(used) = 0
  BY DEF Init
<1>2. TypeOK
  BY SaltAssumption, <1>1 DEF Init, TypeOK, PC
<1>3. CheckedIsFresh
  BY DEF Init, CheckedIsFresh
<1>4. FiltersHold
  <2>1. current = 0 /\ bloom_count[0] = 0 /\ blooms[0] = {} /\ blooms[1] = {}
    BY DEF Init
  <2> QED
    BY <1>1, <2>1 DEF FiltersHold
<1>5. NoReuse
  BY <1>1 DEF NoReuse
<1> QED
  BY <1>2, <1>3, <1>4, <1>5 DEF IInv

(* An interval grown by one number at its end. *)
LEMMA IntervalGrows ==
  ASSUME NEW a \in Int, NEW n \in Int, a <= n + 1
  PROVE  a .. n + 1 = (a .. n) \cup {n + 1}
OBVIOUS

(* The steps that leave the filters and the history alone keep what is     *)
(* said of them.                                                           *)
LEMMA FrameIInv ==
  ASSUME IInv, UNCHANGED <<ppbloom, used>> PROVE FiltersHold' /\ NoReuse'
BY DEF IInv, FiltersHold, NoReuse, ppbloom

(* New, Draw, ReadIv, ReadIvEof, Lock and Check preserve the invariant.    *)
LEMMA WaitIInv ==
  ASSUME IInv, NEW s \in Streams,
         New(s) \/ Draw(s) \/ ReadIv(s) \/ ReadIvEof(s) \/ Lock(s) \/ Check(s)
  PROVE  IInv'
<1> USE DEF Goto
<1>1. UNCHANGED <<ppbloom, used>>
  BY DEF New, Draw, ReadIv, ReadIvEof, Lock, Check
<1>2. TypeOK'
  <2>1. CASE New(s)
    BY <2>1 DEF New, IInv, TypeOK, PC, ppbloom
  <2>2. CASE Draw(s)
    BY <2>2 DEF Draw, IInv, TypeOK, PC, ppbloom
  <2>3. CASE ReadIv(s)
    BY <2>3 DEF ReadIv, IInv, TypeOK, PC, ppbloom
  <2>4. CASE ReadIvEof(s)
    BY <2>4 DEF ReadIvEof, IInv, TypeOK, PC, ppbloom
  <2>5. CASE Lock(s)
    BY <2>5 DEF Lock, IInv, TypeOK, PC, ppbloom
  <2>6. CASE Check(s)
    BY <2>6 DEF Check, IInv, TypeOK, PC, ppbloom
  <2> QED
    BY <2>1, <2>2, <2>3, <2>4, <2>5, <2>6
<1>3. CheckedIsFresh'
  <2> SUFFICES ASSUME NEW t \in Streams
               PROVE  /\ pc'[t] \in {"check", "set"} => lock' = t
                      /\ pc'[t] = "set" => salt'[t] \notin blooms[0] \cup blooms[1]
    BY <1>1 DEF CheckedIsFresh, ppbloom
  <2>0. /\ pc[t] \in {"check", "set"} => lock = t
        /\ pc[t] = "set" => salt[t] \notin blooms[0] \cup blooms[1]
        /\ pc[s] \in {"check", "set"} => lock = s
        /\ pc \in [Streams -> PC] /\ salt \in [Streams -> Salts]
        /\ Unlocked \notin Streams
    BY SaltAssumption DEF IInv, CheckedIsFresh, TypeOK
  <2>1. CASE New(s)
    BY <2>0, <2>1 DEF New
  <2>2. CASE Draw(s)
    BY <2>0, <2>2 DEF Draw
  <2>3. CASE ReadIv(s)
    BY <2>0, <2>3 DEF ReadIv
  <2>4. CASE ReadIvEof(s)
    BY <2>0, <2>4 DEF ReadIvEof
  <2>5. CASE Lock(s)
    BY <2>0, <2>5 DEF Lock
  <2>6. CASE Check(s)
    BY <2>0, <2>6 DEF Check, BloomCheck
  <2> QED
    BY <2>1, <2>2, <2>3, <2>4, <2>5, <2>6
<1> QED
  BY <1>1, <1>2, <1>3, FrameIInv DEF IInv

(* Set preserves it: a salt that is in neither filter was last used before *)
(* all that the filters hold.                                              *)
LEMMA SetIInv ==
  ASSUME IInv, NEW s \in Streams, Set(s) PROVE IInv'
<1> DEFINE n      == Len(used)
           switch == Switch(bloom_count[current])
           cur    == IF switch THEN 1 - current ELSE current
           x      == salt[s]
<1>1. /\ blooms \in [0 .. 1 -> SUBSET Salts] /\ bloom_count \in [0 .. 1 -> 0 .. ItemCount]
      /\ current \in 0 .. 1 /\ used \in Seq(Salts) /\ x \in Salts /\ n \in Nat
      /\ ItemCount \in Nat \ {0}
  BY SaltAssumption DEF IInv, TypeOK
<1>2. /\ pc[s] = "set" /\ current' = cur
      /\ blooms' = [blooms EXCEPT ![cur] = (IF switch THEN {} ELSE @) \cup {x}]
      /\ bloom_count' = [bloom_count EXCEPT ![cur] = (IF switch THEN 0 ELSE @) + 1]
      /\ used' = Append(used, x)
  BY DEF Set
<1>3. cur \in 0 .. 1
  BY <1>1
<1>4. /\ Len(used') = n + 1 /\ used'[n + 1] = x
      /\ \A k \in 1 .. n : used'[k] = used[k] /\ used[k] \in Salts
      /\ used' \in Seq(Salts)
  BY <1>1, <1>2
<1>5. x \notin blooms[0] \cup blooms[1]
  BY <1>2 DEF IInv, CheckedIsFresh
<1>6. TypeOK'
  <2>1. blooms' \in [0 .. 1 -> SUBSET Salts]
    BY <1>1, <1>2, <1>3
  <2>2. bloom_count' \in [0 .. 1 -> 0 .. ItemCount]
    BY <1>1, <1>2, <1>3 DEF Switch
  <2>3. pc' \in [Streams -> PC] /\ side' = side /\ salt' = salt /\ lock' = Unlocked
    BY DEF Set, Goto, IInv, TypeOK, PC
  <2> QED
    BY <1>2, <1>3, <1>4, <2>1, <2>2, <2>3 DEF IInv, TypeOK
<1>7. CheckedIsFresh'
  BY SaltAssumption DEF Set, Goto, IInv, CheckedIsFresh, TypeOK
<1>8. FiltersHold'
  <2> DEFINE c     == bloom_count[current]
             start == n - c
             Then(a, b) == {used[k] : k \in a .. b}
             Now(a, b)  == {used'[k] : k \in a .. b}
  <2>1. /\ c \in 0 .. ItemCount /\ c <= n /\ start \in 0 .. n
        /\ blooms[current] = Then(start + 1, n)
        /\ \/ start = 0 /\ blooms[1 - current] = {}
           \/ /\ start >= ItemCount
              /\ blooms[1 - current] = Then(start - ItemCount + 1, start)
    BY <1>1 DEF IInv, FiltersHold
  <2>2. \A a, b \in Int : 1 <= a /\ b <= n => Now(a, b) = Then(a, b)
    <3> SUFFICES ASSUME NEW a \in Int, NEW b \in Int, 1 <= a, b <= n
                 PROVE  Now(a, b) = Then(a, b)
      OBVIOUS
    <3>1. \A k \in a .. b : used'[k] = used[k]
      <4> SUFFICES ASSUME NEW k \in a .. b PROVE used'[k] = used[k]
        OBVIOUS
      <4>1. k \in 1 .. n
        BY <1>1
      <4> QED
        BY <1>4, <4>1
    <3> QED
      BY <3>1
  <2> HIDE DEF Then, Now
  <2>3. CASE ~switch
    <3>1. /\ current' = current /\ c < ItemCount
          /\ blooms'[current] = blooms[current] \cup {x}
          /\ blooms'[1 - current] = blooms[1 - current]
          /\ bloom_count'[current] = c + 1
      BY <1>1, <1>2, <2>1, <2>3 DEF Switch
    <3>2. (n + 1) - (c + 1) = start /\ start + 1 \in Int
      BY <1>1, <2>1
    <3>3. Now(start + 1, n + 1) = Now(start + 1, n) \cup {x}
      <4>1. start + 1 .. n + 1 = (start + 1 .. n) \cup {n + 1}
        <5>1. start + 1 \in Int /\ n \in Int /\ start + 1 <= n + 1
          BY <1>1, <2>1, SMTT(30)
        <5> HIDE DEF n, start
        <5> QED
          BY <5>1, IntervalGrows
      <4>2. used'[n + 1] = x
        BY <1>4
      <4> HIDE DEF n, start, x
      <4> QED
        BY <4>1, <4>2, Zenon DEF Now
    <3>4. blooms'[current] = Now(start + 1, n + 1)
      <4>1. start + 1 \in Int /\ n \in Int /\ 1 <= start + 1 /\ n <= n
        BY <1>1, <2>1
      <4>2. Now(start + 1, n) = Then(start + 1, n)
        BY <4>1, <2>2
      <4> QED
        BY <4>2, <3>1, <3>3, <2>1
    <3>5. \/ start = 0 /\ blooms'[1 - current] = {}
          \/ /\ start >= ItemCount
             /\ blooms'[1 - current] = Now(start - ItemCount + 1, start)
      <4>1. CASE start = 0 /\ blooms[1 - current] = {}
        BY <4>1, <3>1
      <4>2. CASE /\ start >= ItemCount
                 /\ blooms[1 - current] = Then(start - ItemCount + 1, start)
        <5>1. start - ItemCount + 1 \in Int /\ 1 <= start - ItemCount + 1 /\ start <= n
          BY <4>2, <1>1, <2>1, SMTT(30)
        <5>2. Now(start - ItemCount + 1, start) = Then(start - ItemCount + 1, start)
          BY <5>1, <2>1, <2>2
        <5> QED
          BY <5>2, <4>2, <3>1
      <4> QED
        BY <4>1, <4>2, <2>1
    <3>6. c + 1 <= n + 1
      BY <1>1, <2>1
    <3> HIDE DEF n, start, c
    <3> QED
      BY <3>1, <3>2, <3>4, <3>5, <3>6, <1>4 DEF FiltersHold, Now
  <2>4. CASE switch
    <3>1. /\ c = ItemCount /\ current' = 1 - current /\ 1 - current' = current
          /\ blooms'[1 - current] = {x}
          /\ blooms'[current] = blooms[current]
          /\ bloom_count'[1 - current] = 1
      BY <1>1, <1>2, <1>3, <2>1, <2>4 DEF Switch
    <3>2. (n + 1) - 1 = n /\ 1 <= n + 1 /\ n >= ItemCount /\ start = n - ItemCount
      BY <1>1, <2>1, <3>1
    <3>3. {x} = Now(n + 1, n + 1)
      <4>1. n + 1 .. n + 1 = {n + 1}
        BY <1>1
      <4> QED
        BY <4>1, <1>4 DEF Now
    <3>4. blooms'[current] = Now(n - ItemCount + 1, n)
      <4>1. n - ItemCount + 1 \in Int /\ 1 <= n - ItemCount + 1 /\ n <= n
        BY <3>2, <1>1
      <4>2. Now(n - ItemCount + 1, n) = Then(n - ItemCount + 1, n)
        BY <4>1, <1>1, <2>2
      <4> QED
        BY <4>2, <3>1, <3>2, <2>1
    <3> HIDE DEF n, start, c
    <3> QED
      BY <3>1, <3>2, <3>3, <3>4, <1>4 DEF FiltersHold, Now
  <2> QED
    BY <2>3, <2>4
<1>9. NoReuse'
  <2>1. \A k \in 1 .. n : used[k] = x => (n + 1) - k > ItemCount
    <3> SUFFICES ASSUME NEW k \in 1 .. n, used[k] = x PROVE (n + 1) - k > ItemCount
      OBVIOUS
    <3> DEFINE start == n - bloom_count[current]
    <3>1. /\ start \in 0 .. n
          /\ blooms[current] = {used[i] : i \in start + 1 .. n}
          /\ \/ start = 0 /\ blooms[1 - current] = {}
             \/ /\ start >= ItemCount
                /\ blooms[1 - current] = {used[i] : i \in start - ItemCount + 1 .. start}
      BY <1>1 DEF IInv, FiltersHold
    <3>2. x \notin blooms[current] /\ x \notin blooms[1 - current]
      BY <1>1, <1>5
    <3>3. k \notin start + 1 .. n
      BY <3>1, <3>2
    <3>4. k <= start
      BY <3>1, <3>3, <1>1
    <3>5. start >= ItemCount /\ k \notin start - ItemCount + 1 .. start
      BY <3>1, <3>2, <3>4
    <3> HIDE DEF start
    <3> QED
      BY <3>1, <3>4, <3>5, <1>1
  <2> SUFFICES ASSUME NEW i \in 1 .. n + 1, NEW j \in 1 .. n + 1, i < j, used'[i] = used'[j]
               PROVE  j - i > ItemCount
    BY <1>4 DEF NoReuse
  <2>2. CASE j = n + 1
    <3>1. i \in 1 .. n
      BY <2>2, <1>1
    <3> QED
      BY <3>1, <2>1, <2>2, <1>4
  <2>3. CASE j # n + 1
    <3>1. i \in 1 .. n /\ j \in 1 .. n
      BY <2>3, <1>1
    <3> QED
      BY <3>1, <1>4 DEF IInv, NoReuse
  <2> QED
    BY <2>2, <2>3
<1> QED
  BY <1>6, <1>7, <1>8, <1>9 DEF IInv

(* Every step of every stream keeps IInv. *)
LEMMA NextIInv == IInv /\ [Next]_vars => IInv'
<1> SUFFICES ASSUME IInv, [Next]_vars PROVE IInv'
  OBVIOUS
<1>1. CASE Next
  BY <1>1, WaitIInv, SetIInv DEF Next
<1>2. CASE UNCHANGED vars
  BY <1>2 DEF vars, ppbloom, IInv, TypeOK, CheckedIsFresh, FiltersHold, NoReuse
<1> QED
  BY <1>1, <1>2

(* The inductive invariant holds throughout: what the two filters contain  *)
(* is always a window of the salts used, whichever streams run.            *)
THEOREM SaltInvariant == Spec => []IInv
<1> QED
  BY InitIInv, NextIInv, PTL DEF Spec

(* The filters keep to the size they were made for. *)
THEOREM SaltTypeCorrect == Spec => []TypeOK
<1>1. IInv => TypeOK
  BY DEF IInv
<1> QED
  BY SaltInvariant, <1>1, PTL

(* What the two filters hold is exactly the last salts used: all since the *)
(* last change of filter, and ItemCount before it.                         *)
THEOREM SaltFilters == Spec => []FiltersHold
<1>1. IInv => FiltersHold
  BY DEF IInv
<1> QED
  BY SaltInvariant, <1>1, PTL

(* check_and_set is atomic under the lock, whatever the number of threads. *)
THEOREM SaltCheckIsAtomic == Spec => []CheckedIsFresh
<1>1. IInv => CheckedIsFresh
  BY DEF IInv
<1> QED
  BY SaltInvariant, <1>1, PTL

(* No salt, drawn or received, is used again before more than ItemCount    *)
(* uses, whatever the streams, the salts and the filter size.              *)
THEOREM SaltNoReuse == Spec => []NoReuse
<1>1. IInv => NoReuse
  BY DEF IInv
<1> QED
  BY SaltInvariant, <1>1, PTL

(* The context never forgets one of the last ItemCount salts. *)
THEOREM SaltWindow == Spec => []WindowRemembered
<1>1. IInv => WindowRemembered
  <2> SUFFICES ASSUME IInv, NEW k \in 1 .. Len(used), k > Len(used) - ItemCount
               PROVE  used[k] \in blooms[0] \cup blooms[1]
    BY DEF WindowRemembered
  <2> DEFINE n == Len(used)
             start == n - bloom_count[current]
  <2>1. /\ n \in Nat /\ ItemCount \in Nat /\ current \in 0 .. 1 /\ start \in 0 .. n
        /\ blooms[current] = {used[i] : i \in start + 1 .. n}
        /\ \/ start = 0 /\ blooms[1 - current] = {}
           \/ /\ start >= ItemCount
              /\ blooms[1 - current] = {used[i] : i \in start - ItemCount + 1 .. start}
    BY SaltAssumption DEF IInv, TypeOK, FiltersHold
  <2>2. CASE k \in start + 1 .. n
    BY <2>1, <2>2
  <2>3. CASE k \notin start + 1 .. n
    <3>1. k <= start /\ start # 0
      BY <2>1, <2>3
    <3>2. k \in start - ItemCount + 1 .. start
      BY <2>1, <3>1
    <3> QED
      BY <2>1, <3>1, <3>2
  <2> QED
    BY <2>2, <2>3
<1> QED
  BY SaltInvariant, <1>1, PTL

-----------------------------------------------------------------------------
(* The CIDR matcher.                                                       *)

(* What has 0 and, with n, n + 1 has every natural number.                 *)
LEMMA SetInduction ==
  ASSUME NEW T, 0 \in T, \A n \in Nat : n \in T => n + 1 \in T
  PROVE  Nat \subseteq T
<1> DEFINE Less    == {ss \in Nat \X Nat : ss[1] < ss[2]}
           Missing == {n \in Nat : n \notin T}
<1>1. IsWellFoundedOn(Less, Nat)
  BY NatLessThanWellFounded DEF OpToRel
<1>2. SUFFICES ASSUME Missing # {} PROVE FALSE
  OBVIOUS
<1>3. PICK x \in Missing : \A y \in Missing : ~(<<y, x>> \in Less)
  <2>1. Missing \subseteq Nat
    OBVIOUS
  <2> HIDE DEF Missing, Less
  <2> QED
    BY <1>1, <1>2, <2>1, WFMin
<1>4. x # 0 /\ x \in Nat /\ x - 1 \in Nat /\ x - 1 < x
  OBVIOUS
<1>5. x - 1 \in Missing
  BY <1>4
<1>6. <<x - 1, x>> \in Less
  BY <1>4
<1> QED
  BY <1>3, <1>5, <1>6

(* The first d bits of a key. *)
Bin       == {0, 1}
Pre(k, d) == SubSeq(k, 1, d)
Nodes(t)  == 0 .. Size(t) - 1

LEMMA PreProperties ==
  ASSUME NEW k \in Seq(Bin), NEW d \in 0 .. Len(k)
  PROVE  Pre(k, d) \in Seq(Bin) /\ Len(Pre(k, d)) = d /\ \A i \in 1 .. d : Pre(k, d)[i] = k[i]
<1>1. 1 .. d \subseteq 1 .. Len(k)
  OBVIOUS
<1> HIDE DEF Bin
<1> QED
  BY <1>1, SubSeqProperties DEF Pre

LEMMA PreNone ==
  ASSUME NEW k \in Seq(Bin)
  PROVE  Pre(k, 0) = <<>>
<1>1. 0 \in 0 .. Len(k)
  OBVIOUS
<1>2. Pre(k, 0) \in Seq(Bin) /\ Len(Pre(k, 0)) = 0
  BY <1>1, PreProperties
<1> HIDE DEF Bin
<1> QED
  BY <1>2, EmptySeq

(* Prefixes of equal length that agree on every bit are equal. *)
LEMMA BitsEqual ==
  ASSUME NEW s \in Seq(Bin), NEW r \in Seq(Bin), Len(s) = Len(r), \A i \in 1 .. Len(s) : s[i] = r[i]
  PROVE  s = r
<1> HIDE DEF Bin
<1> QED
  BY SeqEqual

LEMMA PreNext ==
  ASSUME NEW k \in Seq(Bin), NEW d \in Nat, d + 1 <= Len(k)
  PROVE  Pre(k, d + 1) = Append(Pre(k, d), k[d + 1]) /\ k[d + 1] \in Bin
<1>1. d \in 0 .. Len(k) /\ d + 1 \in 0 .. Len(k) /\ d + 1 \in 1 .. Len(k)
  OBVIOUS
<1>2. /\ Pre(k, d) \in Seq(Bin) /\ Len(Pre(k, d)) = d /\ \A i \in 1 .. d : Pre(k, d)[i] = k[i]
      /\ Pre(k, d + 1) \in Seq(Bin) /\ Len(Pre(k, d + 1)) = d + 1
      /\ \A i \in 1 .. d + 1 : Pre(k, d + 1)[i] = k[i]
  BY <1>1, PreProperties
<1>3. k[d + 1] \in Bin
  <2> HIDE DEF Bin
  <2> QED
    BY <1>1, ElementOfSeq
<1> HIDE DEF Bin
<1>4. PICK s, c, e : s = Pre(k, d) /\ c = Pre(k, d + 1) /\ e = k[d + 1]
  OBVIOUS
<1>5. /\ Append(s, e) \in Seq(Bin) /\ Len(Append(s, e)) = d + 1
      /\ \A i \in 1 .. d : Append(s, e)[i] = s[i]
      /\ Append(s, e)[d + 1] = e
  BY <1>2, <1>3, <1>4, AppendProperties
<1>6. ASSUME NEW i \in 1 .. d + 1 PROVE Append(s, e)[i] = c[i]
  <2>1. CASE i = d + 1
    BY <1>2, <1>4, <1>5, <2>1
  <2>2. CASE i # d + 1
    <3>1. i \in 1 .. d
      BY <2>2
    <3> QED
      BY <1>2, <1>4, <1>5, <3>1
  <2> QED
    BY <2>1, <2>2
<1>7. Append(s, e) = c
  BY <1>2, <1>4, <1>5, <1>6, BitsEqual
<1> QED
  BY <1>3, <1>4, <1>7

-----------------------------------------------------------------------------
(* A trie with a name for each of its nodes: the bits that lead to it.     *)
Shaped(t) ==
  /\ t.left \in Seq(Int) /\ t.right \in Seq(Int) /\ t.value \in Seq(Int)
  /\ Size(t) \in Nat \ {0} /\ Len(t.left) = Size(t) /\ Len(t.right) = Size(t)

Leads(t, name, p, b, q) == q \in p + 1 .. Size(t) - 1 /\ name[q] = Append(name[p], b)

Named(f, t, name) ==
  /\ name \in [Nodes(t) -> Seq(Bin)] /\ name[0] = <<>>
  /\ \A p \in Nodes(t), b \in Bin : Child(t, p, b) = Nullptr \/ Leads(t, name, p, b, Child(t, p, b))
  /\ \A p, q \in Nodes(t) : name[p] = name[q] => p = q
  /\ \A q \in Nodes(t) \ {0} : \E p \in Nodes(t), b \in Bin : Child(t, p, b) = q
  /\ \A q \in Nodes(t) : Len(name[q]) <= q /\ Len(name[q]) <= Width[f]

LEMMA NamedParents ==
  ASSUME NEW f \in Families, NEW t, Shaped(t), NEW name, Named(f, t, name)
  PROVE  /\ Parents(t, 0) = {}
         /\ \A n \in 1 .. Size(t) - 1 :
              Cardinality(Parents(t, n)) = 1 /\ \A e \in Parents(t, n) : e[1] < n
<1> USE DEF Nullptr
<1>0. Size(t) \in Nat \ {0} /\ 0 \in Nodes(t)
  BY DEF Shaped, Nodes
<1>1. ASSUME NEW n \in Nodes(t), NEW p \in Nodes(t), NEW b \in Bin, Child(t, p, b) = n
      PROVE  p < n /\ name[n] = Append(name[p], b)
  <2>1. n # Nullptr
    BY <1>0 DEF Nodes
  <2>2. Leads(t, name, p, b, n)
    BY <1>1, <2>1 DEF Named
  <2> QED
    BY <1>0, <2>2 DEF Leads, Nodes
<1>2. Parents(t, 0) = {}
  <2>1. ASSUME NEW e \in Parents(t, 0) PROVE FALSE
    <3>1. e[1] \in Nodes(t) /\ e[2] \in Bin /\ Child(t, e[1], e[2]) = 0
      BY DEF Parents, Nodes, Bin
    <3>2. e[1] < 0
      BY <1>0, <1>1, <3>1
    <3> QED
      BY <1>0, <3>1, <3>2 DEF Nodes
  <2> QED
    BY <2>1
<1>3. ASSUME NEW n \in 1 .. Size(t) - 1
      PROVE  Cardinality(Parents(t, n)) = 1 /\ \A e \in Parents(t, n) : e[1] < n
  <2>1. n \in Nodes(t) /\ n \in Nodes(t) \ {0}
    BY <1>0 DEF Nodes
  <2>2. PICK p \in Nodes(t), b \in Bin : Child(t, p, b) = n
    BY <2>1 DEF Named
  <2>3. ASSUME NEW e \in Parents(t, n) PROVE e = <<p, b>> /\ e[1] < n
    <3>1. e[1] \in Nodes(t) /\ e[2] \in Bin /\ Child(t, e[1], e[2]) = n /\ e = <<e[1], e[2]>>
      BY DEF Parents, Nodes, Bin
    <3>2. name[p] \in Seq(Bin) /\ name[e[1]] \in Seq(Bin)
      BY <3>1 DEF Named
    <3>3. Append(name[p], b) = Append(name[e[1]], e[2]) /\ e[1] < n
      BY <1>1, <2>1, <2>2, <3>1
    <3>4. name[p] = name[e[1]] /\ b = e[2]
      BY <3>1, <3>2, <3>3, AppendInjective
    <3>5. p = e[1]
      BY <3>1, <3>4 DEF Named
    <3> QED
      BY <3>1, <3>3, <3>4, <3>5
  <2>4. <<p, b>> \in Parents(t, n)
    BY <2>2 DEF Parents, Nodes, Bin
  <2>5. Parents(t, n) = {<<p, b>>}
    BY <2>3, <2>4
  <2> QED
    BY <2>3, <2>5, FS_Singleton
<1> QED
  BY <1>2, <1>3

-----------------------------------------------------------------------------
(* The recursive function of Descend.                                      *)
Step(t, key, P, d) ==
  IF d = 0 THEN 0 ELSE IF P[d - 1] = Nullptr THEN Nullptr ELSE Child(t, P[d - 1], key[d])

IsPath(P, t, key, n) == P = [d \in 0 .. n |-> Step(t, key, P, d)]

LEMMA PathExists ==
  ASSUME NEW t, NEW key, NEW n \in Nat
  PROVE  \E P : P = [d \in 0 .. n |-> Step(t, key, P, d)]
<1> DEFINE T == {m \in Nat : \E P : P = [d \in 0 .. m |-> Step(t, key, P, d)]}
<1>1. 0 \in T
  <2>1. [d \in 0 .. 0 |-> 0] = [d \in 0 .. 0 |-> Step(t, key, [e \in 0 .. 0 |-> 0], d)]
    BY DEF Step
  <2> QED
    BY <2>1
<1>2. ASSUME NEW m \in Nat, m \in T PROVE m + 1 \in T
  <2>1. PICK P : P = [d \in 0 .. m |-> Step(t, key, P, d)]
    BY <1>2
  <2> DEFINE G == [d \in 0 .. m + 1 |-> IF d <= m THEN P[d] ELSE Step(t, key, P, d)]
  <2>2. ASSUME NEW d \in 0 .. m + 1 PROVE G[d] = Step(t, key, G, d)
    <3>1. d = 0 \/ G[d - 1] = P[d - 1]
      OBVIOUS
    <3>2. G[d] = Step(t, key, P, d)
      BY <2>1
    <3> QED
      BY <3>1, <3>2 DEF Step
  <2>3. G = [d \in 0 .. m + 1 |-> Step(t, key, G, d)]
    <3>1. G = [d \in 0 .. m + 1 |-> G[d]]
      OBVIOUS
    <3> HIDE DEF G
    <3> QED
      BY <2>2, <3>1
  <2> HIDE DEF G
  <2> QED
    BY <2>3
<1> HIDE DEF T
<1>3. n \in T
  BY <1>1, <1>2, SetInduction
<1> QED
  BY <1>3 DEF T

LEMMA DescendIsPath ==
  ASSUME NEW t, NEW key, NEW n \in Nat
  PROVE  IsPath(Descend(t, key, n), t, key, n)
<1> DEFINE P == CHOOSE P : P = [d \in 0 .. n |->
        IF d = 0 THEN 0
        ELSE IF P[d - 1] = Nullptr THEN Nullptr
        ELSE Child(t, P[d - 1], key[d])]
<1>1. PICK G : G = [d \in 0 .. n |-> Step(t, key, G, d)]
  BY PathExists
<1>2. G = [d \in 0 .. n |->
        IF d = 0 THEN 0
        ELSE IF G[d - 1] = Nullptr THEN Nullptr
        ELSE Child(t, G[d - 1], key[d])]
  BY <1>1, Zenon DEF Step
<1>3. P = [d \in 0 .. n |->
        IF d = 0 THEN 0
        ELSE IF P[d - 1] = Nullptr THEN Nullptr
        ELSE Child(t, P[d - 1], key[d])]
  BY <1>2, Zenon
<1>4. Descend(t, key, n) = P
  BY Zenon DEF Descend
<1> QED
  BY <1>3, <1>4, Zenon DEF Step, IsPath

Stepwise(P, t, key, n) ==
  /\ P[0] = 0
  /\ \A d \in Nat : d + 1 <= n =>
       P[d + 1] = IF P[d] = Nullptr THEN Nullptr ELSE Child(t, P[d], key[d + 1])

LEMMA PathSteps ==
  ASSUME NEW t, NEW key, NEW n \in Nat, NEW P, IsPath(P, t, key, n)
  PROVE  Stepwise(P, t, key, n)
<1>1. \A d \in 0 .. n : P[d] = Step(t, key, P, d)
  BY DEF IsPath
<1>2. P[0] = 0
  <2>1. 0 \in 0 .. n
    OBVIOUS
  <2> QED
    BY <1>1, <2>1 DEF Step
<1>3. ASSUME NEW d \in Nat, d + 1 <= n
      PROVE  P[d + 1] = IF P[d] = Nullptr THEN Nullptr ELSE Child(t, P[d], key[d + 1])
  <2>1. d + 1 \in 0 .. n /\ d + 1 # 0 /\ (d + 1) - 1 = d
    BY <1>3
  <2>2. P[d + 1] = Step(t, key, P, d + 1)
    BY <1>1, <2>1
  <2> QED
    BY <2>1, <2>2 DEF Step
<1> QED
  BY <1>2, <1>3 DEF Stepwise

(* A descent meets the nodes that are named by the key's first bits ...    *)
Meets(t, name, key, d, q) == q = Nullptr \/ (q \in Nodes(t) /\ name[q] = Pre(key, d))

LEMMA PathDown ==
  ASSUME NEW f \in Families, NEW t, Shaped(t), NEW name, Named(f, t, name),
         NEW key \in Seq(Bin), NEW n \in 0 .. Len(key), NEW P, IsPath(P, t, key, n)
  PROVE  \A d \in 0 .. n : Meets(t, name, key, d, P[d])
<1>0. /\ Size(t) \in Nat \ {0} /\ n \in Nat /\ Len(key) \in Nat /\ P[0] = 0
      /\ \A d \in Nat : d + 1 <= n =>
           P[d + 1] = IF P[d] = Nullptr THEN Nullptr ELSE Child(t, P[d], key[d + 1])
  <2>1. n \in Nat /\ Len(key) \in Nat
    OBVIOUS
  <2>2. Stepwise(P, t, key, n)
    BY <2>1, PathSteps
  <2> QED
    BY <2>1, <2>2 DEF Shaped, Stepwise
<1> DEFINE T == {d \in Nat : d <= n => Meets(t, name, key, d, P[d])}
<1>1. 0 \in T
  <2>1. P[0] \in Nodes(t) /\ name[P[0]] = <<>>
    BY <1>0 DEF Nodes, Named
  <2>2. name[P[0]] = Pre(key, 0)
    BY <2>1, PreNone
  <2> QED
    BY <2>1, <2>2 DEF Meets
<1>2. ASSUME NEW d \in Nat, d \in T PROVE d + 1 \in T
  <2>1. SUFFICES ASSUME d + 1 <= n, P[d + 1] # Nullptr PROVE Meets(t, name, key, d + 1, P[d + 1])
    BY DEF Meets
  <2>2. P[d] # Nullptr /\ P[d + 1] = Child(t, P[d], key[d + 1])
    BY <1>0, <2>1
  <2>3. P[d] \in Nodes(t) /\ name[P[d]] = Pre(key, d)
    BY <1>0, <1>2, <2>1, <2>2 DEF Meets
  <2>4. Pre(key, d + 1) = Append(Pre(key, d), key[d + 1]) /\ key[d + 1] \in Bin
    <3>1. d + 1 <= Len(key)
      BY <1>0, <2>1
    <3> QED
      BY <3>1, PreNext
  <2>5. Leads(t, name, P[d], key[d + 1], P[d + 1])
    BY <2>1, <2>2, <2>3, <2>4 DEF Named
  <2>6. P[d + 1] \in Nodes(t)
    BY <1>0, <2>3, <2>5 DEF Leads, Nodes
  <2> QED
    BY <2>3, <2>4, <2>5, <2>6 DEF Leads, Meets
<1> HIDE DEF T
<1>3. Nat \subseteq T
  BY <1>1, <1>2, SetInduction
<1> QED
  BY <1>0, <1>3 DEF T

(* ... and every such node.                                                *)
LEMMA PathUp ==
  ASSUME NEW f \in Families, NEW t, Shaped(t), NEW name, Named(f, t, name),
         NEW key \in Seq(Bin), NEW n \in 0 .. Len(key), NEW P, IsPath(P, t, key, n)
  PROVE  \A d \in 0 .. n : \A q \in Nodes(t) : name[q] = Pre(key, d) => P[d] = q
<1>0. /\ Size(t) \in Nat \ {0} /\ n \in Nat /\ Len(key) \in Nat /\ P[0] = 0
      /\ \A d \in Nat : d + 1 <= n =>
           P[d + 1] = IF P[d] = Nullptr THEN Nullptr ELSE Child(t, P[d], key[d + 1])
  <2>1. n \in Nat /\ Len(key) \in Nat
    OBVIOUS
  <2>2. Stepwise(P, t, key, n)
    BY <2>1, PathSteps
  <2> QED
    BY <2>1, <2>2 DEF Shaped, Stepwise
<1> DEFINE T == {d \in Nat : d <= n => \A q \in Nodes(t) : name[q] = Pre(key, d) => P[d] = q}
<1>1. 0 \in T
  <2>1. 0 \in Nodes(t) /\ name[0] = <<>>
    BY <1>0 DEF Nodes, Named
  <2>2. ASSUME NEW q \in Nodes(t), name[q] = Pre(key, 0) PROVE P[0] = q
    <3>1. name[q] = name[0]
      BY <2>1, <2>2, PreNone
    <3> QED
      BY <1>0, <2>1, <3>1 DEF Named
  <2> QED
    BY <2>2
<1>2. ASSUME NEW d \in Nat, d \in T PROVE d + 1 \in T
  <2>1. SUFFICES ASSUME d + 1 <= n, NEW q \in Nodes(t), name[q] = Pre(key, d + 1) PROVE P[d + 1] = q
    OBVIOUS
  <2>2. /\ Pre(key, d + 1) = Append(Pre(key, d), key[d + 1]) /\ key[d + 1] \in Bin
        /\ Pre(key, d) \in Seq(Bin) /\ Len(Pre(key, d + 1)) = d + 1
    <3>1. d + 1 <= Len(key) /\ d \in 0 .. Len(key) /\ d + 1 \in 0 .. Len(key)
      BY <1>0, <2>1
    <3> QED
      BY <3>1, PreNext, PreProperties
  <2>3. q # 0
    <3>1. Len(name[0]) = 0
      BY DEF Named
    <3> QED
      BY <2>1, <2>2, <3>1
  <2>4. PICK p \in Nodes(t), b \in Bin : Child(t, p, b) = q
    BY <2>3 DEF Named
  <2>5. q # Nullptr /\ p # Nullptr
    BY <1>0 DEF Nodes, Nullptr
  <2>6. Leads(t, name, p, b, q)
    BY <2>4, <2>5 DEF Named
  <2>7. Append(name[p], b) = Append(Pre(key, d), key[d + 1]) /\ name[p] \in Seq(Bin)
    BY <2>1, <2>2, <2>6 DEF Leads, Named
  <2>8. name[p] = Pre(key, d) /\ b = key[d + 1]
    BY <2>2, <2>7, AppendInjective
  <2>9. P[d] = p
    BY <1>0, <1>2, <2>1, <2>8
  <2> QED
    BY <1>0, <2>1, <2>4, <2>5, <2>8, <2>9
<1> HIDE DEF T
<1>3. Nat \subseteq T
  BY <1>1, <1>2, SetInduction
<1> QED
  BY <1>0, <1>3 DEF T

-----------------------------------------------------------------------------
(* A nonempty set of numbers up to m has a greatest one.                   *)
LEMMA GreatestExists ==
  ASSUME NEW m \in Nat, NEW S \in SUBSET (0 .. m), S # {}
  PROVE  \E x \in S : \A y \in S : x >= y
<1> DEFINE T == {k \in Nat : \A Q \in SUBSET (0 .. k) : Q # {} => \E x \in Q : \A y \in Q : x >= y}
<1>1. 0 \in T
  <2>1. ASSUME NEW Q \in SUBSET (0 .. 0), Q # {} PROVE \E x \in Q : \A y \in Q : x >= y
    <3>1. \A y \in Q : y = 0
      OBVIOUS
    <3>2. PICK x \in Q : TRUE
      BY <2>1
    <3>3. \A y \in Q : x >= y
      BY <3>1
    <3> QED
      BY <3>3
  <2> QED
    BY <2>1
<1>2. ASSUME NEW k \in Nat, k \in T PROVE k + 1 \in T
  <2>1. ASSUME NEW Q \in SUBSET (0 .. k + 1), Q # {} PROVE \E x \in Q : \A y \in Q : x >= y
    <3>1. CASE k + 1 \in Q
      <4>1. \A y \in Q : k + 1 >= y
        OBVIOUS
      <4> QED
        BY <3>1, <4>1
    <3>2. CASE k + 1 \notin Q
      <4>1. Q \in SUBSET (0 .. k)
        <5>1. ASSUME NEW y \in Q PROVE y \in 0 .. k
          <6>1. y \in 0 .. k + 1 /\ y # k + 1
            BY <3>2
          <6> QED
            BY <6>1
        <5> QED
          BY <5>1
      <4> QED
        BY <1>2, <2>1, <4>1
    <3> QED
      BY <3>1, <3>2
  <2> QED
    BY <2>1
<1> HIDE DEF T
<1>3. m \in T
  BY <1>1, <1>2, SetInduction
<1> QED
  BY <1>3 DEF T

LEMMA MaxIsGreatest ==
  ASSUME NEW m \in Nat, NEW S \in SUBSET (0 .. m), S # {}
  PROVE  Max(S) \in S /\ \A y \in S : Max(S) >= y
<1>1. \E x \in S : \A y \in S : x >= y
  BY GreatestExists
<1> QED
  BY <1>1, Zenon DEF Max

(* What put finds: the path along the key and where it ends.               *)
Found(t, key, D, P, F) ==
  /\ IsPath(P, t, key, D) /\ F \in 0 .. D /\ P[F] # Nullptr
  /\ \A d \in 0 .. D : d > F => P[d] = Nullptr

LEMMA PutFinds ==
  ASSUME NEW t, NEW key, NEW D \in Nat
  PROVE  Found(t, key, D, Descend(t, key, D), Max({d \in 0 .. D : Descend(t, key, D)[d] # Nullptr}))
<1>1. PICK P : P = Descend(t, key, D)
  OBVIOUS
<1>2. IsPath(P, t, key, D)
  BY <1>1, DescendIsPath
<1>3. P[0] = 0
  BY <1>2, PathSteps DEF Stepwise
<1>4. PICK S : S = {d \in 0 .. D : P[d] # Nullptr}
  OBVIOUS
<1>5. S \in SUBSET (0 .. D) /\ S # {}
  BY <1>3, <1>4 DEF Nullptr
<1>6. Max(S) \in S /\ \A y \in S : Max(S) >= y
  BY <1>5, MaxIsGreatest
<1>7. PICK F : F = Max(S)
  OBVIOUS
<1>8. F \in 0 .. D /\ P[F] # Nullptr
  BY <1>4, <1>6, <1>7
<1>9. ASSUME NEW d \in 0 .. D, d > F PROVE P[d] = Nullptr
  BY <1>4, <1>6, <1>7, <1>8, <1>9
<1>10. Found(t, key, D, P, F)
  BY <1>2, <1>8, <1>9 DEF Found
<1> QED
  BY <1>1, <1>4, <1>7, <1>10

(* The trie after put: the child of a node and its value.                  *)
Linked(t, key, L, F, D, p, b) ==
  IF p = L /\ F < D /\ key[F + 1] = b THEN Size(t)
  ELSE IF p < Size(t) THEN Child(t, p, b)
  ELSE IF p + 1 < Size(t) + (D - F) /\ key[F + 1 + (p + 1) - Size(t)] = b THEN p + 1
  ELSE Nullptr

Target(t, L, F, D) == IF F = D THEN L ELSE Size(t) + (D - F) - 1

ValueOf(t, L, F, D, val, p) ==
  IF p = Target(t, L, F, D) THEN val ELSE IF p < Size(t) THEN t.value[p + 1] ELSE NoValue

Grown(t, u, key, L, F, D, val) ==
  /\ Shaped(u) /\ Size(u) = Size(t) + (D - F)
  /\ \A p \in Nodes(u), b \in Bin : Child(u, p, b) = Linked(t, key, L, F, D, p, b)
  /\ \A p \in Nodes(u) : u.value[p + 1] = ValueOf(t, L, F, D, val, p)

Lengthened(v, vec, new) == v \in Seq(Int) /\ Len(v) = Len(vec) + new

LEMMA LinkProperties ==
  ASSUME NEW vec \in Seq(Int), NEW bit, NEW key, NEW L, NEW F \in Nat, NEW new \in Nat
  PROVE  Lengthened(Link(vec, bit, key, L, F, new), vec, new)
<1> DEFINE E(i) == IF i = L + 1 /\ new > 0 /\ key[F + 1] = bit THEN Len(vec)
                   ELSE IF i <= Len(vec) THEN vec[i]
                   ELSE IF i < Len(vec) + new /\ key[F + 1 + i - Len(vec)] = bit THEN i
                   ELSE Nullptr
<1>1. Len(vec) \in Nat /\ \A i \in 1 .. Len(vec) : vec[i] \in Int
  BY ElementOfSeq, LenProperties
<1>2. \A i \in 1 .. Len(vec) + new : E(i) \in Int
  BY <1>1 DEF Nullptr
<1>3. Link(vec, bit, key, L, F, new) = [i \in 1 .. Len(vec) + new |-> E(i)]
  BY DEF Link
<1> HIDE DEF E
<1> QED
  BY <1>1, <1>2, <1>3 DEF Lengthened

LEMMA AssignProperties ==
  ASSUME NEW vec \in Seq(Int), NEW node, NEW new \in Nat, NEW val \in Int
  PROVE  Lengthened(Assign(vec, node, new, val), vec, new)
<1> DEFINE E(i) == IF i = node + 1 THEN val ELSE IF i <= Len(vec) THEN vec[i] ELSE NoValue
<1>1. Len(vec) \in Nat /\ \A i \in 1 .. Len(vec) : vec[i] \in Int
  BY ElementOfSeq, LenProperties
<1>2. \A i \in 1 .. Len(vec) + new : E(i) \in Int
  BY <1>1 DEF NoValue
<1>3. Assign(vec, node, new, val) = [i \in 1 .. Len(vec) + new |-> E(i)]
  BY DEF Assign
<1> HIDE DEF E
<1> QED
  BY <1>1, <1>2, <1>3 DEF Lengthened

LEMMA PutGrows ==
  ASSUME NEW f \in Families, NEW t, Shaped(t), NEW name, Named(f, t, name),
         NEW key \in Seq(Bin), NEW prefix, NEW val \in Int, Depth(f, prefix) \in 0 .. Len(key)
  PROVE  \E P, F : Found(t, key, Depth(f, prefix), P, F)
                   /\ Grown(t, Put(t, f, key, prefix, val), key, P[F], F, Depth(f, prefix), val)
<1>1. PICK D : D = Depth(f, prefix)
  OBVIOUS
<1>2. PICK P, F : P = Descend(t, key, D) /\ F = Max({d \in 0 .. D : P[d] # Nullptr})
  OBVIOUS
<1>3. Found(t, key, D, P, F) /\ D \in Nat /\ D \in 0 .. Len(key)
  <2>1. D \in Nat /\ D \in 0 .. Len(key)
    BY <1>1
  <2> QED
    BY <1>2, <2>1, PutFinds
<1>4. F \in Nat /\ D \in Nat /\ D - F \in Nat /\ F <= D
  BY <1>3 DEF Found
<1>5. PICK new, L, node : new = D - F /\ L = P[F] /\ node = IF new = 0 THEN L ELSE Size(t) + new - 1
  OBVIOUS
<1>6. PICK left, right, value :
        /\ left = Link(t.left, 0, key, L, F, new) /\ right = Link(t.right, 1, key, L, F, new)
        /\ value = Assign(t.value, node, new, val)
  OBVIOUS
<1>7. PICK u : u = Put(t, f, key, prefix, val)
  OBVIOUS
<1>8. u = [left |-> left, right |-> right, value |-> value]
  BY <1>1, <1>2, <1>5, <1>6, <1>7, Zenon DEF Put
<1>9. u.left = left /\ u.right = right /\ u.value = value
  BY <1>8
<1>10. /\ left \in Seq(Int) /\ right \in Seq(Int) /\ value \in Seq(Int) /\ Size(t) \in Nat \ {0}
       /\ Len(left) = Size(t) + new /\ Len(right) = Size(t) + new /\ Len(value) = Size(t) + new
       /\ new \in Nat
  <2>1. /\ t.left \in Seq(Int) /\ t.right \in Seq(Int) /\ t.value \in Seq(Int) /\ new \in Nat
        /\ Size(t) \in Nat \ {0} /\ Len(t.left) = Size(t) /\ Len(t.right) = Size(t) /\ Len(t.value) = Size(t)
    BY <1>4, <1>5 DEF Shaped, Size
  <2>2. Lengthened(left, t.left, new) /\ Lengthened(right, t.right, new) /\ Lengthened(value, t.value, new)
    BY <1>4, <1>6, <2>1, LinkProperties, AssignProperties
  <2> QED
    BY <2>1, <2>2 DEF Lengthened
<1>11. Shaped(u) /\ Size(u) = Size(t) + new /\ Size(u) = Size(t) + (D - F)
  <2>1. Size(u) = Size(t) + new /\ Size(u) \in Nat \ {0}
    BY <1>9, <1>10 DEF Size
  <2>2. Len(u.left) = Size(u) /\ Len(u.right) = Size(u)
    BY <1>9, <1>10, <2>1
  <2>3. u.left \in Seq(Int) /\ u.right \in Seq(Int) /\ u.value \in Seq(Int)
    BY <1>9, <1>10
  <2> QED
    BY <1>5, <2>1, <2>2, <2>3 DEF Shaped
<1>12. Len(t.left) = Size(t) /\ Len(t.right) = Size(t) /\ Len(t.value) = Size(t)
  BY DEF Shaped, Size
<1>13. PICK N : N = Size(t)
  OBVIOUS
<1>L. L \in Nat
  <2>1. IsPath(P, t, key, D) /\ F \in 0 .. D /\ L # Nullptr
    BY <1>3, <1>5 DEF Found
  <2>2. \A d \in 0 .. D : Meets(t, name, key, d, P[d])
    BY <1>3, <2>1, PathDown
  <2> QED
    BY <1>5, <1>10, <2>1, <2>2 DEF Meets, Nodes
<1>14. ASSUME NEW p \in Nodes(u), NEW b \in Bin
       PROVE  Child(u, p, b) = Linked(t, key, L, F, D, p, b)
  <2>1. p \in Nat /\ p + 1 \in 1 .. N + new /\ N \in Nat /\ (p + 1 <= N <=> p < N)
    <3>1. p \in 0 .. N + new - 1 /\ N \in Nat /\ new \in Nat
      BY <1>10, <1>11, <1>13 DEF Nodes
    <3> QED
      BY <3>1
  <2>2. p + 1 = L + 1 /\ new > 0 <=> p = L /\ F < D
    BY <1>4, <1>5, <1>L, <2>1
  <2>3. CASE b = 1
    <3>1. Child(u, p, b) = right[p + 1] /\ Child(t, p, b) = t.right[p + 1]
      BY <1>9, <2>3 DEF Child
    <3>2. right[p + 1] = IF p + 1 = L + 1 /\ new > 0 /\ key[F + 1] = 1 THEN N
                         ELSE IF p + 1 <= N THEN t.right[p + 1]
                         ELSE IF p + 1 < N + new /\ key[F + 1 + (p + 1) - N] = 1 THEN p + 1
                         ELSE Nullptr
      BY <1>6, <1>12, <1>13, <2>1 DEF Link
    <3> QED
      BY <1>5, <1>13, <2>1, <2>2, <2>3, <3>1, <3>2 DEF Linked
  <2>4. CASE b = 0
    <3>1. Child(u, p, b) = left[p + 1] /\ Child(t, p, b) = t.left[p + 1]
      BY <1>9, <2>4 DEF Child
    <3>2. left[p + 1] = IF p + 1 = L + 1 /\ new > 0 /\ key[F + 1] = 0 THEN N
                        ELSE IF p + 1 <= N THEN t.left[p + 1]
                        ELSE IF p + 1 < N + new /\ key[F + 1 + (p + 1) - N] = 0 THEN p + 1
                        ELSE Nullptr
      BY <1>6, <1>12, <1>13, <2>1 DEF Link
    <3> QED
      BY <1>5, <1>13, <2>1, <2>2, <2>4, <3>1, <3>2 DEF Linked
  <2> QED
    BY <2>3, <2>4 DEF Bin
<1>15. ASSUME NEW p \in Nodes(u) PROVE u.value[p + 1] = ValueOf(t, L, F, D, val, p)
  <2>1. p \in Nat /\ p + 1 \in 1 .. N + new /\ N \in Nat /\ (p + 1 <= N <=> p < N)
    <3>1. p \in 0 .. N + new - 1 /\ N \in Nat /\ new \in Nat
      BY <1>10, <1>11, <1>13 DEF Nodes
    <3> QED
      BY <3>1
  <2>2. value[p + 1] = IF p + 1 = node + 1 THEN val ELSE IF p + 1 <= N THEN t.value[p + 1] ELSE NoValue
    BY <1>6, <1>12, <1>13, <2>1 DEF Assign
  <2>3. node = Target(t, L, F, D) /\ (p + 1 = node + 1 <=> p = node)
    <3>1. node = Target(t, L, F, D) /\ node \in Int
      BY <1>4, <1>5, <1>L, <1>13, <2>1 DEF Target
    <3> QED
      BY <2>1, <3>1
  <2> QED
    BY <1>9, <1>13, <2>1, <2>2, <2>3 DEF ValueOf
<1>16. Grown(t, u, key, L, F, D, val)
  BY <1>11, <1>14, <1>15 DEF Grown
<1> QED
  BY <1>1, <1>3, <1>5, <1>7, <1>16

(* The names after put: new nodes are named by longer prefixes of the key. *)
Extended(name, t, u, key, F) ==
  [q \in Nodes(u) |-> IF q < Size(t) THEN name[q] ELSE Pre(key, F + 1 + (q - Size(t)))]

Renamed(f, t, u, key, name, L, F, D) ==
  LET nm == Extended(name, t, u, key, F)
      g  == Target(t, L, F, D)
  IN  Named(f, u, nm) /\ g \in Nodes(u) /\ nm[g] = Pre(key, D)

LEMMA GrownNamed ==
  ASSUME NEW f \in Families, NEW t, Shaped(t), NEW name, Named(f, t, name), NEW u, NEW val,
         NEW key \in Seq(Bin), NEW D \in 0 .. Len(key), D <= Width[f], NEW P, NEW F,
         Found(t, key, D, P, F), Grown(t, u, key, P[F], F, D, val)
  PROVE  Renamed(f, t, u, key, name, P[F], F, D)
<1> USE DEF Nullptr
<1>1. PICK N, L, nm : N = Size(t) /\ L = P[F] /\ nm = Extended(name, t, u, key, F)
  OBVIOUS
<1>2. /\ N \in Nat \ {0} /\ D \in Nat /\ Len(key) \in Nat /\ D <= Len(key) /\ F \in Nat /\ F <= D
      /\ Width[f] \in Nat
  BY <1>1, TrieAssumption DEF Shaped, Found, Families
<1>3. /\ Size(u) = N + (D - F) /\ Nodes(t) = 0 .. N - 1 /\ Nodes(u) = 0 .. N + (D - F) - 1
      /\ \A p \in Nodes(u), b \in Bin : Child(u, p, b) = Linked(t, key, L, F, D, p, b)
  <2>1. Grown(t, u, key, L, F, D, val)
    BY <1>1
  <2>2. /\ Size(u) = N + (D - F)
        /\ \A p \in Nodes(u), b \in Bin : Child(u, p, b) = Linked(t, key, L, F, D, p, b)
    BY <1>1, <2>1, Zenon DEF Grown
  <2>3. Nodes(t) = 0 .. N - 1 /\ Nodes(u) = 0 .. N + (D - F) - 1
    <3>1. Size(t) = N /\ Size(u) = N + (D - F)
      BY <1>1, <2>2, Zenon
    <3> QED
      BY <1>2, <3>1 DEF Nodes
  <2> QED
    BY <2>2, <2>3, Zenon
<1>4. \A d \in 0 .. D : Meets(t, name, key, d, P[d])
  BY PathDown DEF Found
<1>5. \A d \in 0 .. D : \A q \in Nodes(t) : name[q] = Pre(key, d) => P[d] = q
  BY PathUp DEF Found
<1>6. L \in Nodes(t) /\ name[L] = Pre(key, F) /\ L \in Nat /\ L < N
  <2>1. F \in 0 .. D /\ L # Nullptr
    BY <1>1 DEF Found
  <2>2. Meets(t, name, key, F, L)
    BY <1>1, <1>4, <2>1
  <2> QED
    BY <1>2, <1>3, <2>1, <2>2 DEF Meets
<1>7. /\ \A q \in Nodes(t) : q \in Nodes(u) /\ q \in Nat /\ q < N /\ nm[q] = name[q]
      /\ \A q \in Nodes(u) : q \in Nat
      /\ \A q \in Nodes(u) : q < N => q \in Nodes(t)
      /\ \A q \in Nodes(u) : ~(q < N) => nm[q] = Pre(key, F + 1 + (q - N))
      /\ \A q \in Nodes(u) : ~(q < N) => F + 1 + (q - N) \in Nat /\ F + 1 + (q - N) <= D
                                         /\ F + 1 + (q - N) <= Len(key) /\ F + 1 + (q - N) <= q
  <2>1. \A q \in Nodes(t) : q \in Nodes(u) /\ q \in Nat /\ q < N
    BY <1>2, <1>3
  <2>2. \A q \in Nodes(u) : q \in Nat /\ (q < N => q \in Nodes(t))
    BY <1>2, <1>3
  <2>3. nm = [q \in Nodes(u) |-> IF q < N THEN name[q] ELSE Pre(key, F + 1 + (q - N))]
    BY <1>1 DEF Extended
  <2>4. ASSUME NEW q \in Nodes(u), ~(q < N)
        PROVE  F + 1 + (q - N) \in Nat /\ F + 1 + (q - N) <= D
                                         /\ F + 1 + (q - N) <= Len(key) /\ F + 1 + (q - N) <= q
    <3>1. Len(name[L]) <= L
      BY <1>6 DEF Named
    <3>2. F <= L
      <4>1. F \in 0 .. Len(key)
        BY <1>2
      <4>2. Len(Pre(key, F)) = F
        BY <4>1, PreProperties
      <4> QED
        BY <1>6, <3>1, <4>2
    <3>3. q \in Nat /\ q >= N /\ q < N + (D - F)
      BY <1>2, <1>3, <2>4
    <3> QED
      BY <1>2, <1>6, <3>2, <3>3
  <2>5. /\ \A q \in Nodes(t) : nm[q] = name[q]
        /\ \A q \in Nodes(u) : ~(q < N) => nm[q] = Pre(key, F + 1 + (q - N))
    BY <2>1, <2>3
  <2> QED
    BY <2>1, <2>2, <2>4, <2>5
(* The names of the new nodes, with an index for the length. *)
<1>8. ASSUME NEW q \in Nodes(u), ~(q < N)
      PROVE  \E d \in 0 .. D : d = F + 1 + (q - N) /\ d > F /\ nm[q] = Pre(key, d)
                               /\ nm[q] \in Seq(Bin) /\ Len(nm[q]) = d
  <2>1. PICK d : d = F + 1 + (q - N)
    OBVIOUS
  <2>2. d \in 0 .. D /\ d \in 0 .. Len(key) /\ d > F /\ nm[q] = Pre(key, d)
    BY <1>2, <1>7, <1>8, <2>1
  <2> QED
    BY <2>1, <2>2, PreProperties
<1>9. nm \in [Nodes(u) -> Seq(Bin)] /\ nm[0] = <<>>
  <2>1. \A q \in Nodes(u) : nm[q] \in Seq(Bin)
    <3>1. ASSUME NEW q \in Nodes(u), q < N PROVE nm[q] \in Seq(Bin)
      BY <1>7, <3>1 DEF Named
    <3> QED
      BY <1>8, <3>1
  <2>2. nm = [q \in Nodes(u) |-> nm[q]]
    BY <1>1 DEF Extended
  <2>3. 0 \in Nodes(t)
    BY <1>2, <1>3
  <2> QED
    BY <1>7, <2>1, <2>2, <2>3 DEF Named
<1>10. ASSUME NEW p \in Nodes(u), NEW b \in Bin, Child(u, p, b) # Nullptr
       PROVE  Leads(u, nm, p, b, Child(u, p, b))
  <2>1. Child(u, p, b) = Linked(t, key, L, F, D, p, b)
    BY <1>3
  <2>2. CASE p = L /\ F < D /\ key[F + 1] = b
    <3>1. Child(u, p, b) = N
      BY <1>1, <2>1, <2>2 DEF Linked
    <3>2. N \in Nodes(u) /\ ~(N < N) /\ N \in p + 1 .. Size(u) - 1
      BY <1>2, <1>3, <1>6, <2>2
    <3>3. nm[N] = Pre(key, F + 1)
      <4>1. nm[N] = Pre(key, F + 1 + (N - N)) /\ F + 1 + (N - N) = F + 1
        BY <1>2, <1>7, <3>2
      <4> QED
        BY <4>1
    <3>4. Pre(key, F + 1) = Append(Pre(key, F), key[F + 1])
      <4>1. F + 1 <= Len(key)
        BY <1>2, <2>2
      <4> QED
        BY <1>2, <4>1, PreNext
    <3>5. nm[p] = Pre(key, F)
      BY <1>6, <1>7, <2>2
    <3> QED
      BY <2>2, <3>1, <3>2, <3>3, <3>4, <3>5 DEF Leads
  <2>3. CASE ~(p = L /\ F < D /\ key[F + 1] = b) /\ p < N
    <3>1. Child(u, p, b) = Child(t, p, b) /\ p \in Nodes(t)
      BY <1>1, <1>7, <2>1, <2>3 DEF Linked
    <3>2. PICK q : q = Child(t, p, b)
      OBVIOUS
    <3>3. q \in p + 1 .. N - 1 /\ name[q] = Append(name[p], b)
      BY <1>1, <1>10, <3>1, <3>2 DEF Named, Leads
    <3>4. q \in Nodes(t) /\ q \in p + 1 .. Size(u) - 1
      BY <1>2, <1>3, <1>7, <3>1, <3>3
    <3>5. nm[q] = Append(nm[p], b)
      BY <1>7, <3>1, <3>3, <3>4
    <3> QED
      BY <3>1, <3>2, <3>4, <3>5 DEF Leads
  <2>4. CASE ~(p = L /\ F < D /\ key[F + 1] = b) /\ ~(p < N)
    <3>1. Child(u, p, b) = p + 1 /\ p + 1 < N + (D - F) /\ key[F + 1 + (p + 1) - N] = b
      BY <1>1, <1>10, <2>1, <2>4 DEF Linked
    <3>2. p \in Nat /\ p + 1 \in Nodes(u) /\ ~(p + 1 < N) /\ p + 1 \in p + 1 .. Size(u) - 1
      BY <1>2, <1>3, <1>7, <2>4, <3>1, SMTT(30)
    <3>3. PICK d : d = F + 1 + (p - N)
      OBVIOUS
    <3>4. /\ d \in Nat /\ F + 1 + ((p + 1) - N) = d + 1 /\ F + 1 + (p + 1) - N = d + 1
          /\ nm[p] = Pre(key, d) /\ nm[p + 1] = Pre(key, F + 1 + ((p + 1) - N))
          /\ F + 1 + ((p + 1) - N) <= Len(key)
      BY <1>2, <1>7, <2>4, <3>2, <3>3
    <3>5. d + 1 <= Len(key) /\ nm[p + 1] = Pre(key, d + 1) /\ key[d + 1] = b
      BY <3>1, <3>4
    <3>6. Pre(key, d + 1) = Append(Pre(key, d), key[d + 1])
      BY <3>4, <3>5, PreNext
    <3> QED
      BY <3>1, <3>2, <3>4, <3>5, <3>6 DEF Leads
  <2> QED
    BY <2>2, <2>3, <2>4
<1>11. ASSUME NEW p \in Nodes(u), NEW q \in Nodes(u), p < N, ~(q < N) PROVE nm[p] # nm[q]
  <2>1. SUFFICES ASSUME nm[p] = nm[q] PROVE FALSE
    OBVIOUS
  <2>2. PICK d \in 0 .. D : d > F /\ nm[q] = Pre(key, d)
    BY <1>8, <1>11
  <2>3. p \in Nodes(t) /\ name[p] = Pre(key, d) /\ p \in Nat
    BY <1>7, <1>11, <2>1, <2>2
  <2>4. P[d] = p
    BY <1>5, <2>3
  <2>5. P[d] = Nullptr
    BY <2>2 DEF Found
  <2> QED
    BY <2>3, <2>4, <2>5
<1>12. ASSUME NEW p \in Nodes(u), NEW q \in Nodes(u), nm[p] = nm[q] PROVE p = q
  <2>1. CASE p < N /\ q < N
    BY <1>7, <1>12, <2>1 DEF Named
  <2>2. CASE ~(p < N) /\ ~(q < N)
    <3>1. /\ \E d \in 0 .. D : d = F + 1 + (p - N) /\ Len(nm[p]) = d
          /\ \E d \in 0 .. D : d = F + 1 + (q - N) /\ Len(nm[q]) = d
      BY <1>8, <2>2
    <3>2. p \in Nat /\ q \in Nat /\ F + 1 + (p - N) = F + 1 + (q - N)
      BY <1>7, <1>12, <3>1
    <3> QED
      BY <1>2, <3>2
  <2> QED
    BY <1>11, <1>12, <2>1, <2>2
<1>13. ASSUME NEW q \in Nodes(u) \ {0}
       PROVE  \E p \in Nodes(u), b \in Bin : Child(u, p, b) = q
  <2>1. CASE q < N
    <3>1. q \in Nodes(t) \ {0}
      BY <1>7, <2>1
    <3>2. PICK p \in Nodes(t), b \in Bin : Child(t, p, b) = q
      BY <3>1 DEF Named
    <3>3. p \in Nodes(u) /\ p < N /\ q \in Nat /\ q # Nullptr
      BY <1>7
    <3>4. ~(p = L /\ F < D /\ key[F + 1] = b)
      <4>1. SUFFICES ASSUME p = L, F < D, key[F + 1] = b PROVE FALSE
        OBVIOUS
      <4>2. Stepwise(P, t, key, D)
        BY <1>2, PathSteps DEF Found
      <4>3. P[F + 1] = q
        BY <1>1, <1>2, <1>6, <3>2, <4>1, <4>2 DEF Stepwise
      <4>4. F + 1 \in 0 .. D /\ F + 1 > F
        BY <1>2, <4>1
      <4>5. P[F + 1] = Nullptr
        BY <4>4 DEF Found
      <4> QED
        BY <3>3, <4>3, <4>5
    <3>5. Child(u, p, b) = q
      BY <1>1, <1>3, <3>2, <3>3, <3>4 DEF Linked
    <3> QED
      BY <3>3, <3>5
  <2>2. CASE q = N
    <3>1. F < D /\ F + 1 <= Len(key)
      BY <1>2, <1>3, <2>2
    <3>2. key[F + 1] \in Bin
      BY <1>2, <3>1, PreNext
    <3>3. L \in Nodes(u)
      BY <1>6, <1>7
    <3>4. Child(u, L, key[F + 1]) = q
      BY <1>1, <1>3, <2>2, <3>1, <3>2, <3>3 DEF Linked
    <3> QED
      BY <3>2, <3>3, <3>4
  <2>3. CASE q > N
    <3>1. PICK p : p = q - 1
      OBVIOUS
    <3>2. /\ p \in Nodes(u) /\ q = p + 1 /\ ~(p < N) /\ p # L /\ p + 1 < N + (D - F)
          /\ F + 1 + (p + 1) - N \in Nat /\ F + 1 + (p + 1) - N <= Len(key) /\ F + 1 + (p + 1) - N >= 1
      BY <1>2, <1>3, <1>6, <2>3, <3>1
    <3>3. PICK b : b = key[F + 1 + (p + 1) - N]
      OBVIOUS
    <3>4. b \in Bin
      <4>1. PICK e : e = F + 1 + (p + 1) - N
        OBVIOUS
      <4>2. e \in 1 .. Len(key) /\ b = key[e]
        BY <1>2, <3>2, <3>3, <4>1
      <4> HIDE DEF Bin
      <4> QED
        BY <4>2, ElementOfSeq
    <3>5. Child(u, p, b) = p + 1
      BY <1>1, <1>3, <3>2, <3>3, <3>4 DEF Linked
    <3> QED
      BY <3>2, <3>4, <3>5
  <2> QED
    BY <1>2, <1>7, <2>1, <2>2, <2>3
<1>14. ASSUME NEW q \in Nodes(u) PROVE Len(nm[q]) <= q /\ Len(nm[q]) <= Width[f]
  <2>1. CASE q < N
    BY <1>7, <2>1 DEF Named
  <2>2. CASE ~(q < N)
    <3>1. PICK d \in 0 .. D : d = F + 1 + (q - N) /\ Len(nm[q]) = d
      BY <1>8, <2>2
    <3>2. d <= q /\ d <= D
      BY <1>2, <1>7, <2>2, <3>1
    <3> QED
      BY <1>2, <3>1, <3>2
  <2> QED
    BY <2>1, <2>2
<1>15. Named(f, u, nm)
  BY <1>9, <1>10, <1>12, <1>13, <1>14 DEF Named
<1>16. PICK g : g = Target(t, L, F, D)
  OBVIOUS
<1>17. g \in Nodes(u) /\ nm[g] = Pre(key, D)
  <2>1. CASE F = D
    <3>1. g = L
      BY <1>16, <2>1 DEF Target
    <3> QED
      BY <1>6, <1>7, <2>1, <3>1
  <2>2. CASE F # D
    <3>1. g = N + (D - F) - 1
      BY <1>1, <1>16, <2>2 DEF Target
    <3>2. g \in Nodes(u) /\ ~(g < N) /\ F + 1 + (g - N) = D
      BY <1>2, <1>3, <2>2, <3>1
    <3>3. nm[g] = Pre(key, F + 1 + (g - N))
      BY <1>7, <3>2
    <3> QED
      BY <3>2, <3>3
  <2> QED
    BY <2>1, <2>2
<1> QED
  BY <1>1, <1>15, <1>16, <1>17 DEF Renamed

-----------------------------------------------------------------------------
(* The table of tags.                                                      *)
LEMMA MinIsLeast ==
  ASSUME NEW S \in SUBSET Nat, S # {}
  PROVE  Min(S) \in S /\ \A y \in S : Min(S) <= y
<1> DEFINE Less == {ss \in Nat \X Nat : ss[1] < ss[2]}
<1>1. IsWellFoundedOn(Less, Nat)
  BY NatLessThanWellFounded DEF OpToRel
<1>2. PICK x \in S : \A y \in S : ~(<<y, x>> \in Less)
  <2> HIDE DEF Less
  <2> QED
    BY <1>1, WFMin
<1>3. \A y \in S : x <= y
  <2>1. ASSUME NEW y \in S PROVE x <= y
    <3>1. x \in Nat /\ y \in Nat /\ ~(<<y, x>> \in Less)
      BY <1>2
    <3>2. ~(y < x)
      BY <3>1
    <3> QED
      BY <3>1, <3>2
  <2> QED
    BY <2>1
<1>4. \E z \in S : \A y \in S : z <= y
  BY <1>3
<1> QED
  BY <1>4, Zenon DEF Min

LEMMA TagFound ==
  ASSUME NEW tag \in Tags, outbound \in Seq(Tags)
  PROVE  /\ TableWith(tag) \in Seq(Tags)
         /\ \A i \in 1 .. Len(outbound) : i \in 1 .. Len(TableWith(tag)) /\ TableWith(tag)[i] = outbound[i]
         /\ OutboundPos(tag) \in Nat /\ OutboundPos(tag) + 1 \in 1 .. Len(TableWith(tag))
         /\ TableWith(tag)[OutboundPos(tag) + 1] = tag
<1>1. PICK out : out = TableWith(tag)
  OBVIOUS
<1>2. /\ out \in Seq(Tags) /\ Len(out) \in Nat
      /\ \A i \in 1 .. Len(outbound) : i \in 1 .. Len(out) /\ out[i] = outbound[i]
      /\ \E i \in 1 .. Len(out) : out[i] = tag
  <2>1. CASE \E i \in 1 .. Len(outbound) : outbound[i] = tag
    BY <1>1, <2>1 DEF TableWith
  <2>2. CASE ~\E i \in 1 .. Len(outbound) : outbound[i] = tag
    <3>1. out = Append(outbound, tag)
      BY <1>1, <2>2 DEF TableWith
    <3>2. /\ out \in Seq(Tags) /\ Len(out) = Len(outbound) + 1 /\ Len(outbound) \in Nat
          /\ \A i \in 1 .. Len(outbound) : out[i] = outbound[i]
          /\ out[Len(outbound) + 1] = tag
      BY <3>1, AppendProperties, LenProperties
    <3>3. \A i \in 1 .. Len(outbound) : i \in 1 .. Len(out)
      BY <3>2
    <3>4. Len(outbound) + 1 \in 1 .. Len(out) /\ Len(out) \in Nat
      BY <3>2
    <3> QED
      BY <3>2, <3>3, <3>4
  <2> QED
    BY <2>1, <2>2
<1>3. PICK S : S = {i \in 1 .. Len(out) : out[i] = tag}
  OBVIOUS
<1>4. Min(S) \in S
  <2>1. S \in SUBSET Nat /\ S # {}
    BY <1>2, <1>3
  <2> QED
    BY <2>1, MinIsLeast
<1>5. PICK m : m = Min(S)
  OBVIOUS
<1>6. m \in 1 .. Len(out) /\ out[m] = tag
  BY <1>3, <1>4, <1>5
<1>7. OutboundPos(tag) = m - 1
  BY <1>1, <1>3, <1>5 DEF OutboundPos
<1>8. m \in Nat /\ (m - 1) + 1 = m /\ m - 1 \in Nat
  BY <1>2, <1>6
<1> QED
  BY <1>1, <1>2, <1>6, <1>7, <1>8

(* The values of a family whose block of all addresses has no rule.        *)
Holds(out, rls, v, block) ==
  v \in Nat /\ v + 1 \in 1 .. Len(out) /\ block \in DOMAIN rls /\ out[v + 1] = rls[block]

Has(t, name, s) == \E q \in Nodes(t) : name[q] = s /\ t.value[q + 1] # NoValue

Valued(f, t, name, out, rls) ==
  /\ \A q \in Nodes(t) : t.value[q + 1] = NoValue \/ Holds(out, rls, t.value[q + 1], <<f, name[q]>>)
  /\ \A s : <<f, s>> \in DOMAIN rls => Has(t, name, s)

(* What a step changes: the table, the rules, the names and the values.    *)
Longer(out, o) == \A i \in 1 .. Len(out) : i \in 1 .. Len(o) /\ o[i] = out[i]

Ruled(rls, r, f, k, tag) ==
  r = [b \in DOMAIN rls \cup {<<f, k>>} |-> IF b = <<f, k>> THEN tag ELSE rls[b]]

Kept(t, u, name, nm) == Nodes(t) \subseteq Nodes(u) /\ \A q \in Nodes(t) : nm[q] = name[q]

Points(o, val, tag) == val \in Nat /\ val + 1 \in 1 .. Len(o) /\ o[val + 1] = tag

Changed(t, u, g, val) ==
  \A q \in Nodes(u) : u.value[q + 1] = IF q = g THEN val
                                       ELSE IF q \in Nodes(t) THEN t.value[q + 1] ELSE NoValue

(* Another family's rules and a longer table leave the values right.       *)
LEMMA ValuedElsewhere ==
  ASSUME NEW f, NEW g, f # g, NEW t, NEW name, NEW out, NEW o, NEW rls, NEW r, NEW tag, NEW k,
         Valued(g, t, name, out, rls), Longer(out, o), Ruled(rls, r, f, k, tag)
  PROVE  Valued(g, t, name, o, r)
<1> USE DEF Longer, Ruled
<1>1. ASSUME NEW s PROVE <<g, s>> # <<f, k>>
  OBVIOUS
<1>2. ASSUME NEW q \in Nodes(t), t.value[q + 1] # NoValue
      PROVE  Holds(o, r, t.value[q + 1], <<g, name[q]>>)
  <2>1. Holds(out, rls, t.value[q + 1], <<g, name[q]>>)
    BY <1>2 DEF Valued
  <2>2. PICK b, v : b = <<g, name[q]>> /\ v = t.value[q + 1]
    OBVIOUS
  <2>3. b # <<f, k>>
    BY <1>1, <2>2
  <2> QED
    BY <2>1, <2>2, <2>3 DEF Holds
<1>3. ASSUME NEW s, <<g, s>> \in DOMAIN r PROVE Has(t, name, s)
  <2>1. <<g, s>> \in DOMAIN rls
    BY <1>1, <1>3
  <2> QED
    BY <2>1 DEF Valued
<1> QED
  BY <1>2, <1>3 DEF Valued

(* put gives the block's node the tag's value.                             *)
LEMMA ValuedHere ==
  ASSUME NEW f \in Families, NEW t, Shaped(t), NEW name, NEW u, NEW nm, NEW g \in Nodes(u),
         NEW out, NEW o, NEW rls, NEW r, NEW tag, NEW val,
         Valued(f, t, name, out, rls), Named(f, u, nm), Kept(t, u, name, nm), Changed(t, u, g, val),
         Longer(out, o), Points(o, val, tag), Ruled(rls, r, f, nm[g], tag)
  PROVE  Valued(f, u, nm, o, r)
<1> USE DEF Kept, Changed, Longer, Points, Ruled
<1>1. ASSUME NEW q \in Nodes(u), u.value[q + 1] # NoValue
      PROVE  Holds(o, r, u.value[q + 1], <<f, nm[q]>>)
  <2>1. CASE q = g
    <3>1. u.value[q + 1] = val
      BY <2>1
    <3>2. <<f, nm[q]>> \in DOMAIN r /\ r[<<f, nm[q]>>] = tag
      BY <2>1
    <3> QED
      BY <3>1, <3>2 DEF Holds
  <2>2. CASE q # g
    <3>1. q \in Nodes(t) /\ u.value[q + 1] = t.value[q + 1]
      BY <1>1, <2>2
    <3>2. Holds(out, rls, u.value[q + 1], <<f, nm[q]>>)
      BY <1>1, <3>1 DEF Valued
    <3>3. nm[q] # nm[g]
      BY <2>2 DEF Named
    <3>4. PICK b, v : b = <<f, nm[q]>> /\ v = u.value[q + 1]
      OBVIOUS
    <3>5. b # <<f, nm[g]>>
      BY <3>3, <3>4
    <3> QED
      BY <3>2, <3>4, <3>5 DEF Holds
  <2> QED
    BY <2>1, <2>2
<1>2. ASSUME NEW s, <<f, s>> \in DOMAIN r PROVE Has(u, nm, s)
  <2>1. u.value[g + 1] # NoValue
    BY DEF NoValue
  <2>2. CASE s = nm[g]
    BY <2>1, <2>2 DEF Has
  <2>3. CASE s # nm[g]
    <3>1. <<f, s>> \in DOMAIN rls
      BY <1>2, <2>3
    <3>2. PICK q \in Nodes(t) : name[q] = s /\ t.value[q + 1] # NoValue
      BY <3>1 DEF Valued, Has
    <3>3. q \in Nodes(u) /\ nm[q] = s /\ q # g
      BY <2>3, <3>2
    <3> QED
      BY <3>2, <3>3 DEF Has
  <2> QED
    BY <2>2, <2>3
<1> QED
  BY <1>1, <1>2 DEF Valued

-----------------------------------------------------------------------------
(* The inductive invariant.                                                *)
Right(f, t, out, rls) ==
  /\ Shaped(t)
  /\ \E name : /\ Named(f, t, name)
               /\ <<f, <<>> >> \notin DOMAIN rls => Valued(f, t, name, out, rls)

TrieInv ==
  /\ trie = [f \in Families |-> trie[f]]
  /\ outbound \in Seq(Tags)
  /\ \A b \in DOMAIN rules : b = <<b[1], b[2]>>
  /\ \A f \in Families : Right(f, trie[f], outbound, rules)

LEMMA TrieInitInv == TrieInit => TrieInv
<1> SUFFICES ASSUME TrieInit PROVE TrieInv
  OBVIOUS
<1> USE DEF Nullptr, NoValue
<1>1. /\ trie = [f \in Families |-> NewTrie] /\ outbound = <<>> /\ rules = <<>> /\ DOMAIN rules = {}
  BY DEF TrieInit
<1>2. PICK t : t = NewTrie
  OBVIOUS
<1>3. /\ t.left = <<-1>> /\ t.right = <<-1>> /\ t.value = <<-1>>
  BY <1>2 DEF NewTrie
<1>4. /\ Size(t) = 1 /\ t.left \in Seq(Int) /\ t.right \in Seq(Int) /\ t.value \in Seq(Int)
      /\ Len(t.left) = 1 /\ Len(t.right) = 1 /\ t.left[1] = -1 /\ t.right[1] = -1 /\ t.value[1] = -1
  BY <1>3 DEF Size
<1>5. Shaped(t) /\ Nodes(t) = {0}
  BY <1>4 DEF Shaped, Nodes
<1>6. ASSUME NEW f \in Families PROVE Right(f, t, outbound, rules)
  <2>1. PICK name : name = [q \in {0} |-> <<>>]
    OBVIOUS
  <2>2. \A b \in Bin : Child(t, 0, b) = Nullptr
    BY <1>4 DEF Child
  <2>3. name[0] = <<>> /\ Len(name[0]) = 0 /\ name \in [{0} -> Seq(Bin)] /\ Width[f] \in Nat
    BY <2>1, TrieAssumption DEF Families
  <2>4. Named(f, t, name)
    BY <1>5, <2>2, <2>3 DEF Named
  <2>5. Valued(f, t, name, outbound, rules)
    BY <1>1, <1>4, <1>5 DEF Valued
  <2> QED
    BY <1>5, <2>4, <2>5 DEF Right
<1> QED
  BY <1>1, <1>2, <1>6 DEF TrieInv

(* The key put has the width of an address, and the block's bits first.    *)
LEMMA KeyOfBlock ==
  ASSUME NEW f \in Families, NEW ip \in Addresses(f), NEW prefix \in 0 .. Width[f]
  PROVE  /\ Depth(f, prefix) \in 0 .. Width[f]
         /\ Normalize(f, ip, prefix) \in Seq(Bin) /\ Len(Normalize(f, ip, prefix)) = Width[f]
         /\ ip \in Seq(Bin) /\ Len(ip) = Width[f]
         /\ prefix # 0 => Pre(Normalize(f, ip, prefix), Depth(f, prefix)) = Pre(ip, prefix)
<1>1. Width[f] \in Nat \ {0}
  BY TrieAssumption DEF Families
<1>2. PICK w, D, key : w = Width[f] /\ D = Depth(f, prefix) /\ key = Normalize(f, ip, prefix)
  OBVIOUS
<1>3. D \in 0 .. w /\ (prefix # 0 => D = prefix) /\ w \in Nat
  BY <1>1, <1>2 DEF Depth
<1>4. ip \in [1 .. w -> Bin]
  BY <1>2 DEF Addresses, Bin
<1>5. /\ key = [i \in 1 .. w |-> IF i <= D THEN ip[i] ELSE 0]
  BY <1>2 DEF Normalize
<1>6. key \in [1 .. w -> Bin]
  BY <1>4, <1>5 DEF Bin
<1>7. key \in Seq(Bin) /\ Len(key) = w /\ ip \in Seq(Bin) /\ Len(ip) = w
  <2> HIDE DEF Bin
  <2> QED
    BY <1>3, <1>4, <1>6
<1>8. ASSUME prefix # 0 PROVE Pre(key, D) = Pre(ip, D)
  <2>1. D \in 0 .. Len(key) /\ D \in 0 .. Len(ip)
    BY <1>3, <1>7
  <2>2. /\ Pre(key, D) \in Seq(Bin) /\ Len(Pre(key, D)) = D /\ \A i \in 1 .. D : Pre(key, D)[i] = key[i]
        /\ Pre(ip, D) \in Seq(Bin) /\ Len(Pre(ip, D)) = D /\ \A i \in 1 .. D : Pre(ip, D)[i] = ip[i]
    BY <1>7, <2>1, PreProperties
  <2>3. \A i \in 1 .. D : key[i] = ip[i]
    BY <1>3, <1>5
  <2> QED
    BY <2>2, <2>3, BitsEqual
<1> QED
  BY <1>2, <1>3, <1>7, <1>8

LEMMA PutRuleHere ==
  ASSUME TrieInv, NEW f \in Families, NEW ip \in Addresses(f), NEW prefix \in 0 .. Width[f],
         NEW tag \in Tags, PutRule(f, ip, prefix, tag)
  PROVE  Right(f, trie'[f], outbound', rules')
<1>1. PICK t, key, D, val, u, o, r, k :
        /\ t = trie[f] /\ key = Normalize(f, ip, prefix) /\ D = Depth(f, prefix)
        /\ val = OutboundPos(tag) /\ u = Put(t, f, key, prefix, val) /\ o = TableWith(tag)
        /\ r = rules' /\ k = Pre(ip, prefix)
  OBVIOUS
<1>2. /\ trie'[f] = u /\ outbound' = o
      /\ r = [b \in DOMAIN rules \cup {<<f, k>>} |-> IF b = <<f, k>> THEN tag ELSE rules[b]]
  <2>1. f \in DOMAIN trie
    BY DEF TrieInv
  <2> QED
    BY <1>1, <2>1 DEF PutRule, Block, Pre
<1>3. Shaped(t) /\ \E name : Named(f, t, name)
               /\ (<<f, <<>> >> \notin DOMAIN rules => Valued(f, t, name, outbound, rules))
  BY <1>1 DEF TrieInv, Right
<1>4. PICK name : Named(f, t, name)
               /\ (<<f, <<>> >> \notin DOMAIN rules => Valued(f, t, name, outbound, rules))
  BY <1>3
<1>5. /\ D \in 0 .. Len(key) /\ D <= Width[f] /\ key \in Seq(Bin) /\ ip \in Seq(Bin)
      /\ prefix # 0 => Pre(key, D) = k
  BY <1>1, KeyOfBlock
<1>6. /\ \A i \in 1 .. Len(outbound) : i \in 1 .. Len(o) /\ o[i] = outbound[i]
      /\ val \in Nat /\ val + 1 \in 1 .. Len(o) /\ o[val + 1] = tag
  BY <1>1, TagFound DEF TrieInv
<1>7. PICK P, F : Found(t, key, D, P, F) /\ Grown(t, u, key, P[F], F, D, val)
  <2>1. val \in Int /\ Depth(f, prefix) \in 0 .. Len(key)
    BY <1>1, <1>5, <1>6
  <2> QED
    BY <1>1, <1>3, <1>4, <1>5, <2>1, PutGrows
<1>8. PICK nm, g : nm = Extended(name, t, u, key, F) /\ g = Target(t, P[F], F, D)
  OBVIOUS
<1>9. Named(f, u, nm) /\ g \in Nodes(u) /\ nm[g] = Pre(key, D)
  <2>1. Renamed(f, t, u, key, name, P[F], F, D)
    BY <1>3, <1>4, <1>5, <1>7, GrownNamed
  <2> QED
    BY <1>8, <2>1 DEF Renamed
<1>10. Shaped(u) /\ \A q \in Nodes(u) : u.value[q + 1] = ValueOf(t, P[F], F, D, val, q)
  BY <1>7 DEF Grown
<1>11. /\ Nodes(t) \subseteq Nodes(u) /\ \A q \in Nodes(t) : nm[q] = name[q]
       /\ \A q \in Nodes(u) : q < Size(t) <=> q \in Nodes(t)
  <2>1. Size(u) = Size(t) + (D - F)
    BY <1>7 DEF Grown
  <2>2. Size(t) \in Nat /\ F \in 0 .. D /\ D \in Nat
    BY <1>3, <1>5, <1>7 DEF Shaped, Found
  <2>3. Nodes(t) = 0 .. Size(t) - 1 /\ Nodes(u) = 0 .. Size(u) - 1
    BY DEF Nodes
  <2>4. Nodes(t) \subseteq Nodes(u) /\ \A q \in Nodes(u) : q < Size(t) <=> q \in Nodes(t)
    BY <2>1, <2>2, <2>3
  <2> QED
    BY <1>8, <2>4 DEF Extended
<1>12. \A q \in Nodes(u) : u.value[q + 1] = IF q = g THEN val
                                            ELSE IF q \in Nodes(t) THEN t.value[q + 1] ELSE NoValue
  BY <1>8, <1>10, <1>11 DEF ValueOf
<1>13. ASSUME <<f, <<>> >> \notin DOMAIN r PROVE Valued(f, u, nm, o, r)
  <2>1. k # <<>> /\ <<f, <<>> >> \notin DOMAIN rules
    BY <1>2, <1>13
  <2>2. prefix # 0
    BY <1>1, <1>5, <2>1, PreNone
  <2>3. k = nm[g]
    BY <1>5, <1>9, <2>2
  <2>4. Ruled(rules, r, f, nm[g], tag)
    BY <1>2, <2>3 DEF Ruled
  <2>5. Valued(f, t, name, outbound, rules)
    BY <1>4, <2>1
  <2>6. Kept(t, u, name, nm) /\ Changed(t, u, g, val) /\ Longer(outbound, o) /\ Points(o, val, tag)
    BY <1>6, <1>11, <1>12 DEF Kept, Changed, Longer, Points
  <2> QED
    BY <1>3, <1>9, <2>4, <2>5, <2>6, ValuedHere
<1>14. Right(f, u, o, r)
  BY <1>9, <1>10, <1>13 DEF Right
<1> QED
  BY <1>1, <1>2, <1>14

LEMMA PutRuleThere ==
  ASSUME TrieInv, NEW f \in Families, NEW ip \in Addresses(f), NEW prefix \in 0 .. Width[f],
         NEW tag \in Tags, PutRule(f, ip, prefix, tag), NEW g \in Families, f # g
  PROVE  Right(g, trie'[g], outbound', rules')
<1>1. PICK t, o, r, k : t = trie[g] /\ o = TableWith(tag) /\ r = rules' /\ k = Pre(ip, prefix)
  OBVIOUS
<1>2. /\ trie'[g] = t /\ outbound' = o
      /\ r = [b \in DOMAIN rules \cup {<<f, k>>} |-> IF b = <<f, k>> THEN tag ELSE rules[b]]
  <2>1. g \in DOMAIN trie
    BY DEF TrieInv
  <2> QED
    BY <1>1, <2>1 DEF PutRule, Block, Pre
<1>3. PICK name : Named(g, t, name)
               /\ (<<g, <<>> >> \notin DOMAIN rules => Valued(g, t, name, outbound, rules))
  BY <1>1 DEF TrieInv, Right
<1>4. Shaped(t) /\ \A i \in 1 .. Len(outbound) : i \in 1 .. Len(o) /\ o[i] = outbound[i]
  BY <1>1, TagFound DEF TrieInv, Right
<1>5. ASSUME <<g, <<>> >> \notin DOMAIN r PROVE Valued(g, t, name, o, r)
  <2>1. <<g, <<>> >> \notin DOMAIN rules
    BY <1>2, <1>5
  <2>2. Valued(g, t, name, outbound, rules)
    BY <1>3, <2>1
  <2>3. Longer(outbound, o) /\ Ruled(rules, r, f, k, tag)
    BY <1>2, <1>4 DEF Longer, Ruled
  <2> QED
    BY <2>2, <2>3, ValuedElsewhere
<1>6. Right(g, t, o, r)
  BY <1>3, <1>4, <1>5 DEF Right
<1> QED
  BY <1>1, <1>2, <1>6

LEMMA TrieNextInv == TrieInv /\ [TrieNext]_trieVars => TrieInv'
<1> SUFFICES ASSUME TrieInv, [TrieNext]_trieVars PROVE TrieInv'
  OBVIOUS
<1>1. CASE UNCHANGED trieVars
  BY <1>1 DEF trieVars, TrieInv
<1>2. CASE TrieNext
  <2>1. PICK f \in Families : \E ip \in Addresses(f), prefix \in 0 .. Width[f], tag \in Tags :
          PutRule(f, ip, prefix, tag)
    BY <1>2 DEF TrieNext
  <2>2. PICK ip \in Addresses(f), prefix \in 0 .. Width[f], tag \in Tags : PutRule(f, ip, prefix, tag)
    BY <2>1
  <2>3. \A g \in Families : Right(g, trie'[g], outbound', rules')
    BY <2>2, PutRuleHere, PutRuleThere
  <2>4. outbound' \in Seq(Tags)
    BY <2>2, TagFound DEF TrieInv, PutRule
  <2>5. \A b \in DOMAIN rules' : b = <<b[1], b[2]>>
    BY <2>2 DEF TrieInv, PutRule, Block
  <2>6. trie' = [g \in Families |-> trie'[g]]
    BY <2>2 DEF TrieInv, PutRule
  <2> QED
    BY <2>3, <2>4, <2>5, <2>6 DEF TrieInv
<1> QED
  BY <1>1, <1>2

-----------------------------------------------------------------------------
LEMMA InvIsTree == TrieInv => TrieIsTree
<1> SUFFICES ASSUME TrieInv, NEW f \in Families
             PROVE  /\ Parents(trie[f], 0) = {}
                    /\ \A n \in 1 .. Size(trie[f]) - 1 :
                         /\ Cardinality(Parents(trie[f], n)) = 1
                         /\ \A e \in Parents(trie[f], n) : e[1] < n
  BY DEF TrieIsTree
<1>1. PICK t : t = trie[f]
  OBVIOUS
<1>2. Shaped(t) /\ \E name : Named(f, t, name)
  BY <1>1 DEF TrieInv, Right
<1>3. PICK name : Named(f, t, name)
  BY <1>2
<1>4. /\ Parents(t, 0) = {}
      /\ \A n \in 1 .. Size(t) - 1 :
           Cardinality(Parents(t, n)) = 1 /\ \A e \in Parents(t, n) : e[1] < n
  BY <1>2, <1>3, NamedParents
<1> QED
  BY <1>1, <1>4

(* get goes down along an IPv4 address itself.                             *)
LEMMA BitsOfV4 ==
  ASSUME NEW ip \in Addresses("v4"), NEW n \in Nat
  PROVE  /\ Bits(ip, n) \in Seq(Bin) /\ Len(Bits(ip, n)) = n
         /\ \A d \in 0 .. n : d <= Width["v4"] => Pre(Bits(ip, n), d) = Pre(ip, d)
<1>1. PICK w, k : w = Width["v4"] /\ k = Bits(ip, n)
  OBVIOUS
<1>2. w \in Nat \ {0} /\ ip \in [1 .. w -> Bin]
  BY <1>1, TrieAssumption DEF Families, Addresses, Bin
<1>3. ip \in Seq(Bin) /\ Len(ip) = w
  <2> HIDE DEF Bin
  <2> QED
    BY <1>2
<1>4. k = [d \in 1 .. n |-> IF d <= w THEN ip[w - w + d] ELSE 0]
  BY <1>1, <1>3 DEF Bits
<1>5. \A d \in 1 .. n : d <= w => k[d] = ip[d]
  BY <1>2, <1>4
<1>6. \A d \in 1 .. n : k[d] \in Bin
  <2>1. ASSUME NEW d \in 1 .. n PROVE k[d] \in Bin
    <3>1. CASE d <= w
      <4>1. d \in 1 .. w /\ k[d] = ip[d]
        BY <1>2, <1>5, <3>1
      <4> QED
        BY <1>2, <4>1
    <3>2. CASE ~(d <= w)
      BY <1>4, <3>2 DEF Bin
    <3> QED
      BY <3>1, <3>2
  <2> QED
    BY <2>1
<1>7. k \in Seq(Bin) /\ Len(k) = n
  <2>1. k \in [1 .. n -> Bin]
    BY <1>4, <1>6
  <2> HIDE DEF Bin
  <2> QED
    BY <2>1
<1>8. ASSUME NEW d \in 0 .. n, d <= w PROVE Pre(k, d) = Pre(ip, d)
  <2>1. d \in 0 .. Len(k) /\ d \in 0 .. Len(ip)
    BY <1>2, <1>3, <1>7, <1>8
  <2>2. /\ Pre(k, d) \in Seq(Bin) /\ Len(Pre(k, d)) = d /\ \A i \in 1 .. d : Pre(k, d)[i] = k[i]
        /\ Pre(ip, d) \in Seq(Bin) /\ Len(Pre(ip, d)) = d /\ \A i \in 1 .. d : Pre(ip, d)[i] = ip[i]
    BY <1>3, <1>7, <2>1, PreProperties
  <2>3. \A i \in 1 .. d : k[i] = ip[i]
    BY <1>2, <1>5, <1>8
  <2> QED
    BY <2>2, <2>3, BitsEqual
<1> QED
  BY <1>1, <1>7, <1>8

(* The depths at which get sees a value are the lengths of the blocks that *)
(* contain the address.                                                    *)
Seen(t, P) == {d \in 0 .. Size(t) : P[d] # Nullptr /\ t.value[P[d] + 1] # NoValue}

Sees(t, P, ip, d) ==
  /\ d <= Width["v4"] /\ <<"v4", Pre(ip, d)>> \in DOMAIN rules
  /\ t.value[P[d] + 1] # NoValue
  /\ outbound[t.value[P[d] + 1] + 1] = rules[<<"v4", Pre(ip, d)>>]

LEMMA SeenIsContaining ==
  ASSUME TrieInv, NoWholeRange("v4"), NEW ip \in Addresses("v4"), NEW t, t = trie["v4"],
         NEW P, P = Descend(t, Bits(ip, Size(t)), Size(t))
  PROVE  /\ Size(t) \in Nat
         /\ \A d \in Seen(t, P) : Sees(t, P, ip, d)
         /\ \A b \in Containing("v4", ip) : Len(b[2]) \in Seen(t, P) /\ b = <<"v4", Pre(ip, Len(b[2]))>>
<1>1. /\ "v4" \in Families /\ Right("v4", t, outbound, rules)
  BY DEF TrieInv, Families
<1>2. PICK name : Named("v4", t, name) /\ Valued("v4", t, name, outbound, rules)
  BY <1>1 DEF Right, NoWholeRange
<1>3. Shaped(t) /\ Size(t) \in Nat \ {0} /\ Width["v4"] \in Nat
  BY <1>1, TrieAssumption DEF Right, Shaped, Families
<1>4. PICK S, k : S = Size(t) /\ k = Bits(ip, S)
  OBVIOUS
<1>5. /\ k \in Seq(Bin) /\ Len(k) = S /\ S \in 0 .. Len(k) /\ S \in Nat
      /\ \A d \in 0 .. S : d <= Width["v4"] => Pre(k, d) = Pre(ip, d)
  <2>1. S \in Nat
    BY <1>3, <1>4
  <2>2. /\ k \in Seq(Bin) /\ Len(k) = S
        /\ \A d \in 0 .. S : d <= Width["v4"] => Pre(k, d) = Pre(ip, d)
    BY <1>4, <2>1, BitsOfV4
  <2> QED
    BY <2>1, <2>2
<1>6. IsPath(P, t, k, S)
  BY <1>4, <1>5, DescendIsPath
<1>7. \A d \in 0 .. S : Meets(t, name, k, d, P[d])
  BY <1>1, <1>2, <1>3, <1>5, <1>6, PathDown
<1>8. \A d \in 0 .. S : \A q \in Nodes(t) : name[q] = Pre(k, d) => P[d] = q
  BY <1>1, <1>2, <1>3, <1>5, <1>6, PathUp
<1>9. ASSUME NEW d \in Seen(t, P) PROVE Sees(t, P, ip, d)
  <2>1. d \in 0 .. S /\ P[d] # Nullptr /\ t.value[P[d] + 1] # NoValue
    BY <1>4 DEF Seen
  <2>2. P[d] \in Nodes(t) /\ name[P[d]] = Pre(k, d)
    BY <1>7, <2>1 DEF Meets
  <2>3. Len(Pre(k, d)) = d /\ Len(name[P[d]]) <= Width["v4"]
    BY <1>2, <1>5, <2>1, <2>2, PreProperties DEF Named
  <2>4. d <= Width["v4"]
    BY <2>2, <2>3
  <2>5. name[P[d]] = Pre(ip, d)
    BY <1>5, <2>1, <2>2, <2>4
  <2>6. Holds(outbound, rules, t.value[P[d] + 1], <<"v4", Pre(ip, d)>>)
    BY <1>2, <2>1, <2>2, <2>5 DEF Valued
  <2> QED
    BY <2>1, <2>4, <2>6 DEF Holds, Sees
<1>10. ASSUME NEW b \in Containing("v4", ip)
       PROVE  Len(b[2]) \in Seen(t, P) /\ b = <<"v4", Pre(ip, Len(b[2]))>>
  <2>1. PICK s : s = b[2]
    OBVIOUS
  <2>2. b \in DOMAIN rules /\ b = <<"v4", s>> /\ Pre(ip, Len(s)) = s
    <3>1. b \in DOMAIN rules /\ b[1] = "v4" /\ Pre(ip, Len(s)) = s
      BY <2>1 DEF Containing, Pre
    <3>2. b = <<b[1], b[2]>>
      BY <3>1 DEF TrieInv
    <3> QED
      BY <2>1, <3>1, <3>2
  <2>3. PICK q \in Nodes(t) : name[q] = s /\ t.value[q + 1] # NoValue
    BY <1>2, <2>2 DEF Valued, Has
  <2>4. PICK d : d = Len(s)
    OBVIOUS
  <2>5. d \in Nat /\ d <= q /\ d <= Width["v4"] /\ q \in Nat /\ q < S
    <3>1. s \in Seq(Bin) /\ d <= q /\ d <= Width["v4"]
      BY <1>2, <2>3, <2>4 DEF Named
    <3>2. d \in Nat
      <4> HIDE DEF Bin
      <4> QED
        BY <2>4, <3>1, LenProperties
    <3>3. q \in Nat /\ q < S
      BY <1>3, <1>4 DEF Nodes
    <3> QED
      BY <3>1, <3>2, <3>3
  <2>6. d \in 0 .. S /\ q # Nullptr
    BY <1>5, <2>5 DEF Nullptr
  <2>7. name[q] = Pre(k, d)
    BY <1>5, <2>2, <2>3, <2>4, <2>5, <2>6
  <2>8. P[d] = q
    BY <1>8, <2>6, <2>7
  <2>9. d \in Seen(t, P)
    BY <1>4, <2>3, <2>6, <2>8 DEF Seen
  <2> QED
    BY <2>1, <2>2, <2>4, <2>9
<1> QED
  BY <1>3, <1>9, <1>10

LEMMA InvIsLongest == TrieInv => LongestPrefix4
<1> SUFFICES ASSUME TrieInv, NoWholeRange("v4"), NEW ip \in Addresses("v4")
             PROVE  Match("v4", ip) = LongestMatch("v4", ip)
  BY DEF LongestPrefix4
<1>1. PICK t, P, C, S : /\ t = trie["v4"] /\ P = Descend(t, Bits(ip, Size(t)), Size(t))
                        /\ C = Containing("v4", ip) /\ S = Seen(t, P)
  OBVIOUS
<1>2. /\ Size(t) \in Nat /\ \A d \in S : Sees(t, P, ip, d)
      /\ \A b \in C : Len(b[2]) \in S /\ b = <<"v4", Pre(ip, Len(b[2]))>>
  BY <1>1, SeenIsContaining
<1>3. Get(t, ip) = IF S = {} THEN NoValue ELSE t.value[P[Max(S)] + 1]
  BY <1>1, Zenon DEF Get, Seen
<1>4. ip \in Seq(Bin) /\ Len(ip) = Width["v4"] /\ Width["v4"] \in Nat
  <2>1. "v4" \in Families /\ Width["v4"] \in Nat /\ 0 \in 0 .. Width["v4"]
    BY TrieAssumption DEF Families
  <2> QED
    BY <2>1, KeyOfBlock
<1>5. ASSUME NEW d \in S
      PROVE  <<"v4", Pre(ip, d)>> \in C /\ Len(Pre(ip, d)) = d /\ d \in Nat
  <2>1. d \in Nat /\ d <= Width["v4"] /\ <<"v4", Pre(ip, d)>> \in DOMAIN rules
    BY <1>1, <1>2 DEF Sees, Seen
  <2>2. Len(Pre(ip, d)) = d
    <3>1. d \in 0 .. Len(ip)
      BY <1>4, <2>1
    <3> QED
      BY <1>4, <3>1, PreProperties
  <2>3. <<"v4", Pre(ip, d)>> \in C
    BY <1>1, <2>1, <2>2 DEF Containing, Pre
  <2> QED
    BY <2>1, <2>2, <2>3
<1>6. CASE S = {}
  <2>1. C = {}
    BY <1>2, <1>6
  <2> QED
    BY <1>1, <1>3, <1>6, <2>1 DEF Match, LongestMatch
<1>7. CASE S # {}
  <2>1. PICK m : m = Max(S)
    OBVIOUS
  <2>2. m \in S /\ \A d \in S : d <= m
    <3>1. S \in SUBSET (0 .. Size(t))
      BY <1>1 DEF Seen
    <3>2. Max(S) \in S /\ \A y \in S : Max(S) >= y
      BY <1>2, <1>7, <3>1, MaxIsGreatest
    <3>3. m \in S /\ \A y \in S : m >= y
      BY <2>1, <3>2
    <3> QED
      BY <1>5, <3>3
  <2>3. PICK B : B = <<"v4", Pre(ip, m)>>
    OBVIOUS
  <2>4. B \in C /\ Len(B[2]) = m /\ m \in Nat
    BY <1>5, <2>2, <2>3
  <2>5. \A c \in C : Len(c[2]) <= Len(B[2])
    BY <1>2, <2>2, <2>4
  <2>6. ASSUME NEW b \in C, \A c \in C : Len(c[2]) <= Len(b[2]) PROVE b = B
    <3>1. Len(b[2]) \in S /\ b = <<"v4", Pre(ip, Len(b[2]))>> /\ m <= Len(b[2])
      BY <1>2, <2>4, <2>6
    <3>2. PICK d : d = Len(b[2])
      OBVIOUS
    <3>3. d \in Nat /\ d <= m /\ m <= d
      BY <1>5, <2>2, <3>1, <3>2
    <3>4. d = m
      BY <2>4, <3>3
    <3> QED
      BY <2>3, <3>1, <3>2, <3>4
  <2>7. LongestMatch("v4", ip) = rules[B]
    <3>1. PICK x : x = CHOOSE b \in C : \A c \in C : Len(c[2]) <= Len(b[2])
      OBVIOUS
    <3>2. x \in C /\ \A c \in C : Len(c[2]) <= Len(x[2])
      BY <2>4, <2>5, <3>1, Zenon
    <3>3. x = B
      BY <2>6, <3>2
    <3>4. LongestMatch("v4", ip) = rules[x]
      BY <1>1, <2>4, <3>1, Zenon DEF LongestMatch
    <3> QED
      BY <3>3, <3>4
  <2>8. Sees(t, P, ip, m)
    BY <1>2, <2>2
  <2>9. PICK v : v = t.value[P[m] + 1]
    OBVIOUS
  <2>10. v # NoValue /\ outbound[v + 1] = rules[B]
    BY <2>3, <2>8, <2>9 DEF Sees
  <2>11. Get(trie["v4"], ip) = v
    BY <1>1, <1>3, <1>7, <2>1, <2>9, Zenon
  <2>12. Match("v4", ip) = outbound[v + 1]
    BY <2>10, <2>11, Zenon DEF Match
  <2> QED
    BY <2>7, <2>10, <2>12
<1> QED
  BY <1>6, <1>7

LEMMA TrieInvariant == TrieSpec => []TrieInv
BY TrieInitInv, TrieNextInv, PTL DEF TrieSpec

(* After any sequence of put_v4 and put_v6, of any widths, the vectors of  *)
(* each family are a tree in which a node has one parent, numbered before  *)
(* it.                                                                     *)
THEOREM TrieTree == TrieSpec => []TrieIsTree
BY TrieInvariant, InvIsTree, PTL

(* "Longest prefix match for CIDR route": the tag that an IPv4 address is  *)
(* given is that of the longest block put which contains it.               *)
THEOREM TrieLongest == TrieSpec => []LongestPrefix4
BY TrieInvariant, InvIsLongest, PTL
=============================================================================
