---------------------------- MODULE RelayProofs ----------------------------
(***************************************************************************)
(* Proofs that the relay moves bytes faithfully, for every set of          *)
(* connections, every buffer capacity and every amount of data.            *)
(***************************************************************************)
EXTENDS Relay, SequenceTheorems, FiniteSetTheorems, TLAPS

(* The first n bytes of a reader are a sequence of length n. *)
LEMMA BytesSeq ==
  ASSUME NEW n \in Nat
  PROVE  Bytes(n) \in Seq(Nat) /\ Len(Bytes(n)) = n /\ \A j \in 1 .. n : Bytes(n)[j] = j
BY DEF Bytes

(* Appending the i bytes that follow the first m gives the first m + i:    *)
(* what a partial poll_write appends to what the writer already has.       *)
LEMMA NextBytes ==
  ASSUME NEW m \in Nat, NEW b, NEW p \in Nat, NEW i \in Nat \ {0},
         \A j \in p + 1 .. p + i : b[j] = m + (j - p)
  PROVE  Bytes(m) \o SubSeq(b, p + 1, p + i) = Bytes(m + i)
<1> DEFINE t == SubSeq(b, p + 1, p + i)
           o == Bytes(m)
<1>1. t \in Seq(Nat) /\ Len(t) = i /\ \A j \in 1 .. i : t[j] = m + j
  <2>1. \A j \in p + 1 .. p + i : b[j] \in Nat
    OBVIOUS
  <2>2. /\ t \in Seq(Nat)
        /\ Len(t) = IF p + 1 <= p + i THEN (p + i) - (p + 1) + 1 ELSE 0
        /\ \A j \in 1 .. (p + i) - (p + 1) + 1 : t[j] = b[(p + 1) + j - 1]
    BY <2>1, SubSeqProperties, p + 1 \in Int, p + i \in Int
  <2> HIDE DEF t
  <2> QED
    BY <2>2
<1> HIDE DEF t
<1>2. o \in Seq(Nat) /\ Len(o) = m /\ \A j \in 1 .. m : o[j] = j
  BY BytesSeq
<1> HIDE DEF o
<1>3. /\ o \o t \in Seq(Nat)
      /\ Len(o \o t) = m + i
      /\ \A j \in 1 .. m + i : (o \o t)[j] = IF j <= m THEN o[j] ELSE t[j - m]
  <2>1. /\ o \o t \in Seq(Nat)
        /\ Len(o \o t) = Len(o) + Len(t)
        /\ \A j \in 1 .. Len(o) + Len(t) :
             (o \o t)[j] = IF j <= Len(o) THEN o[j] ELSE t[j - Len(o)]
    BY <1>1, <1>2, ConcatProperties, Zenon
  <2> QED
    BY <1>1, <1>2, <2>1
<1>4. \A j \in 1 .. m + i : (o \o t)[j] = j
  BY <1>1, <1>2, <1>3
<1>5. Bytes(m + i) \in Seq(Nat) /\ Len(Bytes(m + i)) = m + i
      /\ \A j \in 1 .. m + i : Bytes(m + i)[j] = j
  BY BytesSeq
<1>6. o \o t = Bytes(m + i)
  BY <1>3, <1>4, <1>5, SeqEqual
<1> QED
  BY <1>6 DEF t, o

-----------------------------------------------------------------------------
(* The invariant holds before any relay has begun. *)
LEMMA InitIInv == Init => IInv
<1> SUFFICES ASSUME Init PROVE IInv
  OBVIOUS
<1>1. TypeOK
  BY RelayAssumption DEF Init, TypeOK
<1>2. Bytes(0) = <<>>
  BY DEF Bytes
<1>3. ByteFidelity /\ CleanEndComplete /\ EndedInv
  BY <1>2 DEF Init, ByteFidelity, CleanEndComplete, EndedInv
<1> QED
  BY <1>1, <1>3 DEF IInv

(* Changing one value of a function of naturals keeps it one. *)
LEMMA ExceptNat ==
  ASSUME NEW S, NEW f \in [S -> Nat], NEW x \in S, NEW v \in Nat
  PROVE  [f EXCEPT ![x] = v] \in [S -> Nat]
OBVIOUS

(* Every copy adds to counters that COUNTER_MAP has. *)
LEMMA AmtInCounters ==
  ASSUME NEW k \in Copies
  PROVE  AmtIn(k) \in Counters /\ AmtOut(k) \in Counters
<1>1. k[1] \in Conns
  BY DEF Copies
<1>2. \A d \in Dirs : /\ Counter("inbound", InTag[k[1]], d) \in Counters
                      /\ Counter("outbound", OutTag[k[1]], d) \in Counters
  BY <1>1 DEF Counters
<1>3. "up" \in Dirs /\ "down" \in Dirs
  BY DEF Dirs
<1> QED
  BY <1>2, <1>3 DEF AmtIn, AmtOut

(* A counter update keeps the counters typed. *)
LEMMA FetchAddType ==
  ASSUME TypeOK, NEW k, NEW ctr \in Counters, NEW n \in Nat, FetchAdd(k, ctr, n)
  PROVE  counter' \in [Counters -> Nat] /\ collected' \in [Counters -> Nat]
<1>1. counter \in [Counters -> Nat] /\ collected \in [Counters -> Nat]
  BY DEF TypeOK
<1>2. counter[ctr] + n \in Nat
  BY <1>1
<1>3. [counter EXCEPT ![ctr] = counter[ctr] + n] \in [Counters -> Nat]
  BY <1>1, <1>2, ExceptNat
<1> QED
  BY <1>1, <1>3 DEF FetchAdd

(* A read keeps the invariant: the buffer is empty, so the bytes it takes  *)
(* follow those the writer has.                                            *)
LEMMA ReadIInv ==
  ASSUME IInv, NEW k \in Copies, NEW n \in 1 .. Capacity, Read(k, n)
  PROVE  IInv'
<1> USE DEF IInv
<1>0. Capacity \in Nat /\ n \in Nat
  BY RelayAssumption
<1>1. TypeOK'
  <2>1. counter' \in [Counters -> Nat] /\ collected' \in [Counters -> Nat]
    BY <1>0, FetchAddType, AmtInCounters DEF Read
  <2>2. buf' \in [Copies -> [1 .. Capacity -> Nat]]
    <3>1. src[k] \in Nat /\ buf[k] \in [1 .. Capacity -> Nat]
      BY DEF TypeOK
    <3> DEFINE filled == [j \in 1 .. Capacity |-> IF j <= n THEN src[k] + j ELSE buf[k][j]]
    <3>2. filled \in [1 .. Capacity -> Nat]
      BY <1>0, <3>1
    <3>3. buf' = [buf EXCEPT ![k] = filled]
      BY DEF Read
    <3>4. buf \in [Copies -> [1 .. Capacity -> Nat]]
      BY DEF TypeOK
    <3> HIDE DEF filled
    <3> QED
      BY <3>2, <3>3, <3>4
  <2> QED
    BY <1>0, <2>1, <2>2 DEF Read, TypeOK
<1>2. ByteFidelity'
  <2> SUFFICES ASSUME NEW h \in Copies
               PROVE  /\ pos'[h] <= cap'[h]
                      /\ Len(out'[h]) + (cap'[h] - pos'[h]) = src'[h]
                      /\ out'[h] = Bytes(Len(out'[h]))
                      /\ \A j \in pos'[h] + 1 .. cap'[h] :
                           buf'[h][j] = Len(out'[h]) + (j - pos'[h])
    BY DEF ByteFidelity
  <2>1. CASE h # k
    BY <2>1 DEF Read, TypeOK, ByteFidelity
  <2>2. CASE h = k
    <3>1. src[k] = Len(out[k]) /\ src[k] \in Nat
      BY DEF Read, TypeOK, ByteFidelity
    <3>2. /\ pos'[k] = 0 /\ cap'[k] = n /\ src'[k] = src[k] + n /\ out' = out
          /\ \A j \in 1 .. n : buf'[k][j] = src[k] + j
      BY <1>0 DEF Read, TypeOK
    <3>3. out[k] = Bytes(Len(out[k]))
      BY DEF ByteFidelity
    <3> QED
      BY <1>0, <2>2, <3>1, <3>2, <3>3
  <2> QED
    BY <2>1, <2>2
<1>3. CleanEndComplete' /\ EndedInv'
  BY DEF Read, Polled, TypeOK, CleanEndComplete, EndedInv
<1> QED
  BY <1>1, <1>2, <1>3

(* A write keeps the invariant: it moves the next bytes from the buffer to *)
(* the writer.                                                             *)
LEMMA WriteIInv ==
  ASSUME IInv, NEW k \in Copies, NEW i \in 1 .. Capacity, Write(k, i)
  PROVE  IInv'
<1> USE DEF IInv
<1>0. /\ Capacity \in Nat /\ i \in Nat \ {0}
      /\ pos[k] \in Nat /\ cap[k] \in 0 .. Capacity /\ pos[k] + i <= cap[k]
      /\ out[k] \in Seq(Nat) /\ Len(out[k]) \in Nat
  <2>1. /\ pos[k] \in 0 .. Capacity /\ cap[k] \in 0 .. Capacity
        /\ out[k] \in Seq(Nat)
    BY DEF TypeOK
  <2>2. pos[k] + i <= cap[k]
    BY DEF Write
  <2> QED
    BY <2>1, <2>2, RelayAssumption
<1>1. out'[k] = Bytes(Len(out[k]) + i)
  <2>1. \A j \in pos[k] + 1 .. pos[k] + i : buf[k][j] = Len(out[k]) + (j - pos[k])
    BY <1>0 DEF ByteFidelity
  <2>2. out[k] = Bytes(Len(out[k]))
    BY DEF ByteFidelity
  <2>3. out[k] \o SubSeq(buf[k], pos[k] + 1, pos[k] + i) = Bytes(Len(out[k]) + i)
    <3> DEFINE m == Len(out[k])
               p == pos[k]
               b == buf[k]
               o == out[k]
    <3>1. /\ m \in Nat
          /\ p \in Nat
          /\ i \in Nat \ {0}
          /\ o = Bytes(m)
          /\ \A j \in p + 1 .. p + i : b[j] = m + (j - p)
      BY <1>0, <2>1, <2>2
    <3> HIDE DEF m, p, b, o
    <3>2. Bytes(m) \o SubSeq(b, p + 1, p + i) = Bytes(m + i)
      BY <3>1, NextBytes, Zenon
    <3> QED
      BY <3>1, <3>2 DEF m, p, b, o
  <2>4. out'[k] = out[k] \o SubSeq(buf[k], pos[k] + 1, pos[k] + i)
    BY DEF Write, TypeOK
  <2> QED
    BY <2>3, <2>4
<1>2. out'[k] \in Seq(Nat) /\ Len(out'[k]) = Len(out[k]) + i
  <2> DEFINE m == Len(out[k]) + i
  <2>1. m \in Nat
    BY <1>0
  <2> HIDE DEF m
  <2>2. Bytes(m) \in Seq(Nat) /\ Len(Bytes(m)) = m
    BY <2>1, BytesSeq
  <2> QED
    BY <1>1, <2>2 DEF m
<1>3. \A h \in Copies : h # k => out'[h] = out[h]
  BY DEF Write, TypeOK
<1>4. flushed'[k] \in Nat /\ flushed'[k] <= Len(out[k]) + i
  <2>1. flushed \in [Copies -> Nat] /\ flushed[k] <= Len(out[k])
    BY DEF TypeOK, EndedInv
  <2>2. CASE flushed' = [flushed EXCEPT ![k] = Len(out[k]) + i]
    BY <1>0, <2>1, <2>2
  <2>3. CASE UNCHANGED flushed
    BY <1>0, <2>1, <2>3
  <2> QED
    BY <2>2, <2>3 DEF Write
<1>5. \A h \in Copies : h # k => flushed'[h] = flushed[h]
  BY DEF Write, TypeOK
<1>6. TypeOK'
  <2>1. counter' \in [Counters -> Nat] /\ collected' \in [Counters -> Nat]
    BY <1>0, FetchAddType, AmtInCounters DEF Write
  <2>2. out' \in [Copies -> Seq(Nat)]
    <3>1. out' = [h \in Copies |-> out'[h]]
      BY DEF Write, TypeOK
    <3>2. \A h \in Copies : out'[h] \in Seq(Nat)
      BY <1>2, <1>3 DEF TypeOK
    <3> QED
      BY <3>1, <3>2
  <2>3. flushed' \in [Copies -> Nat]
    <3>1. flushed \in [Copies -> Nat] /\ Len(out[k]) + i \in Nat
      BY <1>0 DEF TypeOK
    <3> QED
      BY <3>1, ExceptNat DEF Write
  <2>4. pos' \in [Copies -> 0 .. Capacity]
    <3>1. pos \in [Copies -> 0 .. Capacity] /\ pos[k] + i \in 0 .. Capacity
      BY <1>0 DEF TypeOK
    <3>2. pos' = [pos EXCEPT ![k] = pos[k] + i]
      BY DEF Write
    <3> QED
      BY <3>1, <3>2
  <2> QED
    BY <2>1, <2>2, <2>3, <2>4 DEF Write, TypeOK
<1>7. ByteFidelity'
  <2> SUFFICES ASSUME NEW h \in Copies
               PROVE  /\ pos'[h] <= cap'[h]
                      /\ Len(out'[h]) + (cap'[h] - pos'[h]) = src'[h]
                      /\ out'[h] = Bytes(Len(out'[h]))
                      /\ \A j \in pos'[h] + 1 .. cap'[h] :
                           buf'[h][j] = Len(out'[h]) + (j - pos'[h])
    BY DEF ByteFidelity
  <2>1. pos' = [pos EXCEPT ![k] = pos[k] + i] /\ cap' = cap /\ buf' = buf /\ src' = src
    BY DEF Write
  <2>2. CASE h # k
    BY <1>3, <2>1, <2>2 DEF TypeOK, ByteFidelity
  <2>3. CASE h = k
    <3>1. /\ Len(out[k]) + (cap[k] - pos[k]) = src[k]
          /\ \A j \in pos[k] + 1 .. cap[k] : buf[k][j] = Len(out[k]) + (j - pos[k])
      BY DEF ByteFidelity
    <3>2. pos'[k] = pos[k] + i /\ cap'[k] = cap[k] /\ buf'[k] = buf[k] /\ src'[k] = src[k]
      BY <2>1 DEF TypeOK
    <3>3. out'[k] = Bytes(Len(out'[k]))
      BY <1>1, <1>2
    <3>4. Len(out'[k]) + (cap'[k] - pos'[k]) = src'[k] /\ pos'[k] <= cap'[k]
      BY <1>0, <1>2, <3>1, <3>2
    <3>5. ASSUME NEW j \in pos'[k] + 1 .. cap'[k]
          PROVE  buf'[k][j] = Len(out'[k]) + (j - pos'[k])
      <4>1. j \in pos[k] + 1 .. cap[k]
        BY <1>0, <3>2, <3>5
      <4>2. buf'[k][j] = Len(out[k]) + (j - pos[k])
        BY <3>1, <3>2, <4>1
      <4> QED
        BY <1>0, <1>2, <3>2, <4>1, <4>2
    <3> QED
      BY <2>3, <3>3, <3>4, <3>5
  <2> QED
    BY <2>2, <2>3
<1>8. CleanEndComplete'
  <2> SUFFICES ASSUME NEW h \in Copies, result'[h] = "ok"
               PROVE  flushed'[h] = src'[h]
    BY DEF CleanEndComplete
  <2>1. result[h] = "ok" /\ src' = src /\ phase[h[1]] = "closed"
    BY DEF Write, EndedInv
  <2>2. h # k
    BY <2>1 DEF Write, Polled
  <2> QED
    BY <1>5, <2>1, <2>2 DEF CleanEndComplete
<1>9. EndedInv'
  BY <1>2, <1>3, <1>4, <1>5 DEF Write, EndedInv
<1> QED
  BY <1>6, <1>7, <1>8, <1>9

(* Ending a copy keeps the invariant: with an empty buffer and a flush     *)
(* everything read has been passed on.                                     *)
LEMMA FlushIInv ==
  ASSUME IInv, NEW k \in Copies, Flush(k)
  PROVE  IInv'
<1> USE DEF IInv
<1>0. k[1] \in Conns /\ Len(out[k]) \in Nat /\ Len(out[k]) = src[k]
  BY DEF Copies, Flush, TypeOK, ByteFidelity
<1>1. TypeOK'
  <2>1. flushed' \in [Copies -> Nat]
    BY <1>0, ExceptNat DEF Flush, TypeOK
  <2>2. result' \in [Copies -> {"pending", "ok", "err"}]
    BY DEF Flush, Return, TypeOK
  <2>3. phase' \in [Conns -> {"idle", "relaying", "closed"}]
    BY <1>0 DEF Flush, Return, TypeOK
  <2> QED
    BY <2>1, <2>2, <2>3 DEF Flush, TypeOK, statsVars
<1>2. ByteFidelity'
  BY DEF Flush, ByteFidelity
<1>3. CleanEndComplete'
  BY <1>0 DEF Flush, Return, TypeOK, CleanEndComplete
<1>4. EndedInv'
  BY <1>0 DEF Flush, Return, TypeOK, EndedInv, Copies
<1> QED
  BY <1>1, <1>2, <1>3, <1>4

(* Every step keeps the invariant. *)
LEMMA NextIInv == IInv /\ [Next]_vars => IInv'
<1> SUFFICES ASSUME IInv, [Next]_vars PROVE IInv'
  OBVIOUS
<1>1. ASSUME NEW c \in Conns, Start(c)
      PROVE  IInv'
  BY <1>1 DEF IInv, Start, copyVars, statsVars, TypeOK, ByteFidelity, CleanEndComplete,
              EndedInv, Copies
<1>2. ASSUME NEW k \in Copies, NEW n \in 1 .. Capacity, Read(k, n)
      PROVE  IInv'
  BY <1>2, ReadIInv
<1>3. ASSUME NEW k \in Copies, ReadEof(k)
      PROVE  IInv'
  BY <1>3 DEF IInv, ReadEof, statsVars, TypeOK, ByteFidelity, CleanEndComplete, EndedInv
<1>4. ASSUME NEW k \in Copies, NEW i \in 1 .. Capacity, Write(k, i)
      PROVE  IInv'
  BY <1>4, WriteIInv
<1>5. ASSUME NEW k \in Copies, Flush(k)
      PROVE  IInv'
  BY <1>5, FlushIInv
<1>6. ASSUME NEW k \in Copies, PollErr(k)
      PROVE  IInv'
  BY <1>6 DEF IInv, PollErr, Return, statsVars, TypeOK, ByteFidelity, CleanEndComplete,
              EndedInv, Copies
<1>7. ASSUME NEW ctr \in Queried, GetStatsReset(ctr)
      PROVE  IInv'
  <2>1. ctr \in Counters
    BY RelayAssumption
  <2>2. counter' \in [Counters -> Nat] /\ collected' \in [Counters -> Nat]
    BY <1>7, <2>1, ExceptNat DEF GetStatsReset, IInv, TypeOK
  <2>3. TypeOK'
    BY <1>7, <2>2 DEF GetStatsReset, copyVars, IInv, TypeOK
  <2> QED
    BY <1>7, <2>3 DEF IInv, GetStatsReset, copyVars, ByteFidelity, CleanEndComplete,
                      EndedInv
<1>8. CASE UNCHANGED vars
  BY <1>8 DEF IInv, vars, copyVars, statsVars, TypeOK, ByteFidelity, CleanEndComplete,
              EndedInv
<1> QED
  BY <1>1, <1>2, <1>3, <1>4, <1>5, <1>6, <1>7, <1>8 DEF Next, CopyStep

(* The relay's state stays well typed: buffer positions never leave the    *)
(* buffer and counters never go negative.                                  *)
THEOREM TypeCorrect == Spec => []TypeOK
<1>1. IInv => TypeOK
  BY DEF IInv
<1> QED
  BY <1>1, InitIInv, NextIInv, PTL DEF Spec

(* What a writer has got is always exactly the first bytes of its reader,  *)
(* and the buffer holds the next ones.                                     *)
THEOREM BytesAreFaithful == Spec => []ByteFidelity
<1>1. IInv => ByteFidelity
  BY DEF IInv
<1> QED
  BY <1>1, InitIInv, NextIInv, PTL DEF Spec

(* A copy that returned Ok has passed on every byte it read. *)
THEOREM CleanEndIsComplete == Spec => []CleanEndComplete
<1>1. IInv => CleanEndComplete
  BY DEF IInv
<1> QED
  BY <1>1, InitIInv, NextIInv, PTL DEF Spec

-----------------------------------------------------------------------------
(* A prefix of a reader's first bytes is its first bytes. *)
LEMMA BytesPrefix ==
  ASSUME NEW n \in Nat, NEW m \in Nat, m <= n
  PROVE  SubSeq(Bytes(n), 1, m) = Bytes(m)
<1> DEFINE b == Bytes(n)
           t == SubSeq(b, 1, m)
           u == Bytes(m)
<1>1. b \in Seq(Nat) /\ Len(b) = n /\ \A j \in 1 .. n : b[j] = j
  BY BytesSeq
<1>2. u \in Seq(Nat) /\ Len(u) = m /\ \A j \in 1 .. m : u[j] = j
  BY BytesSeq
<1> HIDE DEF b, u
<1>3. /\ t \in Seq(Nat)
      /\ Len(t) = IF 1 <= m THEN m - 1 + 1 ELSE 0
      /\ \A j \in 1 .. m - 1 + 1 : t[j] = b[1 + j - 1]
  <2>1. \A j \in 1 .. m : b[j] \in Nat
    BY <1>1
  <2> QED
    BY <2>1, SubSeqProperties
<1> HIDE DEF t
<1>4. Len(t) = m /\ \A j \in 1 .. m : t[j] = j
  BY <1>1, <1>3
<1>5. t = u
  BY <1>2, <1>3, <1>4, SeqEqual
<1> QED
  BY <1>5 DEF t, b, u

(* What a writer has passed on is the reader's first bytes. *)
LEMMA ReceivedBytes ==
  ASSUME IInv, NEW k \in Copies
  PROVE  SubSeq(out[k], 1, flushed[k]) = Bytes(flushed[k])
<1>1. /\ out[k] = Bytes(Len(out[k])) /\ Len(out[k]) \in Nat
      /\ flushed[k] \in Nat /\ flushed[k] <= Len(out[k])
  BY DEF IInv, TypeOK, ByteFidelity, EndedInv
<1> QED
  BY <1>1, BytesPrefix

(* Fewer first bytes are a prefix of more first bytes. *)
LEMMA BytesPrefixOf ==
  ASSUME NEW m \in Nat, NEW n \in Nat, m <= n
  PROVE  Pipe!PrefixOf(Bytes(m), Bytes(n))
<1>1. Len(Bytes(m)) = m /\ Len(Bytes(n)) = n
  BY BytesSeq
<1> QED
  BY <1>1, BytesPrefix DEF Pipe!PrefixOf

(* The relay implements the abstract byte pipe: whatever its buffering and *)
(* whichever copy ends first, its peers see what BytePipe promises.        *)
THEOREM RelayImplementsPipe == Spec => ImplementsPipe
<1> DEFINE sent     == [k \in Copies |-> Bytes(src[k])]
           received == [k \in Copies |-> SubSeq(out[k], 1, flushed[k])]
           open     == {c \in Conns : phase[c] # "closed"}
           complete == {k \in Copies : result[k] = "ok"}
<1>1. Init => Pipe!Init
  <2> SUFFICES ASSUME Init PROVE Pipe!Init
    OBVIOUS
  <2>1. Bytes(0) = <<>> /\ SubSeq(<<>>, 1, 0) = <<>>
    BY SubSeqEmpty DEF Bytes
  <2>2. sent = [k \in Conns \X Dirs |-> <<>>]
    BY <2>1 DEF Init, Copies
  <2>3. received = [k \in Conns \X Dirs |-> <<>>]
    BY <2>1 DEF Init, Copies
  <2>4. open = Conns /\ complete = {}
    BY DEF Init
  <2> QED
    BY <2>2, <2>3, <2>4 DEF Pipe!Init, Pipe!Pipes
<1>2. IInv /\ IInv' /\ [Next]_vars => [Pipe!Next]_(Pipe!vars)
  <2> SUFFICES ASSUME IInv, IInv', [Next]_vars
               PROVE  [Pipe!Next]_(Pipe!vars)
    OBVIOUS
  <2>0. /\ received = [k \in Copies |-> Bytes(flushed[k])]
        /\ received' = [k \in Copies |-> Bytes(flushed'[k])]
    <3>1. \A k \in Copies : SubSeq(out[k], 1, flushed[k]) = Bytes(flushed[k])
      BY ReceivedBytes
    <3>2. \A k \in Copies : SubSeq(out'[k], 1, flushed'[k]) = Bytes(flushed'[k])
      <4>1. ASSUME NEW k \in Copies
            PROVE  SubSeq(out'[k], 1, flushed'[k]) = Bytes(flushed'[k])
        <5>1. /\ out'[k] = Bytes(Len(out'[k])) /\ Len(out'[k]) \in Nat
              /\ flushed'[k] \in Nat /\ flushed'[k] <= Len(out'[k])
          BY DEF IInv, TypeOK, ByteFidelity, EndedInv
        <5> QED
          BY <5>1, BytesPrefix
      <4> QED
        BY <4>1
    <3> QED
      BY <3>1, <3>2
  <2>1. \A k \in Copies : /\ src[k] \in Nat /\ flushed[k] \in Nat /\ flushed[k] <= src[k]
                           /\ src'[k] \in Nat /\ flushed'[k] \in Nat /\ flushed'[k] <= src'[k]
    <3>1. ASSUME NEW k \in Copies
          PROVE  /\ src[k] \in Nat /\ flushed[k] \in Nat /\ flushed[k] <= src[k]
      <4>1. /\ src[k] \in Nat /\ flushed[k] \in Nat /\ Len(out[k]) \in Nat
            /\ pos[k] \in Nat /\ cap[k] \in Nat /\ pos[k] <= cap[k]
            /\ Len(out[k]) + (cap[k] - pos[k]) = src[k] /\ flushed[k] <= Len(out[k])
        BY DEF IInv, TypeOK, ByteFidelity, EndedInv
      <4> QED
        BY <4>1
    <3>2. ASSUME NEW k \in Copies
          PROVE  /\ src'[k] \in Nat /\ flushed'[k] \in Nat /\ flushed'[k] <= src'[k]
      <4>1. /\ src'[k] \in Nat /\ flushed'[k] \in Nat /\ Len(out'[k]) \in Nat
            /\ pos'[k] \in Nat /\ cap'[k] \in Nat /\ pos'[k] <= cap'[k]
            /\ Len(out'[k]) + (cap'[k] - pos'[k]) = src'[k] /\ flushed'[k] <= Len(out'[k])
        BY DEF IInv, TypeOK, ByteFidelity, EndedInv
      <4> QED
        BY <4>1
    <3> QED
      BY <3>1, <3>2
  <2>2. ASSUME NEW c \in Conns, Start(c)
        PROVE  UNCHANGED Pipe!vars
    <3>1. open' = open
      BY <2>2 DEF Start, IInv, TypeOK
    <3>2. sent' = sent /\ received' = received /\ complete' = complete
      BY <2>2 DEF Start, copyVars
    <3> QED
      BY <3>1, <3>2 DEF Pipe!vars
  <2>3. ASSUME NEW k \in Copies, NEW n \in 1 .. Capacity, Read(k, n)
        PROVE  Pipe!Next
    <3>1. k[1] \in open /\ received' = received /\ open' = open /\ complete' = complete
      BY <2>3 DEF Read, Polled, Copies
    <3>2. sent' = [sent EXCEPT ![k] = sent'[k]]
      BY <2>3 DEF Read, IInv, TypeOK
    <3>3. sent[k] = Bytes(src[k]) /\ sent'[k] = Bytes(src'[k])
      OBVIOUS
    <3>4. src[k] <= src'[k]
      BY <2>1, <2>3, RelayAssumption DEF Read, IInv, TypeOK
    <3>5. Pipe!PrefixOf(sent[k], sent'[k])
      BY <2>1, <3>3, <3>4, BytesPrefixOf
    <3>6. Pipe!Send(k)
      BY <3>1, <3>2, <3>5 DEF Pipe!Send
    <3> QED
      BY <3>6 DEF Pipe!Next, Pipe!Pipes, Copies
  <2>4. ASSUME NEW k \in Copies, ReadEof(k)
        PROVE  UNCHANGED Pipe!vars
    BY <2>4 DEF ReadEof, Pipe!vars
  <2>5. ASSUME NEW k \in Copies, NEW i \in 1 .. Capacity, Write(k, i)
        PROVE  Pipe!Next
    <3>1. k[1] \in open /\ sent' = sent /\ open' = open /\ complete' = complete
      BY <2>5 DEF Write, Polled, Copies
    <3>2. \A h \in Copies : h # k => flushed'[h] = flushed[h]
      BY <2>5 DEF Write, IInv, TypeOK
    <3>3. received' = [received EXCEPT ![k] = received'[k]]
      <4> HIDE DEF received
      <4>1. received'[k] = Bytes(flushed'[k])
        BY <2>0
      <4>2. \A h \in Copies : h # k => received'[h] = received[h]
        BY <2>0, <3>2
      <4> QED
        BY <2>0, <4>1, <4>2
    <3>4. /\ received[k] = Bytes(flushed[k]) /\ received'[k] = Bytes(flushed'[k])
          /\ sent[k] = Bytes(src[k])
      BY <2>0
    <3>5. flushed[k] <= flushed'[k] /\ flushed'[k] <= src[k]
      <4>1. src' = src
        BY <2>5 DEF Write
      <4>2. flushed \in [Copies -> Nat] /\ flushed[k] <= Len(out[k]) /\ Len(out[k]) \in Nat
        BY DEF IInv, TypeOK, EndedInv
      <4>3. CASE flushed' = [flushed EXCEPT ![k] = Len(out[k]) + i]
        BY <2>1, <4>1, <4>2, <4>3, RelayAssumption
      <4>4. CASE UNCHANGED flushed
        BY <2>1, <4>1, <4>4
      <4> QED
        BY <2>5, <4>3, <4>4 DEF Write
    <3>6. Pipe!PrefixOf(received[k], received'[k]) /\ Pipe!PrefixOf(received'[k], sent[k])
      BY <2>1, <3>4, <3>5, BytesPrefixOf
    <3>7. Pipe!Deliver(k)
      BY <3>1, <3>3, <3>6 DEF Pipe!Deliver
    <3> QED
      BY <3>7 DEF Pipe!Next, Pipe!Pipes, Copies
  <2>6. ASSUME NEW k \in Copies, Flush(k) \/ PollErr(k)
        PROVE  Pipe!Next
    <3> DEFINE c == k[1]
    <3>1. c \in Conns /\ c \in open /\ sent' = sent
      BY <2>6 DEF Flush, PollErr, Polled, Copies
    <3>2. open' = open \ {c}
      BY <2>6 DEF Flush, PollErr, Return, IInv, TypeOK, Copies
    <3>3. \A h \in Copies : flushed[h] <= flushed'[h] /\ (h # k => flushed'[h] = flushed[h])
      <4>1. flushed \in [Copies -> Nat] /\ flushed[k] <= Len(out[k])
        BY DEF IInv, TypeOK, EndedInv
      <4>2. CASE Flush(k)
        <5>1. flushed' = [flushed EXCEPT ![k] = Len(out[k])]
          BY <4>2 DEF Flush
        <5> QED
          BY <4>1, <5>1
      <4>3. CASE PollErr(k)
        BY <4>1, <4>3 DEF PollErr
      <4> QED
        BY <2>6, <4>2, <4>3
    <3>4. src' = src
      BY <2>6 DEF Flush, PollErr
    <3>5. ASSUME NEW h \in Pipe!Pipes
          PROVE  /\ h[1] # c => received'[h] = received[h]
                 /\ Pipe!PrefixOf(received[h], received'[h])
                 /\ Pipe!PrefixOf(received'[h], sent[h])
      <4>1. h \in Copies
        BY DEF Pipe!Pipes, Copies
      <4>2. /\ received[h] = Bytes(flushed[h]) /\ received'[h] = Bytes(flushed'[h])
            /\ sent[h] = Bytes(src[h])
        BY <2>0, <4>1
      <4>3. h[1] # c => h # k
        OBVIOUS
      <4>4. flushed'[h] <= src[h]
        BY <2>1, <3>4, <4>1
      <4> QED
        BY <2>1, <3>3, <4>1, <4>2, <4>3, <4>4, BytesPrefixOf
    <3>6. complete \subseteq complete'
      <4>1. \A h \in Copies : result[h] = "ok" => result'[h] = "ok"
        <5>1. result[k] # "ok"
          BY <2>6 DEF Flush, PollErr, Polled, IInv, EndedInv
        <5> QED
          BY <2>6, <5>1 DEF Flush, PollErr, Return, IInv, TypeOK
      <4> QED
        BY <4>1
    <3>7. ASSUME NEW h \in complete' \ complete
          PROVE  h \in Pipe!Pipes /\ h[1] = c /\ received'[h] = sent[h]
      <4>1. h \in Copies /\ result'[h] = "ok" /\ result[h] # "ok"
        OBVIOUS
      <4>2. h = k
        BY <2>6, <4>1 DEF Flush, PollErr, Return, IInv, TypeOK
      <4>3. flushed'[h] = src[h]
        BY <3>4, <4>1 DEF IInv, CleanEndComplete
      <4> QED
        BY <2>0, <4>1, <4>2, <4>3 DEF Pipe!Pipes, Copies
    <3>8. Pipe!Close(c)
      BY <3>1, <3>2, <3>5, <3>6, <3>7 DEF Pipe!Close
    <3> QED
      BY <3>1, <3>8 DEF Pipe!Next
  <2>7. ASSUME NEW ctr \in Queried, GetStatsReset(ctr)
        PROVE  UNCHANGED Pipe!vars
    BY <2>7 DEF GetStatsReset, copyVars, Pipe!vars
  <2>8. CASE UNCHANGED vars
    BY <2>8 DEF vars, copyVars, Pipe!vars
  <2> QED
    BY <2>2, <2>3, <2>4, <2>5, <2>6, <2>7, <2>8 DEF Next, CopyStep
<1> QED
  BY <1>1, <1>2, InitIInv, NextIInv, PTL DEF Spec, ImplementsPipe, Pipe!Spec

-----------------------------------------------------------------------------
(* The statistics.  One more or more bytes of one connection. *)
LEMMA MovedStep ==
  ASSUME NEW C, NEW f, NEW g, NEW e, NEW n \in Nat, f[e] \in Nat, g[e] = f[e] + n,
         \A c \in C : c # e => g[c] = f[c], IsFiniteSet(Moved(C, f))
  PROVE  /\ IsFiniteSet(Moved(C, g))
         /\ Cardinality(Moved(C, g)) =
              Cardinality(Moved(C, f)) + IF e \in C \cap Counted THEN n ELSE 0
<1> DEFINE m == f[e]
           F == Moved(C, f)
           G == Moved(C, g)
<1>0. Cardinality(F) \in Nat
  BY FS_CardinalityType
<1>1. CASE e \notin C \cap Counted
  <2>1. G = F
    BY <1>1 DEF Moved
  <2> QED
    BY <1>0, <1>1, <2>1
<1>2. CASE e \in C \cap Counted
  <2> DEFINE I == m + 1 .. m + n
             D == {e} \X I
  <2>1. G = F \cup D
    <3>1. ASSUME NEW x \in G PROVE x \in F \cup D
      <4>1. PICK c \in C \cap Counted : x \in {c} \X (1 .. g[c])
        BY <3>1 DEF Moved
      <4>2. CASE c # e
        BY <4>1, <4>2 DEF Moved
      <4>3. CASE c = e
        <5>1. PICK j \in 1 .. m + n : x = <<e, j>>
          BY <4>1, <4>3
        <5>2. j \in 1 .. m \/ j \in I
          OBVIOUS
        <5>3. CASE j \in 1 .. m
          BY <1>2, <5>1, <5>3 DEF Moved
        <5> QED
          BY <5>1, <5>2, <5>3
      <4> QED
        BY <4>2, <4>3
    <3>2. ASSUME NEW x \in F PROVE x \in G
      <4>1. PICK c \in C \cap Counted : x \in {c} \X (1 .. f[c])
        BY <3>2 DEF Moved
      <4>2. CASE c # e
        BY <4>1, <4>2 DEF Moved
      <4>3. CASE c = e
        <5>1. PICK j \in 1 .. m : x = <<e, j>>
          BY <4>1, <4>3
        <5>2. j \in 1 .. g[e]
          BY <5>1
        <5> QED
          BY <1>2, <5>1, <5>2 DEF Moved
      <4> QED
        BY <4>2, <4>3
    <3>3. ASSUME NEW x \in D PROVE x \in G
      <4>1. PICK j \in I : x = <<e, j>>
        BY <3>3
      <4>2. j \in 1 .. g[e]
        BY <4>1
      <4> QED
        BY <1>2, <4>1, <4>2 DEF Moved
    <3> HIDE DEF F, G, D
    <3> QED
      BY <3>1, <3>2, <3>3
  <2>2. F \cap D = {}
    <3> SUFFICES ASSUME NEW x \in F, x \in D PROVE FALSE
      OBVIOUS
    <3>1. PICK c \in C \cap Counted : x \in {c} \X (1 .. f[c])
      BY DEF Moved
    <3>2. PICK j \in I : x = <<e, j>>
      OBVIOUS
    <3>3. c = e /\ j \in 1 .. m
      BY <3>1, <3>2
    <3> QED
      BY <3>2, <3>3
  <2>3. IsFiniteSet(I) /\ Cardinality(I) = n
    <3>1. m + 1 \in Int /\ m + n \in Int
      OBVIOUS
    <3> HIDE DEF m
    <3>2. /\ IsFiniteSet(I)
          /\ Cardinality(I) = IF m + 1 > m + n THEN 0 ELSE (m + n) - (m + 1) + 1
      BY <3>1, FS_Interval
    <3>3. m \in Nat
      BY DEF m
    <3>4. (IF m + 1 > m + n THEN 0 ELSE (m + n) - (m + 1) + 1) = n
      BY <3>3
    <3> QED
      BY <3>2, <3>4
  <2> HIDE DEF F, G, I, m
  <2>4. IsFiniteSet(D) /\ Cardinality(D) = n
    <3>1. IsFiniteSet({e}) /\ Cardinality({e}) = 1
      BY FS_Singleton
    <3>2. IsFiniteSet(D) /\ Cardinality(D) = Cardinality({e}) * Cardinality(I)
      BY <2>3, <3>1, FS_Product
    <3> QED
      BY <2>3, <3>1, <3>2
  <2>5. IsFiniteSet(F)
    BY DEF F
  <2> HIDE DEF D
  <2>6. /\ IsFiniteSet(F \cup D)
        /\ Cardinality(F \cup D) = Cardinality(F) + Cardinality(D) - Cardinality(F \cap D)
    BY <2>4, <2>5, FS_Union
  <2>7. Cardinality(F \cap D) = 0
    BY <2>2, FS_EmptySet
  <2>8. IsFiniteSet(G) /\ Cardinality(G) = Cardinality(F) + n
    BY <1>0, <2>1, <2>4, <2>6, <2>7
  <2> QED
    BY <1>2, <2>8 DEF F, G
<1> QED
  BY <1>1, <1>2

(* Of the bytes moved in direction d, those of a copy. *)
LEMMA CountStep ==
  ASSUME NEW k \in Copies, NEW n \in Nat, NEW d \in Dirs, NEW C \in SUBSET Conns,
         NEW f \in [Conns -> Nat], NEW g,
         \A c \in Conns : g[c] = f[c] + (IF <<c, d>> = k THEN n ELSE 0),
         IsFiniteSet(Moved(C, f))
  PROVE  /\ IsFiniteSet(Moved(C, g))
         /\ Cardinality(Moved(C, g)) =
              Cardinality(Moved(C, f)) + IF k[2] = d /\ k[1] \in C \cap Counted THEN n ELSE 0
<1>1. k[1] \in Conns /\ k = <<k[1], k[2]>>
  BY DEF Copies
<1>2. \A c \in Conns : f[c] \in Nat
  OBVIOUS
<1>3. \A c \in C : c # k[1] => g[c] = f[c]
  <2> SUFFICES ASSUME NEW c \in C, c # k[1] PROVE g[c] = f[c]
    OBVIOUS
  <2>1. <<c, d>> # k /\ c \in Conns
    BY <1>1
  <2> QED
    BY <1>2, <2>1
<1>4. CASE k[2] = d
  <2>1. g[k[1]] = f[k[1]] + n
    BY <1>1, <1>4
  <2>2. /\ IsFiniteSet(Moved(C, g))
        /\ Cardinality(Moved(C, g)) = Cardinality(Moved(C, f)) + IF k[1] \in C \cap Counted THEN n ELSE 0
    BY <1>1, <1>2, <1>3, <2>1, MovedStep
  <2> QED
    BY <1>4, <2>2
<1>5. CASE k[2] # d
  <2>1. g[k[1]] = f[k[1]] + 0
    BY <1>1, <1>5
  <2>2. /\ IsFiniteSet(Moved(C, g))
        /\ Cardinality(Moved(C, g)) = Cardinality(Moved(C, f)) + IF k[1] \in C \cap Counted THEN 0 ELSE 0
    BY <1>1, <1>2, <1>3, <2>1, MovedStep
  <2> QED
    BY <1>5, <2>2
<1> QED
  BY <1>4, <1>5

StatsInv == StatsConserved /\ MovedFinite


(* A step of copy k that reads n bytes and writes i, and adds them to the  *)
(* counters.                                                               *)
LEMMA StatsStep ==
  ASSUME TypeOK, StatsInv, NEW k \in Copies, NEW n \in Nat, NEW i \in Nat,
         \A c \in Conns, d \in Dirs :
           /\ src'[<<c, d>>] = src[<<c, d>>] + (IF <<c, d>> = k THEN n ELSE 0)
           /\ Len(out'[<<c, d>>]) = Len(out[<<c, d>>]) + (IF <<c, d>> = k THEN i ELSE 0),
         \A ctr \in Counters :
           counter'[ctr] + collected'[ctr] =
             (counter[ctr] + collected[ctr])
               + ((IF k[1] \in Counted /\ ctr = AmtIn(k) THEN n ELSE 0)
                  + (IF k[1] \in Counted /\ ctr = AmtOut(k) THEN i ELSE 0))
  PROVE  StatsInv'
<1>1. k[1] \in Conns /\ k[2] \in Dirs /\ (k[2] = "up" \/ k[2] = "down") /\ ~(k[2] = "up" /\ k[2] = "down")
  BY DEF Copies, Dirs
<1>2. ASSUME NEW d \in Dirs, NEW C \in SUBSET Conns, IsFiniteSet(Moved(C, BytesRead(d)))
      PROVE  /\ IsFiniteSet(Moved(C, BytesRead(d)'))
             /\ Cardinality(Moved(C, BytesRead(d)')) = Cardinality(Moved(C, BytesRead(d)))
                  + (IF k[2] = d /\ k[1] \in C \cap Counted THEN n ELSE 0)
  <2>1. PICK f, g : f = BytesRead(d) /\ g = BytesRead(d)'
    OBVIOUS
  <2>2. f \in [Conns -> Nat]
    <3>1. \A c \in Conns : <<c, d>> \in Copies
      BY DEF Copies
    <3> QED
      BY <2>1, <3>1 DEF TypeOK, BytesRead
  <2>3. \A c \in Conns : g[c] = f[c] + (IF <<c, d>> = k THEN n ELSE 0)
    BY <2>1 DEF BytesRead
  <2>4. IsFiniteSet(Moved(C, f))
    BY <1>2, <2>1
  <2>5. /\ IsFiniteSet(Moved(C, g))
        /\ Cardinality(Moved(C, g)) =
             Cardinality(Moved(C, f)) + IF k[2] = d /\ k[1] \in C \cap Counted THEN n ELSE 0
    <3>1. ASSUME NEW x \in Nat, NEW y, \A c \in Conns : y[c] = f[c] + (IF <<c, d>> = k THEN x ELSE 0)
          PROVE  /\ IsFiniteSet(Moved(C, y))
                 /\ Cardinality(Moved(C, y)) =
                      Cardinality(Moved(C, f)) + IF k[2] = d /\ k[1] \in C \cap Counted THEN x ELSE 0
      BY <2>2, <2>4, <3>1, CountStep
    <3> QED
      BY <2>3, <3>1
  <2> QED
    BY <2>1, <2>5
<1>3. ASSUME NEW d \in Dirs, NEW C \in SUBSET Conns, IsFiniteSet(Moved(C, BytesWritten(d)))
      PROVE  /\ IsFiniteSet(Moved(C, BytesWritten(d)'))
             /\ Cardinality(Moved(C, BytesWritten(d)')) = Cardinality(Moved(C, BytesWritten(d)))
                  + (IF k[2] = d /\ k[1] \in C \cap Counted THEN i ELSE 0)
  <2>1. PICK f, g : f = BytesWritten(d) /\ g = BytesWritten(d)'
    OBVIOUS
  <2>2. f \in [Conns -> Nat]
    <3>1. \A c \in Conns : <<c, d>> \in Copies
      BY DEF Copies
    <3>2. \A c \in Conns : Len(out[<<c, d>>]) \in Nat
      BY <3>1, LenProperties DEF TypeOK
    <3> QED
      BY <2>1, <3>2 DEF BytesWritten
  <2>3. \A c \in Conns : g[c] = f[c] + (IF <<c, d>> = k THEN i ELSE 0)
    BY <2>1 DEF BytesWritten
  <2>4. IsFiniteSet(Moved(C, f))
    BY <1>3, <2>1
  <2>5. /\ IsFiniteSet(Moved(C, g))
        /\ Cardinality(Moved(C, g)) =
             Cardinality(Moved(C, f)) + IF k[2] = d /\ k[1] \in C \cap Counted THEN i ELSE 0
    <3>1. ASSUME NEW x \in Nat, NEW y, \A c \in Conns : y[c] = f[c] + (IF <<c, d>> = k THEN x ELSE 0)
          PROVE  /\ IsFiniteSet(Moved(C, y))
                 /\ Cardinality(Moved(C, y)) =
                      Cardinality(Moved(C, f)) + IF k[2] = d /\ k[1] \in C \cap Counted THEN x ELSE 0
      BY <2>2, <2>4, <3>1, CountStep
    <3> QED
      BY <2>3, <3>1
  <2> QED
    BY <2>1, <2>5
<1>4. ASSUME NEW c \in Conns
      PROVE  /\ SameIn(c) \in SUBSET Conns /\ SameOut(c) \in SUBSET Conns
             /\ \A C \in {SameIn(c), SameOut(c)}, d \in Dirs :
                  IsFiniteSet(Moved(C, BytesRead(d))) /\ IsFiniteSet(Moved(C, BytesWritten(d)))
  BY DEF StatsInv, MovedFinite, SameIn, SameOut
<1>5. MovedFinite'
  <2> SUFFICES ASSUME NEW c \in Conns, NEW C \in {SameIn(c), SameOut(c)}, NEW d \in Dirs
               PROVE  IsFiniteSet(Moved(C, BytesRead(d)')) /\ IsFiniteSet(Moved(C, BytesWritten(d)'))
    BY DEF MovedFinite
  <2>1. C \in SUBSET Conns /\ IsFiniteSet(Moved(C, BytesRead(d))) /\ IsFiniteSet(Moved(C, BytesWritten(d)))
    BY <1>4
  <2> QED
    BY <1>2, <1>3, <2>1
<1>6. ASSUME NEW c \in Conns
      PROVE  /\ Total("inbound", InTag[c], "up")'     = Cardinality(Moved(SameIn(c), BytesRead("up")'))
             /\ Total("inbound", InTag[c], "down")'   = Cardinality(Moved(SameIn(c), BytesWritten("down")'))
             /\ Total("outbound", OutTag[c], "up")'   = Cardinality(Moved(SameOut(c), BytesWritten("up")'))
             /\ Total("outbound", OutTag[c], "down")' = Cardinality(Moved(SameOut(c), BytesRead("down")'))
  <2>1. "up" \in Dirs /\ "down" \in Dirs
    BY DEF Dirs
  <2>2. /\ Counter("inbound", InTag[c], "up") \in Counters
        /\ Counter("inbound", InTag[c], "down") \in Counters
        /\ Counter("outbound", OutTag[c], "up") \in Counters
        /\ Counter("outbound", OutTag[c], "down") \in Counters
    BY <2>1 DEF Counters
  <2>3. ASSUME NEW side, NEW tag, NEW d, Counter(side, tag, d) \in Counters
        PROVE  Total(side, tag, d)' = Total(side, tag, d)
                 + ((IF k[1] \in Counted /\ Counter(side, tag, d) = AmtIn(k) THEN n ELSE 0)
                    + (IF k[1] \in Counted /\ Counter(side, tag, d) = AmtOut(k) THEN i ELSE 0))
    BY <2>3 DEF Total
  <2>4. ASSUME NEW ctr \in Counters PROVE counter[ctr] + collected[ctr] \in Nat
    BY DEF TypeOK
  <2>5. /\ Counter("inbound", InTag[c], "up") = AmtIn(k) <=> k[2] = "up" /\ k[1] \in SameIn(c)
        /\ Counter("inbound", InTag[c], "up") # AmtOut(k)
    BY <1>1 DEF Counter, AmtIn, AmtOut, SameIn
  <2>6. /\ Counter("inbound", InTag[c], "down") = AmtOut(k) <=> k[2] = "down" /\ k[1] \in SameIn(c)
        /\ Counter("inbound", InTag[c], "down") # AmtIn(k)
    BY <1>1 DEF Counter, AmtIn, AmtOut, SameIn
  <2>7. /\ Counter("outbound", OutTag[c], "up") = AmtOut(k) <=> k[2] = "up" /\ k[1] \in SameOut(c)
        /\ Counter("outbound", OutTag[c], "up") # AmtIn(k)
    BY <1>1 DEF Counter, AmtIn, AmtOut, SameOut
  <2>8. /\ Counter("outbound", OutTag[c], "down") = AmtIn(k) <=> k[2] = "down" /\ k[1] \in SameOut(c)
        /\ Counter("outbound", OutTag[c], "down") # AmtOut(k)
    BY <1>1 DEF Counter, AmtIn, AmtOut, SameOut
  <2>9. /\ Total("inbound", InTag[c], "up")     = Cardinality(Moved(SameIn(c), BytesRead("up")))
        /\ Total("inbound", InTag[c], "down")   = Cardinality(Moved(SameIn(c), BytesWritten("down")))
        /\ Total("outbound", OutTag[c], "up")   = Cardinality(Moved(SameOut(c), BytesWritten("up")))
        /\ Total("outbound", OutTag[c], "down") = Cardinality(Moved(SameOut(c), BytesRead("down")))
    BY DEF StatsInv, StatsConserved
  <2>10. Total("inbound", InTag[c], "up")' = Cardinality(Moved(SameIn(c), BytesRead("up")'))
    <3>1. Total("inbound", InTag[c], "up")' = Total("inbound", InTag[c], "up")
            + ((IF k[2] = "up" /\ k[1] \in SameIn(c) \cap Counted THEN n ELSE 0) + 0)
      BY <2>2, <2>3, <2>5
    <3>2. Cardinality(Moved(SameIn(c), BytesRead("up")')) = Cardinality(Moved(SameIn(c), BytesRead("up")))
            + (IF k[2] = "up" /\ k[1] \in SameIn(c) \cap Counted THEN n ELSE 0)
      BY <1>2, <1>4, <2>1
    <3> QED
      BY <2>9, <3>1, <3>2
  <2>11. Total("inbound", InTag[c], "down")' = Cardinality(Moved(SameIn(c), BytesWritten("down")'))
    <3>1. Total("inbound", InTag[c], "down")' = Total("inbound", InTag[c], "down")
            + (0 + (IF k[2] = "down" /\ k[1] \in SameIn(c) \cap Counted THEN i ELSE 0))
      BY <2>2, <2>3, <2>6
    <3>2. Cardinality(Moved(SameIn(c), BytesWritten("down")')) = Cardinality(Moved(SameIn(c), BytesWritten("down")))
            + (IF k[2] = "down" /\ k[1] \in SameIn(c) \cap Counted THEN i ELSE 0)
      BY <1>3, <1>4, <2>1
    <3> QED
      BY <2>9, <3>1, <3>2
  <2>12. Total("outbound", OutTag[c], "up")' = Cardinality(Moved(SameOut(c), BytesWritten("up")'))
    <3>1. Total("outbound", OutTag[c], "up")' = Total("outbound", OutTag[c], "up")
            + (0 + (IF k[2] = "up" /\ k[1] \in SameOut(c) \cap Counted THEN i ELSE 0))
      BY <2>2, <2>3, <2>7
    <3>2. Cardinality(Moved(SameOut(c), BytesWritten("up")')) = Cardinality(Moved(SameOut(c), BytesWritten("up")))
            + (IF k[2] = "up" /\ k[1] \in SameOut(c) \cap Counted THEN i ELSE 0)
      BY <1>3, <1>4, <2>1
    <3> QED
      BY <2>9, <3>1, <3>2
  <2>13. Total("outbound", OutTag[c], "down")' = Cardinality(Moved(SameOut(c), BytesRead("down")'))
    <3>1. Total("outbound", OutTag[c], "down")' = Total("outbound", OutTag[c], "down")
            + ((IF k[2] = "down" /\ k[1] \in SameOut(c) \cap Counted THEN n ELSE 0) + 0)
      BY <2>2, <2>3, <2>8
    <3>2. Cardinality(Moved(SameOut(c), BytesRead("down")')) = Cardinality(Moved(SameOut(c), BytesRead("down")))
            + (IF k[2] = "down" /\ k[1] \in SameOut(c) \cap Counted THEN n ELSE 0)
      BY <1>2, <1>4, <2>1
    <3> QED
      BY <2>9, <3>1, <3>2
  <2> QED
    BY <2>10, <2>11, <2>12, <2>13
<1>7. StatsConserved'
  BY <1>6 DEF StatsConserved
<1> QED
  BY <1>5, <1>7 DEF StatsInv

LEMMA InitStats == Init => StatsInv
<1> SUFFICES ASSUME Init PROVE StatsInv
  OBVIOUS
<1>1. \A c \in Conns, d \in Dirs : BytesRead(d)[c] = 0 /\ BytesWritten(d)[c] = 0
  <2>1. \A c \in Conns, d \in Dirs : <<c, d>> \in Copies
    BY DEF Copies
  <2>2. Len(<<>>) = 0
    BY EmptySeq
  <2> QED
    BY <2>1, <2>2 DEF Init, BytesRead, BytesWritten
<1>2. ASSUME NEW C \in SUBSET Conns, NEW d \in Dirs
      PROVE  Moved(C, BytesRead(d)) = {} /\ Moved(C, BytesWritten(d)) = {}
  <2>1. 1 .. 0 = {}
    OBVIOUS
  <2> QED
    BY <1>1, <2>1 DEF Moved
<1>3. \A c \in Conns : SameIn(c) \in SUBSET Conns /\ SameOut(c) \in SUBSET Conns
  BY DEF SameIn, SameOut
<1>4. MovedFinite
  BY <1>2, <1>3, FS_EmptySet DEF MovedFinite
<1>5. \A ctr \in Counters : counter[ctr] + collected[ctr] = 0
  BY DEF Init
<1>6. StatsConserved
  <2> SUFFICES ASSUME NEW c \in Conns
               PROVE  /\ Total("inbound", InTag[c], "up")     = Cardinality(Moved(SameIn(c), BytesRead("up")))
                      /\ Total("inbound", InTag[c], "down")   = Cardinality(Moved(SameIn(c), BytesWritten("down")))
                      /\ Total("outbound", OutTag[c], "up")   = Cardinality(Moved(SameOut(c), BytesWritten("up")))
                      /\ Total("outbound", OutTag[c], "down") = Cardinality(Moved(SameOut(c), BytesRead("down")))
    BY DEF StatsConserved
  <2>1. "up" \in Dirs /\ "down" \in Dirs
    BY DEF Dirs
  <2>2. \A d \in Dirs : /\ Counter("inbound", InTag[c], d) \in Counters
                        /\ Counter("outbound", OutTag[c], d) \in Counters
    BY DEF Counters
  <2>3. \A d \in Dirs : Total("inbound", InTag[c], d) = 0 /\ Total("outbound", OutTag[c], d) = 0
    BY <1>5, <2>2 DEF Total
  <2> QED
    BY <1>2, <1>3, <2>1, <2>3, FS_EmptySet
<1> QED
  BY <1>4, <1>6 DEF StatsInv

LEMMA NextStats == IInv /\ StatsInv /\ [Next]_vars => StatsInv'
<1> SUFFICES ASSUME IInv, StatsInv, [Next]_vars PROVE StatsInv'
  OBVIOUS
<1>0. TypeOK
  BY DEF IInv
<1>c. counter \in [Counters -> Nat] /\ collected \in [Counters -> Nat]
  BY <1>0 DEF TypeOK
<1>1. ASSUME UNCHANGED <<src, out>>,
             \A ctr \in Counters : counter'[ctr] + collected'[ctr] = counter[ctr] + collected[ctr]
      PROVE  StatsInv'
  <2>1. \A d : BytesRead(d)' = BytesRead(d) /\ BytesWritten(d)' = BytesWritten(d)
    BY <1>1 DEF BytesRead, BytesWritten
  <2>2. MovedFinite'
    BY <2>1 DEF StatsInv, MovedFinite
  <2>3. ASSUME NEW c \in Conns, NEW d \in Dirs
        PROVE  /\ Total("inbound", InTag[c], d)' = Total("inbound", InTag[c], d)
               /\ Total("outbound", OutTag[c], d)' = Total("outbound", OutTag[c], d)
    <3>1. Counter("inbound", InTag[c], d) \in Counters /\ Counter("outbound", OutTag[c], d) \in Counters
      BY DEF Counters
    <3> QED
      BY <1>1, <3>1 DEF Total
  <2>4. "up" \in Dirs /\ "down" \in Dirs
    BY DEF Dirs
  <2>5. StatsConserved'
    BY <2>1, <2>3, <2>4 DEF StatsInv, StatsConserved
  <2> QED
    BY <2>2, <2>5 DEF StatsInv
<1>2. ASSUME NEW k \in Copies, NEW n \in 1 .. Capacity, Read(k, n) PROVE StatsInv'
  <2>1. n \in Nat /\ 0 \in Nat /\ AmtIn(k) \in Counters
    BY RelayAssumption, AmtInCounters
  <2>2. src' = [src EXCEPT ![k] = @ + n] /\ out' = out /\ FetchAdd(k, AmtIn(k), n)
    BY <1>2 DEF Read
  <2>3. \A c \in Conns, d \in Dirs :
          /\ src'[<<c, d>>] = src[<<c, d>>] + (IF <<c, d>> = k THEN n ELSE 0)
          /\ Len(out'[<<c, d>>]) = Len(out[<<c, d>>]) + (IF <<c, d>> = k THEN 0 ELSE 0)
    <3>1. \A j \in Copies : src[j] \in Nat /\ Len(out[j]) \in Nat
      BY <1>0, LenProperties DEF TypeOK
    <3>2. \A c \in Conns, d \in Dirs : <<c, d>> \in Copies
      BY DEF Copies
    <3>3. \A j \in Copies : src'[j] = src[j] + (IF j = k THEN n ELSE 0)
      BY <1>0, <2>2, <3>1 DEF TypeOK
    <3>4. \A j \in Copies : Len(out'[j]) = Len(out[j]) + 0
      BY <2>2, <3>1
    <3> QED
      BY <3>2, <3>3, <3>4
  <2>4. ASSUME NEW ctr \in Counters
        PROVE  counter'[ctr] + collected'[ctr] =
                 (counter[ctr] + collected[ctr])
                   + ((IF k[1] \in Counted /\ ctr = AmtIn(k) THEN n ELSE 0)
                      + (IF k[1] \in Counted /\ ctr = AmtOut(k) THEN 0 ELSE 0))
    <3>1. counter[ctr] \in Nat /\ collected[ctr] \in Nat /\ collected' = collected
      BY <1>c, <2>2 DEF FetchAdd
    <3>2. counter'[ctr] = counter[ctr] + (IF k[1] \in Counted /\ ctr = AmtIn(k) THEN n ELSE 0)
      BY <1>c, <2>1, <2>2, <3>1 DEF FetchAdd
    <3> QED
      BY <2>1, <3>1, <3>2
  <2> QED
    BY <1>0, <2>1, <2>3, <2>4, StatsStep
<1>3. ASSUME NEW k \in Copies, NEW i \in 1 .. Capacity, Write(k, i) PROVE StatsInv'
  <2>1. i \in Nat /\ 0 \in Nat /\ AmtOut(k) \in Counters
    BY RelayAssumption, AmtInCounters
  <2>2. /\ out' = [out EXCEPT ![k] = @ \o SubSeq(buf[k], pos[k] + 1, pos[k] + i)]
        /\ pos[k] + i <= cap[k] /\ src' = src /\ FetchAdd(k, AmtOut(k), i)
    BY <1>3 DEF Write
  <2>3. Len(out[k] \o SubSeq(buf[k], pos[k] + 1, pos[k] + i)) = Len(out[k]) + i
    <3>1. /\ pos[k] \in Nat /\ cap[k] \in 0 .. Capacity /\ buf[k] \in [1 .. Capacity -> Nat]
          /\ out[k] \in Seq(Nat) /\ Capacity \in Nat
      BY <1>0, RelayAssumption DEF TypeOK
    <3>2. PICK b, p : b = buf[k] /\ p = pos[k]
      OBVIOUS
    <3>3. p \in Nat /\ p + 1 \in Int /\ p + i \in Int /\ p + i <= Capacity
      BY <2>1, <2>2, <3>1, <3>2
    <3>4. \A j \in p + 1 .. p + i : b[j] \in Nat
      <4>1. \A j \in p + 1 .. p + i : j \in 1 .. Capacity
        BY <2>1, <3>1, <3>3
      <4> QED
        BY <3>1, <3>2, <4>1
    <3>5. /\ SubSeq(b, p + 1, p + i) \in Seq(Nat)
          /\ Len(SubSeq(b, p + 1, p + i)) = (IF p + 1 <= p + i THEN (p + i) - (p + 1) + 1 ELSE 0)
      BY <3>3, <3>4, SubSeqProperties
    <3>6. Len(SubSeq(b, p + 1, p + i)) = i
      BY <2>1, <3>3, <3>5
    <3>7. PICK o, t : o = out[k] /\ t = SubSeq(b, p + 1, p + i)
      OBVIOUS
    <3>8. o \in Seq(Nat) /\ t \in Seq(Nat) /\ Len(t) = i
      BY <3>1, <3>5, <3>6, <3>7
    <3>9. Len(o \o t) = Len(o) + Len(t)
      BY <3>8, ConcatProperties
    <3> QED
      BY <3>2, <3>7, <3>8, <3>9
  <2>4. \A c \in Conns, d \in Dirs :
          /\ src'[<<c, d>>] = src[<<c, d>>] + (IF <<c, d>> = k THEN 0 ELSE 0)
          /\ Len(out'[<<c, d>>]) = Len(out[<<c, d>>]) + (IF <<c, d>> = k THEN i ELSE 0)
    <3>1. \A j \in Copies : src[j] \in Nat /\ Len(out[j]) \in Nat
      BY <1>0, LenProperties DEF TypeOK
    <3>2. \A c \in Conns, d \in Dirs : <<c, d>> \in Copies
      BY DEF Copies
    <3>3. \A j \in Copies : out'[j] = IF j = k THEN out[k] \o SubSeq(buf[k], pos[k] + 1, pos[k] + i) ELSE out[j]
      BY <1>0, <2>2 DEF TypeOK
    <3>4. ASSUME NEW j \in Copies PROVE Len(out'[j]) = Len(out[j]) + (IF j = k THEN i ELSE 0)
      <4>1. CASE j = k
        BY <2>3, <3>3, <4>1
      <4>2. CASE j # k
        <5>1. out'[j] = out[j] /\ Len(out[j]) \in Nat
          BY <3>1, <3>3, <4>2
        <5> QED
          BY <4>2, <5>1
      <4> QED
        BY <4>1, <4>2
    <3>5. \A j \in Copies : src'[j] = src[j] + 0
      BY <2>2, <3>1
    <3> QED
      BY <3>2, <3>4, <3>5
  <2>5. ASSUME NEW ctr \in Counters
        PROVE  counter'[ctr] + collected'[ctr] =
                 (counter[ctr] + collected[ctr])
                   + ((IF k[1] \in Counted /\ ctr = AmtIn(k) THEN 0 ELSE 0)
                      + (IF k[1] \in Counted /\ ctr = AmtOut(k) THEN i ELSE 0))
    <3>1. counter[ctr] \in Nat /\ collected[ctr] \in Nat /\ collected' = collected
      BY <1>c, <2>2 DEF FetchAdd
    <3>2. counter'[ctr] = counter[ctr] + (IF k[1] \in Counted /\ ctr = AmtOut(k) THEN i ELSE 0)
      BY <1>c, <2>1, <2>2, <3>1 DEF FetchAdd
    <3> QED
      BY <2>1, <3>1, <3>2
  <2> QED
    BY <1>0, <2>1, <2>4, <2>5, StatsStep
<1>4. ASSUME NEW ctr \in Queried, GetStatsReset(ctr) PROVE StatsInv'
  <2>1. /\ ctr \in Counters /\ UNCHANGED <<src, out>>
        /\ collected' = [collected EXCEPT ![ctr] = @ + counter[ctr]]
        /\ counter' = [counter EXCEPT ![ctr] = 0]
    BY <1>4, RelayAssumption DEF GetStatsReset, copyVars
  <2>2. \A x \in Counters : counter'[x] + collected'[x] = counter[x] + collected[x]
    BY <1>c, <2>1
  <2> QED
    BY <1>1, <2>1, <2>2
<1>5. ASSUME NEW k, ReadEof(k) \/ Flush(k) \/ PollErr(k) PROVE StatsInv'
  BY <1>1, <1>5 DEF ReadEof, Flush, PollErr, statsVars
<1>6. ASSUME NEW c, Start(c) PROVE StatsInv'
  BY <1>1, <1>6 DEF Start, copyVars, statsVars
<1>7. CASE UNCHANGED vars
  BY <1>1, <1>7 DEF vars, copyVars, statsVars
<1> QED
  BY <1>2, <1>3, <1>4, <1>5, <1>6, <1>7 DEF Next, CopyStep

(* The traffic counters and what resetting get_stats calls have returned   *)
(* add up to the bytes that crossed each tag, for every number of          *)
(* connections that share it.                                              *)
THEOREM StatsAreConserved == Spec => []StatsConserved
<1>1. StatsInv => StatsConserved
  BY DEF StatsInv
<1>2. IInv /\ StatsInv /\ [Next]_vars => (IInv /\ StatsInv)'
  BY NextIInv, NextStats
<1> QED
  BY <1>1, <1>2, InitIInv, InitStats, PTL DEF Spec

=============================================================================
