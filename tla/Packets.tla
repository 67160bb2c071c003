------------------------------ MODULE Packets ------------------------------
(***************************************************************************)
(* The datagrams of a UDP session as a layer packs them: Trojan puts each, *)
(* behind a header with its address and length, into a byte stream         *)
(* (trojan_stream.rs); Shadowsocks puts address and data, sealed unless    *)
(* its cipher is None, into one datagram (udp_crypto_io.rs).  A writer and *)
(* a reader of the same format face each other, as client and server do in *)
(* either direction.                                                       *)
(*                                                                         *)
(* The byte stream is a sequence of units <<part, p, i>>: unit i of the    *)
(* header or of the data of packet p.  It may end or fail anywhere and may *)
(* fail once and take bytes again.  Datagrams may be lost, doubled and     *)
(* reordered: a datagram sent stays in net, and any in net is received at  *)
(* any time, or never.                                                     *)
(***************************************************************************)
EXTENDS Naturals, Sequences

CONSTANTS
  Kinds,      \* of "trojan" and "ss"
  Addrs,      \* the addresses of datagrams
  AddrType,   \* the type of each: "v4", "v6" or "domain"
  Sizes,      \* the sizes of datagrams
  Room,       \* of the buffer of recv_from: HW_BUFFER_SIZE
  MaxPackets, \* bound: datagrams given to send_to
  MaxGot      \* bound: datagrams received, doubles included

ASSUME PacketsAssumption ==
  /\ Kinds \subseteq {"trojan", "ss"}
  /\ AddrType \in [Addrs -> {"v4", "v6", "domain"}]
  /\ Sizes \subseteq Nat /\ \A n \in Sizes : n <= Room
  /\ Room \in Nat /\ MaxPackets \in Nat /\ MaxGot \in Nat

VARIABLES
  kind,
  sent,         \* history: the datagrams given to send_to
  writer,       \* what the send_to of the last of them is doing
  pos,          \* units written of the header or of the data
  torn,         \* history: a header was not written whole
  wire,         \* the byte stream, what is not read yet
  closed,       \* it has ended
  net,          \* the datagrams the network may deliver
  reader,       \* what recv_from waits for, or "ended" or "garbled"
  buffer, data_length, addr,
  got           \* what recv_from has returned

writerVars == <<sent, writer, pos, torn>>
readerVars == <<reader, buffer, data_length, addr, got>>
vars       == <<kind, writerVars, wire, closed, net, readerVars>>

Dummy == "0.0.0.0:0"

(* Address::serialized_len, in units: the type, a name's length, and the   *)
(* host with its port.                                                     *)
SerializedLen(a) == IF AddrType[a] = "v4" THEN 2 ELSE 3

(* A header: the address as write_to_buf puts it, the length, CRLF.        *)
Header(p)  == [i \in 1 .. SerializedLen(sent[p].addr) + 2 |-> <<"head", p, i>>]
Payload(p) == [i \in 1 .. sent[p].size |-> <<"data", p, i>>]
Current    == Len(sent)

Init ==
  /\ kind \in Kinds
  /\ sent = <<>> /\ writer = "idle" /\ pos = 0 /\ torn = FALSE
  /\ wire = <<>> /\ closed = FALSE /\ net = {}
  /\ reader = "open" /\ buffer = <<>> /\ data_length = 0 /\ addr = Dummy
  /\ got = <<>>

-----------------------------------------------------------------------------
(* The write task calls send_to.  Trojan answers Ok(0) to an empty         *)
(* datagram, which ends its coroutine: every later call is an error.       *)
SendTo(a, n) ==
  /\ writer \in {"idle", "ended"} /\ Current < MaxPackets
  /\ sent' = Append(sent, [addr |-> a, size |-> n])
  /\ writer' = IF writer = "ended" THEN "ended"
               ELSE IF kind # "trojan" THEN "data"
               ELSE IF n = 0 THEN "ended" ELSE "header"
  /\ UNCHANGED <<kind, pos, torn, wire, closed, net, readerVars>>

(* write_buffer_data writes the header, in as many parts as the stream     *)
(* takes it ...                                                            *)
WriteHeader(k) ==
  LET whole == pos + k = Len(Header(Current))
  IN
  /\ writer = "header" /\ ~closed /\ pos + k <= Len(Header(Current))
  /\ wire' = wire \o SubSeq(Header(Current), pos + 1, pos + k)
  /\ writer' = IF whole THEN "data" ELSE "header"
  /\ pos' = IF whole THEN 0 ELSE pos + k
  /\ UNCHANGED <<kind, sent, torn, closed, net, readerVars>>

(* ... and when that fails goes on to the data all the same.               *)
HeaderFails ==
  /\ writer = "header"
  /\ writer' = "data" /\ pos' = 0 /\ torn' = TRUE
  /\ UNCHANGED <<kind, sent, wire, closed, net, readerVars>>

(* write_data, and the return of the datagram's length. *)
WriteData(k) ==
  LET whole == pos + k = sent[Current].size
  IN
  /\ kind = "trojan" /\ writer = "data" /\ ~closed /\ pos + k <= sent[Current].size
  /\ wire' = wire \o SubSeq(Payload(Current), pos + 1, pos + k)
  /\ writer' = IF whole THEN "idle" ELSE "data"
  /\ pos' = IF whole THEN 0 ELSE pos + k
  /\ UNCHANGED <<kind, sent, torn, closed, net, readerVars>>

(* priv_poll_write of Shadowsocks: encrypt_payload and one poll_send_to.   *)
SendDatagram ==
  /\ kind # "trojan" /\ writer = "data"
  /\ net' = net \cup {Current}
  /\ writer' = "idle"
  /\ UNCHANGED <<kind, sent, pos, torn, wire, closed, readerVars>>

(* send_to returns an error, with which the write task ends. *)
SendFails ==
  /\ writer = "data"
  /\ writer' = "failed"
  /\ UNCHANGED <<kind, sent, pos, torn, wire, closed, net, readerVars>>

(* Other implementations of the format send empty datagrams. *)
PeerSendsEmpty(a) ==
  /\ kind = "trojan" /\ writer = "idle" /\ ~closed /\ Current < MaxPackets
  /\ sent' = Append(sent, [addr |-> a, size |-> 0])
  /\ wire' = wire \o [i \in 1 .. SerializedLen(a) + 2 |-> <<"head", Current + 1, i>>]
  /\ UNCHANGED <<kind, writer, pos, torn, closed, net, readerVars>>

StreamEnds ==
  /\ kind = "trojan" /\ ~closed
  /\ closed' = TRUE
  /\ UNCHANGED <<kind, writerVars, wire, net, readerVars>>

-----------------------------------------------------------------------------
(* Mutant: read_at_least wants more than was asked for. *)
Needed_OneMore == IF reader = "open" THEN 3 ELSE data_length + 1

(* read_at_least: how much the reader's coroutine waits for. *)
Needed  == IF reader = "open" THEN 2 ELSE data_length
Waiting == kind = "trojan" /\ reader \in {"open", "header", "payload"} /\ Len(buffer) < Needed
Enough  == kind = "trojan" /\ Len(buffer) >= Needed

Fill(k) ==
  /\ Waiting /\ k <= Len(wire)
  /\ buffer' = buffer \o SubSeq(wire, 1, k)
  /\ wire' = SubSeq(wire, k + 1, Len(wire))
  /\ UNCHANGED <<kind, writerVars, closed, net, reader, data_length, addr, got>>

(* The end of the stream, also within a packet, is Ok with nothing read:   *)
(* the session takes that for an empty datagram, from the address at hand. *)
(* Every later call is an error.                                           *)
ReadZero ==
  /\ Waiting /\ wire = <<>> /\ closed
  /\ reader' = "ended"
  /\ got' = Append(got, [addr |-> addr, data |-> <<>>])
  /\ addr' = Dummy
  /\ UNCHANGED <<kind, writerVars, wire, closed, net, buffer, data_length>>

(* The stream fails: so does recv_from, and the read task ends. *)
ReadErr ==
  /\ Waiting
  /\ reader' = "ended" /\ closed' = TRUE
  /\ UNCHANGED <<kind, writerVars, wire, net, buffer, data_length, addr, got>>

(* The packet whose header the buffer begins with in its first n units,    *)
(* or 0: bytes of anything else would be taken for an address.             *)
ReadFromCursor(n) ==
  LET p == buffer[1][2]
  IN  IF SubSeq(buffer, 1, n) = SubSeq(Header(p), 1, n) THEN p ELSE 0

(* The type and one more byte give the length of the header; an unknown    *)
(* type is an error.                                                       *)
ReadType ==
  /\ Enough /\ reader = "open"
  /\ LET p == ReadFromCursor(2)
     IN  \/ p # 0 /\ reader' = "header" /\ data_length' = Len(Header(p))
         \/ p = 0 /\ reader' \in {"garbled", "ended"} /\ data_length' = 0
  /\ UNCHANGED <<kind, writerVars, wire, closed, net, buffer, addr, got>>

ReadHeader ==
  /\ Enough /\ reader = "header"
  /\ LET p == ReadFromCursor(data_length)
     IN  \/ /\ p # 0
            /\ reader' = "payload" /\ data_length' = sent[p].size /\ addr' = sent[p].addr
            /\ buffer' = SubSeq(buffer, data_length + 1, Len(buffer))
         \/ /\ p = 0
            /\ reader' = "garbled"
            /\ UNCHANGED <<buffer, data_length, addr>>
  /\ UNCHANGED <<kind, writerVars, wire, closed, net, got>>

(* Mutant: all that was read is returned, not the packet's part of it. *)
Put_All ==
  /\ Enough /\ reader = "payload" /\ data_length > 0
  /\ got' = Append(got, [addr |-> addr, data |-> buffer])
  /\ buffer' = <<>>
  /\ data_length' = 0
  /\ addr' = Dummy
  /\ UNCHANGED <<kind, writerVars, wire, closed, net, reader>>

(* The data is there: what fits is returned, with the address taken.       *)
Put ==
  LET n == IF data_length <= Room THEN data_length ELSE Room
  IN
  /\ Enough /\ reader = "payload" /\ data_length > 0
  /\ got' = Append(got, [addr |-> addr, data |-> SubSeq(buffer, 1, n)])
  /\ buffer' = SubSeq(buffer, n + 1, Len(buffer))
  /\ data_length' = data_length - n
  /\ addr' = Dummy
  /\ UNCHANGED <<kind, writerVars, wire, closed, net, reader>>

(* All of the packet is put, or it was empty: on to the next.              *)
NextPacket ==
  /\ Enough /\ reader = "payload" /\ data_length = 0
  /\ reader' = "open"
  /\ UNCHANGED <<kind, writerVars, wire, closed, net, buffer, data_length, addr, got>>

(* Mutant: the address is the server's, not the one in the datagram.       *)
ReceiveDatagram_FromServer(p) ==
  /\ reader = "open" /\ Len(got) < MaxGot
  /\ got' = Append(got, [addr |-> Dummy, data |-> Payload(p)])
  /\ UNCHANGED <<kind, writerVars, wire, closed, net, reader, buffer, data_length, addr>>

(* priv_poll_recv_from: a datagram is opened and its address parsed.       *)
(* Salts are not looked up, so a double is received again.                 *)
ReceiveDatagram(p) ==
  /\ reader = "open" /\ Len(got) < MaxGot
  /\ got' = Append(got, [addr |-> sent[p].addr, data |-> Payload(p)])
  /\ UNCHANGED <<kind, writerVars, wire, closed, net, reader, buffer, data_length, addr>>

(* One that cannot be opened or parsed is an error, which ends the task.   *)
ReceiveInvalid ==
  /\ kind # "trojan" /\ reader = "open"
  /\ reader' = "ended"
  /\ UNCHANGED <<kind, writerVars, wire, closed, net, buffer, data_length, addr, got>>

-----------------------------------------------------------------------------
Write == \E k \in 1 .. Room + 5 : WriteHeader(k) \/ WriteData(k)

Read ==
  \/ \E k \in 1 .. Len(wire) : Fill(k)
  \/ ReadZero \/ ReadType \/ ReadHeader \/ Put \/ NextPacket

Next ==
  \/ \E a \in Addrs, n \in Sizes : SendTo(a, n)
  \/ Write \/ HeaderFails \/ SendDatagram \/ SendFails
  \/ \E a \in Addrs : PeerSendsEmpty(a)
  \/ StreamEnds
  \/ Read \/ ReadErr
  \/ \E p \in net : ReceiveDatagram(p)
  \/ ReceiveInvalid

Spec == Init /\ [][Next]_vars

(* The stream takes and gives bytes in the end and the read task goes on   *)
(* calling recv_from.                                                      *)
FairSpec == Spec /\ WF_vars(Write) /\ WF_vars(Read)

-----------------------------------------------------------------------------
Units == {"head", "data"} \X (1 .. Current) \X (Nat \ {0})

TypeOK ==
  /\ kind \in Kinds /\ sent \in Seq([addr : Addrs, size : Sizes \cup {0}])
  /\ writer \in {"idle", "header", "data", "ended", "failed"}
  /\ pos \in Nat /\ (writer = "header" => pos < Len(Header(Current)))
  /\ (writer = "data" => pos <= sent[Current].size)
  /\ wire \in Seq(Units) /\ net \subseteq 1 .. Current
  /\ reader \in {"open", "header", "payload", "ended", "garbled"}
  /\ buffer \in Seq(Units) /\ data_length \in Nat /\ addr \in Addrs \cup {Dummy}
  /\ got \in Seq([addr : Addrs \cup {Dummy}, data : Seq(Units)])
  /\ torn \in BOOLEAN /\ closed \in BOOLEAN

Whole(p) == [addr |-> sent[p].addr, data |-> Payload(p)]

(* What recv_from returns is one datagram that was sent, whole and with    *)
(* its own address, whatever was lost, doubled or reordered and however    *)
(* the stream was cut; except the empty one that stands for the end of a   *)
(* Trojan stream, and what follows a header that was not written whole.    *)
DatagramsAreWhole ==
  torn \/ /\ reader # "garbled"
          /\ \A k \in DOMAIN got :
               \/ \E p \in 1 .. Current : got[k] = Whole(p)
               \/ kind = "trojan" /\ k = Len(got) /\ reader = "ended" /\ got[k].data = <<>>

(* Over Trojan's stream the datagrams come in the order of send_to, none   *)
(* twice and none left out, but for empty ones.                            *)
Full      == {k \in DOMAIN got : got[k].data # <<>>}
Number(k) == got[k].data[1][2]
PacketsInOrder ==
  kind = "trojan" /\ ~torn =>
    \A k \in Full :
      /\ Number(k) \in 1 .. Current /\ got[k] = Whole(Number(k))
      /\ \A j \in Full : j < k => Number(j) < Number(k)
      /\ \A q \in 1 .. Number(k) - 1 :
           sent[q].size > 0 => \E j \in 1 .. k - 1 : got[j] = Whole(q)

Received(p) == p <= Current /\ (sent[p].size = 0 \/ \E k \in DOMAIN got : got[k] = Whole(p))

(* A datagram that is given to send_to of Trojan is received, unless it is *)
(* empty or follows an empty one, a write failed or the stream has ended.  *)
PacketArrives ==
  \A p \in 1 .. MaxPackets :
    kind = "trojan" /\ Current >= p ~>
      Received(p) \/ writer \in {"ended", "failed"} \/ torn \/ closed

-----------------------------------------------------------------------------
(* The inductive invariant behind the two.  The units of a Trojan stream   *)
(* that are read but not used, or on the wire, follow each other: the      *)
(* first is the one that the reader expects, having done with n packets,   *)
(* and the writer goes on behind the last.                                 *)
After(u) ==
  LET p == u[2]
      i == u[3]
  IN  IF u[1] = "head" /\ i < Len(Header(p)) THEN <<"head", p, i + 1>>
      ELSE IF u[1] = "head" /\ sent[p].size > 0 THEN <<"data", p, 1>>
      ELSE IF u[1] = "data" /\ i < sent[p].size THEN <<"data", p, i + 1>>
      ELSE <<"head", p + 1, 1>>

Stream == buffer \o wire

Expected(n) ==
  IF reader = "payload" /\ data_length > 0 THEN <<"data", n + 1, 1>> ELSE <<"head", n + 1, 1>>

Writes(u) ==
  /\ writer = "header" => u = <<"head", Current, pos + 1>>
  /\ writer = "idle"   => u = <<"head", Current + 1, 1>>
  /\ writer \in {"data", "failed"} => u = <<"data", Current, pos + 1>>

Linked(s, u) ==
  /\ s = <<>> => Writes(u)
  /\ s # <<>> => s[1] = u /\ Writes(After(s[Len(s)]))
  /\ \A i \in 1 .. Len(s) - 1 : s[i + 1] = After(s[i])

(* All packets up to the nth that are not empty have been returned, and no *)
(* other.                                                                  *)
ReturnedTo(n) ==
  /\ \A q \in 1 .. n : sent[q].size > 0 => \E k \in DOMAIN got : got[k] = Whole(q)
  /\ \A k \in Full : Number(k) <= n

At(n) ==
  /\ Linked(Stream, Expected(n)) /\ ReturnedTo(n)
  /\ reader = "header" => n < Current /\ data_length = Len(Header(n + 1))
  /\ reader = "payload" /\ data_length > 0 =>
       n < Current /\ data_length = sent[n + 1].size /\ addr = sent[n + 1].addr

StreamInv ==
  kind = "trojan" /\ ~torn /\ reader \in {"open", "header", "payload"} => \E n \in 0 .. Current : At(n)

WriterInv ==
  /\ Current <= MaxPackets /\ (kind = "trojan" => net = {})
  /\ writer = "header" => kind = "trojan"
  /\ (writer \in {"idle", "ended"} \/ kind # "trojan") => pos = 0
  /\ writer \in {"header", "data", "failed"} => Current > 0
  /\ writer \in {"header", "data", "failed"} /\ kind = "trojan" => sent[Current].size > 0
  /\ writer \in {"data", "failed"} /\ kind = "trojan" => pos < sent[Current].size
  /\ reader = "header" => data_length > 0

IInv == /\ TypeOK /\ WriterInv /\ StreamInv
        /\ DatagramsAreWhole /\ PacketsInOrder
=============================================================================
