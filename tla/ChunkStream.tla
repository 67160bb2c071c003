---------------------------- MODULE ChunkStream ----------------------------
(***************************************************************************)
(* The encrypted byte streams of Shadowsocks and VMess, one direction: a   *)
(* writer that cuts what its caller writes into sealed chunks behind a     *)
(* preamble, and a reader that opens them (shadowsocks/aead.rs and         *)
(* crypto_io.rs, vmess/aead.rs, vmess_stream.rs and aead_header.rs).       *)
(*                                                                         *)
(* Client and server each have both; the peer of an end is taken to do     *)
(* what the code's own other end does.  A unit of the stream below is a    *)
(* tuple <<part, value, nonce>>: a unit of the preamble (the salt, or the  *)
(* VMess header), a half of a sealed length, a byte of data or its tag.    *)
(* Opening succeeds on exactly what was sealed under the same nonce.  The  *)
(* stream below takes and gives any number of units, may fail, and ends    *)
(* when the writer's side is dropped, be it within a chunk.                *)
(***************************************************************************)
EXTENDS Integers, Sequences

CONSTANTS
  PreLen,      \* units of the preamble
  MaxPacket,   \* MAX_PACKET_SIZE, CHUNK_SIZE without the tag
  NonceSpace,  \* values of VMess's count: u16
  MaxOffer,    \* bound: bytes a caller offers in one poll_write
  MaxRoom,     \* bound: room in the buffer of a poll_read
  MaxBytes     \* bound: bytes accepted altogether

ASSUME ChunkAssumption ==
  /\ PreLen \in Nat \ {0} /\ MaxPacket \in Nat \ {0} /\ NonceSpace \in Nat \ {0}
  /\ MaxOffer \in Nat \ {0} /\ MaxRoom \in Nat \ {0} /\ MaxBytes \in Nat

VARIABLES
  kind,         \* "SS" or "Vmess"
  offer,        \* how many bytes the poll_write under way offers, or 0
  accepted,     \* how many bytes poll_write has reported as written
  writer,       \* where the writer's coroutine is
  header_pos,
  buf, pos, data_len, wcount,  \* the fields of the writer
  chunks,       \* history: the chunks sealed, as [from, size, count]
  asleep,       \* Pending was returned and nothing will wake the task
  wire,         \* units written and not yet read
  closed,       \* the writer's side is gone
  reader,       \* where the reader's coroutine is
  buffer, data_length, rcount, \* the fields of the reader
  opened,       \* history: how many chunks the reader has opened
  reset,        \* history: the reader's stream has failed
  got           \* history: the bytes poll_read has returned

writerVars == <<offer, accepted, writer, header_pos, buf, pos, data_len, wcount, chunks,
                asleep, closed>>
readerVars == <<reader, buffer, data_length, rcount, opened, reset, got>>
vars       == <<kind, writerVars, wire, readerVars>>

LeastOf(a, b)  == IF a <= b THEN a ELSE b
From(s, n)     == SubSeq(s, n + 1, Len(s))   \* BytesMut::advance

-----------------------------------------------------------------------------
(* Shadowsocks seals length and data, each under the next nonce; VMess has *)
(* a plain length, and seals data under a counter that wraps.              *)
LenNonce(c)  == IF kind = "SS" THEN c ELSE 0
DataNonce(c) == IF kind = "SS" THEN c + 1 ELSE c
NextCount(c) == IF kind = "SS" THEN c + 2 ELSE (c + 1) % NonceSpace

Preamble == [i \in 1 .. PreLen |-> <<"pre", i, 0>>]

LenSize == 2
LenField(n, c) == [i \in 1 .. LenSize |-> <<"len", n, LenNonce(c)>>]

(* The chunk of the n bytes that follow the first m. *)
Chunk(m, n, c) ==
  LenField(n, c)
    \o [i \in 1 .. n |-> <<"data", m + i, DataNonce(c)>>]
    \o << <<"tag", n, DataNonce(c)>> >>

(* CryptoStream::new puts the salt into the writer's empty buffer, where   *)
(* it waits for the first chunk; VMess has a header to write before it.    *)
Init ==
  /\ kind \in {"SS", "Vmess"}
  /\ offer = 0 /\ accepted = 0
  /\ writer = IF kind = "SS" THEN "idle" ELSE "header"
  /\ header_pos = 0
  /\ buf = IF kind = "SS" THEN Preamble ELSE <<>>
  /\ pos = 0 /\ data_len = 0 /\ wcount = 0 /\ chunks = <<>>
  /\ asleep = FALSE /\ closed = FALSE
  /\ wire = <<>>
  /\ reader = "preamble" /\ buffer = <<>> /\ data_length = 0 /\ rcount = 0
  /\ opened = 0
  /\ reset = FALSE /\ got = <<>>

-----------------------------------------------------------------------------
(* The caller's next poll_write; while it is pending it is repeated with   *)
(* the same bytes.                                                         *)
PollWrite(n) ==
  /\ ~closed /\ offer = 0
  /\ accepted + n <= MaxBytes
  /\ offer' = n
  /\ UNCHANGED <<kind, accepted, writer, header_pos, buf, pos, data_len, wcount, chunks,
                 asleep, closed, wire, readerVars>>

(* poll_write_header: if the stream took k units and that is not all, the  *)
(* coroutine yields Pending; the stream, which was ready, wakes nobody.    *)
WriteHeader(k) ==
  /\ ~closed /\ ~asleep
  /\ writer = "header" /\ offer > 0
  /\ header_pos + k <= PreLen
  /\ wire' = wire \o SubSeq(Preamble, header_pos + 1, header_pos + k)
  /\ header_pos' = header_pos + k
  /\ IF header_pos' = PreLen THEN writer' = "idle" /\ UNCHANGED asleep
                             ELSE asleep' = TRUE /\ UNCHANGED writer
  /\ UNCHANGED <<kind, offer, accepted, buf, pos, data_len, wcount, chunks, closed, readerVars>>

(* The task is polled again for a reason of its own, such as data for the  *)
(* relay's other direction.                                                *)
OtherWakeUp ==
  /\ ~closed /\ asleep
  /\ asleep' = FALSE
  /\ UNCHANGED <<kind, offer, accepted, writer, header_pos, buf, pos, data_len, wcount, chunks,
                 closed, wire, readerVars>>

(* Mutant: the nonce is not increased. *)
Encrypt_SameNonce ==
  /\ ~closed /\ writer = "idle" /\ offer > 0
  /\ data_len' = LeastOf(MaxPacket, offer)
  /\ buf' = buf \o Chunk(accepted, data_len', wcount)
  /\ pos' = 0
  /\ chunks' = Append(chunks, [from |-> accepted, size |-> data_len', count |-> wcount])
  /\ writer' = "writing"
  /\ UNCHANGED <<kind, offer, accepted, header_pos, wcount, asleep, closed, wire, readerVars>>

(* Mutant: a chunk waits until it can be filled. *)
Encrypt_WhenFull ==
  /\ ~closed /\ writer = "idle" /\ offer >= MaxPacket
  /\ data_len' = LeastOf(MaxPacket, offer)
  /\ buf' = buf \o Chunk(accepted, data_len', wcount)
  /\ pos' = 0
  /\ wcount' = NextCount(wcount)
  /\ chunks' = Append(chunks, [from |-> accepted, size |-> data_len', count |-> wcount])
  /\ writer' = "writing"
  /\ UNCHANGED <<kind, offer, accepted, header_pos, asleep, closed, wire, readerVars>>

(* poll_write_encrypted seals as much of the data as fits one chunk. *)
Encrypt ==
  /\ ~closed /\ writer = "idle" /\ offer > 0
  /\ data_len' = LeastOf(MaxPacket, offer)
  /\ buf' = buf \o Chunk(accepted, data_len', wcount)
  /\ pos' = 0
  /\ wcount' = NextCount(wcount)
  /\ chunks' = Append(chunks, [from |-> accepted, size |-> data_len', count |-> wcount])
  /\ writer' = "writing"
  /\ UNCHANGED <<kind, offer, accepted, header_pos, asleep, closed, wire, readerVars>>

(* Mutant: all that was offered is reported, not what was sealed. *)
WriteData_ReportsOffer(k) ==
  /\ ~closed /\ writer = "writing" /\ pos + k <= Len(buf)
  /\ wire' = wire \o SubSeq(buf, pos + 1, pos + k)
  /\ pos' = pos + k
  /\ IF pos' < Len(buf)
     THEN UNCHANGED <<writer, buf, accepted, offer>>
     ELSE writer' = "idle" /\ buf' = <<>> /\ accepted' = accepted + offer /\ offer' = 0
  /\ UNCHANGED <<kind, header_pos, data_len, wcount, chunks, asleep, closed, readerVars>>

(* write_data: the stream takes k units; when the buffer is written out    *)
(* it is cleared and poll_write returns data_len.                          *)
WriteData(k) ==
  /\ ~closed /\ writer = "writing" /\ pos + k <= Len(buf)
  /\ wire' = wire \o SubSeq(buf, pos + 1, pos + k)
  /\ pos' = pos + k
  /\ IF pos' < Len(buf)
     THEN UNCHANGED <<writer, buf, accepted, offer>>
     ELSE writer' = "idle" /\ buf' = <<>> /\ accepted' = accepted + data_len /\ offer' = 0
  /\ UNCHANGED <<kind, header_pos, data_len, wcount, chunks, asleep, closed, readerVars>>

(* The stream fails or takes nothing and the caller gives up; or the       *)
(* caller ends, if need be with a poll_write still pending.                *)
CloseWriter ==
  /\ ~closed
  /\ closed' = TRUE
  /\ UNCHANGED <<kind, offer, accepted, writer, header_pos, buf, pos, data_len, wcount, chunks,
                 asleep, wire, readerVars>>

-----------------------------------------------------------------------------
(* How many units read_at_least is asked for. *)
Needed ==
  IF reader = "preamble" THEN PreLen
  ELSE IF reader = "len" THEN LenSize
  ELSE IF reader = "data" THEN data_length
  ELSE 0

(* poll_read_buf takes k units.  The buffer for Shadowsocks' salt has room *)
(* for just the salt, the others may be given what follows as well.        *)
Fill(k) ==
  /\ Len(buffer) < Needed
  /\ k <= Len(wire)
  /\ kind = "SS" /\ reader = "preamble" => Len(buffer) + k <= PreLen
  /\ buffer' = buffer \o SubSeq(wire, 1, k)
  /\ wire' = From(wire, k)
  /\ UNCHANGED <<kind, writerVars, reader, data_length, rcount, opened, reset, got>>

(* The stream has ended (read_zero).  poll_read returns Ok with nothing    *)
(* read, whether or not a chunk had begun.  Within the salt it is an       *)
(* error; VmessHeaderReader returns Ok and its caller goes on to chunks.   *)
ReadZero ==
  /\ Len(buffer) < Needed
  /\ wire = <<>> /\ closed
  /\ reader' = IF reader # "preamble" THEN "eof" ELSE IF kind = "SS" THEN "err" ELSE "len"
  /\ UNCHANGED <<kind, writerVars, wire, buffer, data_length, rcount, opened, reset, got>>

ReadErr ==
  /\ Len(buffer) < Needed
  /\ reader' = "err" /\ reset' = TRUE
  /\ UNCHANGED <<kind, writerVars, wire, buffer, data_length, rcount, opened, got>>

(* The salt has come and starts the cipher; or the response header has,    *)
(* and what was read beyond it is handed to the reader of chunks.          *)
ReadHandshake ==
  /\ reader = "preamble" /\ Len(buffer) >= PreLen
  /\ IF SubSeq(buffer, 1, PreLen) = Preamble
     THEN reader' = "len" /\ buffer' = From(buffer, PreLen)
     ELSE reader' = "err" /\ UNCHANGED buffer
  /\ UNCHANGED <<kind, writerVars, wire, data_length, rcount, opened, reset, got>>

(* The length of the next chunk.  What is no length fails to open, or, as  *)
(* a plain number, is too large or asks for more than there is.            *)
ReadLength ==
  /\ reader = "len" /\ Len(buffer) >= LenSize
  /\ LET n == buffer[1][2]
     IN  IF SubSeq(buffer, 1, LenSize) = LenField(n, rcount)
         THEN /\ reader' = "data"
              /\ data_length' = n + 1
              /\ buffer' = From(buffer, LenSize)
         ELSE /\ reader' = "err" \/ (kind = "Vmess" /\ reader' = "eof")
              /\ UNCHANGED <<data_length, buffer>>
  /\ UNCHANGED <<kind, writerVars, wire, rcount, opened, reset, got>>

(* Mutant: the reader wants to see something behind the chunk. *)
Decrypt_WantsMore ==
  /\ reader = "data" /\ Len(buffer) > data_length
  /\ LET n == data_length - 1
     IN  IF /\ \A i \in 1 .. n : buffer[i][1] = "data" /\ buffer[i][3] = DataNonce(rcount)
            /\ buffer[n + 1] = <<"tag", n, DataNonce(rcount)>>
         THEN /\ reader' = "put" /\ data_length' = n
              /\ rcount' = NextCount(rcount) /\ opened' = opened + 1
         ELSE reader' = "err" /\ UNCHANGED <<data_length, rcount, opened>>
  /\ UNCHANGED <<kind, writerVars, wire, buffer, reset, got>>

(* The data with its tag, which then no longer counts. *)
Decrypt ==
  /\ reader = "data" /\ Len(buffer) >= data_length
  /\ LET n == data_length - 1
     IN  IF /\ \A i \in 1 .. n : buffer[i][1] = "data" /\ buffer[i][3] = DataNonce(rcount)
            /\ buffer[n + 1] = <<"tag", n, DataNonce(rcount)>>
         THEN /\ reader' = "put" /\ data_length' = n
              /\ rcount' = NextCount(rcount) /\ opened' = opened + 1
         ELSE reader' = "err" /\ UNCHANGED <<data_length, rcount, opened>>
  /\ UNCHANGED <<kind, writerVars, wire, buffer, reset, got>>

(* calc_data_to_put. *)
ToPut(room) == LeastOf(data_length, room)

(* Mutant: the bytes put are not taken from the buffer. *)
Put_NoAdvance(room) ==
  /\ reader = "put" /\ data_length > 0
  /\ got' = got \o [i \in 1 .. ToPut(room) |-> buffer[i][2]]
  /\ data_length' = data_length - ToPut(room)
  /\ UNCHANGED <<kind, writerVars, wire, reader, buffer, rcount, opened, reset>>

(* A poll_read with that much room gets a part of the chunk; the next one  *)
(* gets more of it, or drops the tag and goes on to the next chunk.        *)
Put(room) ==
  /\ reader = "put" /\ data_length > 0
  /\ got' = got \o [i \in 1 .. ToPut(room) |-> buffer[i][2]]
  /\ data_length' = data_length - ToPut(room)
  /\ buffer' = From(buffer, ToPut(room))
  /\ UNCHANGED <<kind, writerVars, wire, reader, rcount, opened, reset>>

DropTag ==
  /\ reader = "put" /\ data_length = 0
  /\ buffer' = From(buffer, 1)
  /\ reader' = "len"
  /\ UNCHANGED <<kind, writerVars, wire, data_length, rcount, opened, reset, got>>

-----------------------------------------------------------------------------
(* The most units there can be in a buffer of the writer. *)
MaxUnits == PreLen + LenSize + MaxPacket + 1

WriterPoll ==
  \/ \E k \in 1 .. PreLen : WriteHeader(k)
  \/ Encrypt
  \/ \E k \in 1 .. MaxUnits : WriteData(k)

ReaderPoll ==
  \/ \E k \in 1 .. Len(wire) : Fill(k)
  \/ ReadZero \/ ReadHandshake \/ ReadLength \/ Decrypt
  \/ \E room \in 1 .. MaxRoom : Put(room)
  \/ DropTag

Next ==
  \/ \E n \in 1 .. MaxOffer : PollWrite(n)
  \/ WriterPoll \/ OtherWakeUp \/ CloseWriter
  \/ ReaderPoll \/ ReadErr

Spec == Init /\ [][Next]_vars

(* Tasks that are woken are polled, the stream below takes and gives units *)
(* sooner or later, and the reader's caller keeps reading; nothing makes a *)
(* caller write, or wakes a task that is asleep.                           *)
FairSpec == Spec /\ WF_vars(WriterPoll) /\ WF_vars(ReaderPoll)

-----------------------------------------------------------------------------
Units == {"pre", "len", "data", "tag"} \X Nat \X Nat

TypeOK ==
  /\ kind \in {"SS", "Vmess"} /\ asleep \in BOOLEAN /\ closed \in BOOLEAN
  /\ offer \in 0 .. MaxOffer /\ accepted \in Nat /\ data_len \in 0 .. MaxPacket
  /\ writer \in {"header", "idle", "writing"} /\ header_pos \in 0 .. PreLen
  /\ buf \in Seq(Units) /\ Len(buf) <= MaxUnits /\ pos \in 0 .. MaxUnits
  /\ wcount \in Nat /\ rcount \in Nat
  /\ wire \in Seq(Units) /\ buffer \in Seq(Units)
  /\ reader \in {"preamble", "len", "data", "put", "eof", "err"}
  /\ data_length \in 0 .. MaxPacket + 1
  /\ reset \in BOOLEAN /\ got \in Seq(Nat)
  /\ chunks \in Seq([from : Nat, size : 1 .. MaxPacket, count : Nat]) /\ opened \in Nat

(* What the reader returns is the writer's bytes, in order, each once,     *)
(* however chunks are cut, written and read; and it is never ahead of the  *)
(* chunk being written.                                                    *)
DeliveredIsPrefix ==
  /\ \A i \in DOMAIN got : got[i] = i
  /\ Len(got) <= accepted + (IF writer = "writing" THEN data_len ELSE 0)

(* The reader rejects nothing that the writer wrote: nonces stay in step,  *)
(* also when they wrap, and no unit is lost between the header's reader    *)
(* and the chunks'.  It fails with its stream, or when that ends before    *)
(* anything was written.                                                   *)
NoFalseAlarm ==
  reader = "err" => reset \/ (closed /\ accepted = 0)

(* When the reader sees the end it has returned exactly the bytes that the *)
(* writer reported as written: a chunk that was torn had not been.         *)
EofMeansAccepted == reader = "eof" => Len(got) = accepted

(* poll_write returns, unless the header was written in part.              *)
CallReturns == offer > 0 ~> offer = 0 \/ closed \/ asleep

(* Every byte reported as written is returned to the reader's caller, if   *)
(* the reader's stream does not fail.                                      *)
AcceptedIsDelivered ==
  \A n \in 1 .. MaxBytes : accepted >= n ~> Len(got) >= n \/ reset

-----------------------------------------------------------------------------
(* The inductive invariant behind the three.  It numbers the units of the  *)
(* stream from its start, as the writer makes them and the reader takes    *)
(* them, and says what unit x is.                                          *)
Sealed   == accepted + IF writer = "writing" THEN data_len ELSE 0
Start(j) == PreLen + chunks[j].from + (LenSize + 1) * (j - 1)
Total    == PreLen + Sealed + (LenSize + 1) * Len(chunks)

IsUnit(x, u) ==
  /\ x <= PreLen => u = Preamble[x]
  /\ \A j \in 1 .. Len(chunks) : \A y \in 1 .. chunks[j].size + LenSize + 1 :
       x = Start(j) + y => u = Chunk(chunks[j].from, chunks[j].size, chunks[j].count)[y]

(* Chunks follow each other without a gap, each under the next count. *)
ChunksInv ==
  LET w == Len(chunks)
  IN  /\ \A j \in 1 .. w :
           /\ chunks[j].from + chunks[j].size = IF j = w THEN Sealed ELSE chunks[j + 1].from
           /\ NextCount(chunks[j].count) = IF j = w THEN wcount ELSE chunks[j + 1].count
      /\ \A i, j \in 1 .. w : i < j => chunks[i].from + chunks[i].size <= chunks[j].from
      /\ w = 0 => Sealed = 0 /\ wcount = 0
      /\ w > 0 => chunks[1].from = 0 /\ chunks[1].count = 0

(* What the writer has still to write, in each of its states. *)
Unsent == IF writer = "header" THEN SubSeq(Preamble, header_pos + 1, PreLen) ELSE From(buf, pos)

WriterInv ==
  LET w     == Len(chunks)
      first == kind = "SS" /\ w <= 1
  IN  /\ writer = "header" => kind = "Vmess" /\ w = 0 /\ buf = <<>> /\ header_pos < PreLen
      /\ writer = "idle" => IF kind = "SS" /\ w = 0 THEN buf = Preamble /\ pos = 0 ELSE buf = <<>>
      /\ writer = "writing" => /\ w > 0 /\ chunks[w].from = accepted /\ pos < Len(buf)
                               /\ Len(buf) = data_len + LenSize + 1 + IF first THEN PreLen ELSE 0

(* How many units the reader has done with. *)
Consumed ==
  IF reader = "preamble" THEN 0
  ELSE PreLen + Len(got) + (LenSize + 1) * opened +
         IF reader = "len" THEN 0 ELSE IF reader = "data" THEN LenSize ELSE -1

(* The VMess header ended early, and its reader has gone on to chunks.     *)
Torn == reader = "len" /\ writer = "header"

(* While it reads, the units that are in its buffer, on the wire and not   *)
(* yet sent are all that follow those it has done with, to the last.       *)
Stream == buffer \o (wire \o Unsent)

UnitsInv ==
  reader \notin {"eof", "err"} /\ ~Torn =>
    /\ \A i \in 1 .. Len(Stream) : IsUnit(Consumed + i, Stream[i])
    /\ Consumed + Len(Stream) = Total

(* Where the reader is, in terms of chunks. *)
ReaderInv ==
  LET w    == Len(chunks)
      next == chunks[opened + 1]
      this == chunks[opened]
  IN  /\ Torn => /\ closed /\ wire = <<>> /\ got = <<>>
                 /\ \A i \in 1 .. Len(buffer) : buffer[i][1] = "pre"
      /\ opened <= w
      /\ rcount = IF opened < w THEN next.count ELSE wcount
      /\ reader = "preamble" => opened = 0 /\ got = <<>>
      /\ reader \in {"len", "data"} /\ ~Torn =>
           Len(got) = IF opened < w THEN next.from ELSE Sealed
      /\ reader = "data" => opened < w /\ data_length = next.size + 1
      /\ reader = "put"  => /\ opened > 0 /\ Len(buffer) > data_length
                            /\ Len(got) >= this.from
                            /\ Len(got) + data_length = this.from + this.size
      /\ reader = "eof"  => closed

IInv == /\ TypeOK /\ ChunksInv /\ WriterInv /\ UnitsInv /\ ReaderInv
        /\ DeliveredIsPrefix /\ NoFalseAlarm /\ EofMeansAccepted
=============================================================================
