----------------------------- MODULE Transport -----------------------------
(***************************************************************************)
(* The transports that carry a byte stream in messages: HTTP/2             *)
(* (h2/mod.rs), gRPC over it (grpc/mod.rs), WebSocket (websocket/mod.rs)   *)
(* and WebSocket with early data, "ws0" (ws_early_data.rs); and the stream *)
(* that begins with an HTTP request and response, simple-obfs              *)
(* (simpleobfs/http.rs).  poll_write hands bytes to the peer, poll_read    *)
(* returns the peer's.                                                     *)
(*                                                                         *)
(* Bytes are numbered in each direction.  An HTTP/2 DATA frame is a        *)
(* sequence of units <<"data", byte>> and, for gRPC, <<"head", n>>, which  *)
(* starts a message of n bytes.  The response that precedes the bytes of   *)
(* simple-obfs is <<"line", 0>> and the two halves of the blank line that  *)
(* ends it.  The libraries h2 and tungstenite and the peer are external: a *)
(* peer sends what flow control allows, splits messages over frames but no *)
(* message's head, and may stop at any time.                               *)
(***************************************************************************)
EXTENDS Integers, Sequences, SequencesExt

CONSTANTS
  Kinds,     \* the transports: of "h2", "grpc", "ws", "ws0", "obfs"
  Window,    \* the flow control window, each way, in units
  MaxFrame,  \* bound: units of a frame
  MaxOffer,  \* bound: bytes in one poll_write
  MaxRoom,   \* bound: room in one poll_read
  MaxEarly,  \* early_data_len
  MaxOut,    \* bound: bytes written
  MaxIn      \* bound: bytes the peer sends

ASSUME TransportAssumption ==
  /\ Kinds \subseteq {"h2", "grpc", "ws", "ws0", "obfs"}
  /\ Window \in Nat \ {0} /\ MaxFrame \in Nat \ {0} /\ MaxOffer \in Nat \ {0}
  /\ MaxRoom \in Nat \ {0} /\ MaxEarly \in Nat \ {0} /\ MaxOut \in Nat /\ MaxIn \in Nat

(* u64 wraps in a release build; a message's length is one, and no run     *)
(* comes near this many bytes, so a length that has wrapped stays large.   *)
U64 == 65536

ASSUME LengthAssumption == MaxFrame < U64

VARIABLES
  kind,
  early,        \* "done", or where the first write of ws0 or obfs is
  early_data_len, \* bytes of that write in the request, 0 before it
  accepted,     \* bytes that poll_write has reported
  peer_got,     \* the bytes the peer has received, in order
  credit,       \* what h2 may send
  short,        \* history: h2 granted less than poll_write offered
  sent,         \* bytes the peer has sent
  message,      \* bytes to come of the peer's current gRPC message; for
                \* obfs 1 once the response is sent
  inbox,        \* frames and messages received and not yet read; for obfs
                \* what is left of the byte stream is one segment
  window,       \* what the peer may send
  buffer,       \* buffer, or read_buffer of a BinaryWsStream
  payload_len,  \* of the gRPC message being read, a u64
  reader,       \* "open", "eof" or "err": what poll_read last returned; or
                \* "spin": it never returns
  stripped,     \* obfs: the reader has found the end of the response
  early_waker,  \* a reader waits for the first write to end
  peer_closed, pinged,
  packed,       \* history: a frame had a message's end and another's head
  cramped,      \* history: a frame was larger than the room to read it
  bare,         \* history: a frame of gRPC was read that had a head alone
  mangled,      \* history: obfs read half of the blank line, or it alone
  got           \* history: what poll_read has returned

writeVars == <<early, early_data_len, accepted, peer_got, credit, short>>
peerVars  == <<sent, message, peer_closed, pinged, packed>>
obfsVars  == <<stripped, mangled>>
readVars  == <<buffer, payload_len, reader, cramped, bare, got, obfsVars>>
vars      == <<kind, writeVars, peerVars, inbox, window, early_waker, readVars>>

LeastOf(a, b) == IF a <= b THEN a ELSE b
Datas(m, n)   == [i \in 1 .. n |-> <<"data", m + i>>]
Flowing       == kind \in {"h2", "grpc"}

Init ==
  /\ kind \in Kinds
  /\ early = (IF kind \in {"ws0", "obfs"} THEN "none" ELSE "done") /\ early_data_len = 0
  /\ accepted = 0 /\ peer_got = <<>> /\ credit = Window /\ short = FALSE
  /\ sent = 0 /\ message = 0 /\ inbox = <<>> /\ window = Window
  /\ buffer = <<>> /\ payload_len = 0 /\ reader = "open" /\ early_waker = FALSE
  /\ peer_closed = FALSE /\ pinged = FALSE /\ packed = FALSE /\ cramped = FALSE
  /\ bare = FALSE /\ stripped = FALSE /\ mangled = FALSE /\ got = <<>>

-----------------------------------------------------------------------------
(* Mutant: the whole buffer is sent whatever was granted. *)
H2Write_SendsAll(n) ==
  /\ kind = "h2" /\ credit > 0 /\ accepted + n <= MaxOut
  /\ \E to_write \in 1 .. LeastOf(n, credit) :
       /\ peer_got' = peer_got \o Datas(accepted, n)
       /\ accepted' = accepted + to_write
       /\ credit' = credit - to_write
  /\ UNCHANGED <<kind, early, early_data_len, short, peerVars, inbox, window, early_waker,
                 readVars>>

(* Http2Stream::poll_write: h2 grants some of the capacity reserved, and   *)
(* that many bytes are sent and reported.                                  *)
H2Write(n) ==
  /\ kind = "h2" /\ credit > 0 /\ accepted + n <= MaxOut
  /\ \E to_write \in 1 .. LeastOf(n, credit) :
       /\ peer_got' = peer_got \o Datas(accepted, to_write)
       /\ accepted' = accepted + to_write
       /\ credit' = credit - to_write
  /\ UNCHANGED <<kind, early, early_data_len, short, peerVars, inbox, window, early_waker,
                 readVars>>

(* GrpcStream::poll_write: capacity is reserved for the message with its   *)
(* head; once some is granted the whole message is sent, and the grant     *)
(* reported.  Writers of chunks stop at the end of their buffer when told  *)
(* of more, and offer the rest again when told of less.                    *)
GrpcWrite(n) ==
  /\ kind = "grpc" /\ credit > 0 /\ accepted + n <= MaxOut
  /\ \E to_write \in 1 .. LeastOf(n + 1, credit) :
       /\ peer_got' = peer_got \o Datas(accepted, n)
       /\ accepted' = accepted + LeastOf(n, to_write)
       /\ credit' = credit - LeastOf(n + 1, credit)
       /\ short' = (short \/ to_write < n)
  /\ UNCHANGED <<kind, early, early_data_len, peerVars, inbox, window, early_waker, readVars>>

(* The peer opens its window again. *)
PeerReads ==
  /\ Flowing /\ credit < Window
  /\ credit' = Window
  /\ UNCHANGED <<kind, early, early_data_len, accepted, peer_got, short, peerVars, inbox,
                 window, early_waker, readVars>>

(* BinaryWsStream::poll_write: one message with all of the buffer. *)
WsWrite(n) ==
  /\ kind \in {"ws", "ws0"} /\ early = "done" /\ accepted + n <= MaxOut
  /\ peer_got' = peer_got \o Datas(accepted, n)
  /\ accepted' = accepted + n
  /\ UNCHANGED <<kind, early, early_data_len, credit, short, peerVars, inbox, window,
                 early_waker, readVars>>

(* The first poll_write of ws0 puts the start of its data into the request *)
(* and begins the handshake ...                                            *)
EarlyWrite(n) ==
  /\ kind = "ws0" /\ early = "none" /\ accepted + n <= MaxOut
  /\ early' = "handshake"
  /\ early_data_len' = LeastOf(MaxEarly, n)
  /\ UNCHANGED <<kind, accepted, peer_got, credit, short, peerVars, inbox, window,
                 early_waker, readVars>>

(* Mutant: the reader that waits is not woken. *)
EarlyDone_NoWake ==
  /\ early = "handshake"
  /\ early' = "done"
  /\ peer_got' = Datas(0, early_data_len)
  /\ accepted' = early_data_len
  /\ UNCHANGED <<kind, early_data_len, credit, short, peerVars, inbox, window, early_waker,
                 readVars>>

(* ... at whose end that much is reported and a waiting reader woken.      *)
EarlyDone ==
  /\ early = "handshake"
  /\ early' = "done"
  /\ peer_got' = Datas(0, early_data_len)
  /\ accepted' = early_data_len
  /\ early_waker' = FALSE
  /\ UNCHANGED <<kind, early_data_len, credit, short, peerVars, inbox, window, readVars>>

(* The handshake fails: the write returns the error, the reader sleeps on. *)
EarlyFails ==
  /\ early = "handshake"
  /\ early' = "failed"
  /\ UNCHANGED <<kind, early_data_len, accepted, peer_got, credit, short, peerVars, inbox,
                 window, early_waker, readVars>>

(* HttpObfs's first poll_write puts the request in front of its data and   *)
(* writes both; the result of that is dropped, so that data whose write    *)
(* failed after k bytes is reported too.  Later writes are passed on.      *)
ObfsFirst(n) ==
  /\ kind = "obfs" /\ early = "none" /\ accepted + n <= MaxOut
  /\ accepted' = n
  /\ \/ early' = "done" /\ peer_got' = Datas(0, n)
     \/ early' = "failed" /\ \E k \in 0 .. n - 1 : peer_got' = Datas(0, k)
  /\ UNCHANGED <<kind, early_data_len, credit, short, peerVars, inbox, window, early_waker,
                 readVars>>

ObfsWrite(n) ==
  /\ kind = "obfs" /\ early = "done" /\ accepted + n <= MaxOut
  /\ \E k \in 1 .. n :
       /\ peer_got' = peer_got \o Datas(accepted, k)
       /\ accepted' = accepted + k
  /\ UNCHANGED <<kind, early, early_data_len, credit, short, peerVars, inbox, window,
                 early_waker, readVars>>

-----------------------------------------------------------------------------
Response == << <<"line", 0>>, <<"crlf", 1>>, <<"crlf", 2>> >>

PeerMaySend == early = "done" /\ ~peer_closed

(* The peer of simple-obfs answers the request, which is the message it    *)
(* sends first; data may follow in the same segment.                       *)
PeerResponds(n) ==
  /\ kind = "obfs" /\ PeerMaySend /\ message = 0 /\ n <= MaxIn
  /\ message' = 1
  /\ sent' = n
  /\ inbox' = << Response \o Datas(0, n) >>
  /\ UNCHANGED <<kind, writeVars, peer_closed, pinged, packed, window, early_waker, readVars>>

(* The bytes that a read of simple-obfs' stream can return. *)
Segment == IF inbox = <<>> THEN <<>> ELSE inbox[1]

Receive(frame) ==
  /\ Flowing => Len(frame) <= window
  /\ Len(frame) <= MaxFrame
  /\ inbox' = IF kind = "obfs" THEN <<Segment \o frame>> ELSE Append(inbox, frame)
  /\ window' = IF Flowing THEN window - Len(frame) ELSE window

(* n bytes in one DATA frame, or one WebSocket message. *)
PeerSends(n) ==
  /\ PeerMaySend /\ kind # "grpc" /\ (kind = "obfs" => message = 1) /\ sent + n <= MaxIn
  /\ Receive(Datas(sent, n))
  /\ sent' = sent + n
  /\ UNCHANGED <<kind, writeVars, message, peer_closed, pinged, packed, early_waker, readVars>>

(* A frame of gRPC after byte x: t bytes of a message and, if n > 0, the   *)
(* head of one with n bytes and the first k of them.                       *)
Frame(x, t, n, k) ==
  Datas(x, t) \o IF n = 0 THEN <<>> ELSE << <<"head", n>> >> \o Datas(x + t, k)

(* t bytes of the current gRPC message, and if that ends it perhaps the    *)
(* head of one with n bytes and the first k of them, in one frame.         *)
PeerSendsGrpc(t, n, k) ==
  /\ PeerMaySend /\ kind = "grpc" /\ sent + t + n <= MaxIn
  /\ t <= message /\ t + n > 0 /\ k <= n
  /\ n > 0 => t = message
  /\ Receive(Frame(sent, t, n, k))
  /\ sent' = sent + t + k
  /\ message' = IF n = 0 THEN message - t ELSE n - k
  /\ packed' = (packed \/ (t > 0 /\ n > 0))
  /\ UNCHANGED <<kind, writeVars, peer_closed, pinged, early_waker, readVars>>

PeerPings ==
  /\ PeerMaySend /\ kind \in {"ws", "ws0"} /\ ~pinged
  /\ pinged' = TRUE
  /\ inbox' = Append(inbox, << <<"ping", 0>> >>)
  /\ UNCHANGED <<kind, writeVars, sent, message, peer_closed, packed, window, early_waker,
                 readVars>>

PeerCloses ==
  /\ PeerMaySend
  /\ peer_closed' = TRUE
  /\ UNCHANGED <<kind, writeVars, sent, message, pinged, packed, inbox, window, early_waker,
                 readVars>>

-----------------------------------------------------------------------------
(* poll_read before the first write of ws0 leaves its waker. *)
ReadEarly ==
  /\ kind = "ws0" /\ early # "done" /\ ~early_waker
  /\ early_waker' = TRUE
  /\ UNCHANGED <<kind, writeVars, peerVars, inbox, window, readVars>>

Reading == reader = "open" /\ (kind = "obfs" \/ (early = "done" /\ ~early_waker))

(* What is buffered comes first.  gRPC takes it off payload_len; nothing   *)
(* is given back to flow control.                                          *)
ReadBuffered(room) ==
  LET n == LeastOf(room, Len(buffer))
  IN
  /\ Reading /\ buffer # <<>>
  /\ got' = got \o SubSeq(buffer, 1, n)
  /\ buffer' = SubSeq(buffer, n + 1, Len(buffer))
  /\ payload_len' = IF kind = "grpc" THEN (payload_len + U64 - n) % U64 ELSE payload_len
  /\ UNCHANGED <<kind, writeVars, peerVars, inbox, window, early_waker, reader, cramped,
                 bare, obfsVars>>

(* Mutant: the rest of a frame is not kept. *)
ReadFrame_DropsRest(room) ==
  LET data == Head(inbox)
      n    == LeastOf(room, Len(data))
  IN
  /\ Reading /\ kind \notin {"grpc", "obfs"} /\ buffer = <<>> /\ inbox # <<>> /\ data[1][1] # "ping"
  /\ inbox' = Tail(inbox)
  /\ got' = got \o SubSeq(data, 1, n)
  /\ window' = IF Flowing THEN window + n ELSE window
  /\ cramped' = (cramped \/ room < Len(data))
  /\ UNCHANGED <<kind, writeVars, peerVars, early_waker, buffer, payload_len, reader, bare, obfsVars>>

(* A frame or message: what fits is returned, and given back to the        *)
(* peer's window; the rest is buffered.                                    *)
ReadFrame(room) ==
  LET data == Head(inbox)
      n    == LeastOf(room, Len(data))
  IN
  /\ Reading /\ kind \notin {"grpc", "obfs"} /\ buffer = <<>> /\ inbox # <<>> /\ data[1][1] # "ping"
  /\ inbox' = Tail(inbox)
  /\ got' = got \o SubSeq(data, 1, n)
  /\ buffer' = SubSeq(data, n + 1, Len(data))
  /\ window' = IF Flowing THEN window + n ELSE window
  /\ cramped' = (cramped \/ room < Len(data))
  /\ UNCHANGED <<kind, writeVars, peerVars, early_waker, payload_len, reader, bare, obfsVars>>

(* The loop of GrpcStream::poll_read over the units of a frame: heads are  *)
(* taken off, payload is put while there is room, and from the first unit  *)
(* without room on everything is buffered, further heads included.  All of *)
(* the frame is then given back to the window.  When it had a head alone   *)
(* nothing is put, which the caller takes for the end of file.             *)
Unit(s, u) ==
  IF s.rest # <<>> \/ (s.len > 0 /\ s.room = 0) THEN [s EXCEPT !.rest = Append(@, u)]
  ELSE IF s.len = 0 THEN [s EXCEPT !.len = u[2]]
  ELSE [s EXCEPT !.put = Append(@, u), !.len = @ - 1, !.room = @ - 1]

Loop(data, len, room) ==
  LET F[i \in 0 .. Len(data)] ==
        IF i = 0 THEN [put |-> <<>>, rest |-> <<>>, len |-> len, room |-> room]
        ELSE Unit(F[i - 1], data[i])
  IN  F[Len(data)]

(* Mutant: only what was put is given back to the window. *)
GrpcRead_ReleasesPut(room) ==
  LET data == Head(inbox)
      end  == Loop(data, payload_len, room)
  IN
  /\ Reading /\ kind = "grpc" /\ buffer = <<>> /\ inbox # <<>>
  /\ inbox' = Tail(inbox)
  /\ got' = got \o end.put
  /\ buffer' = end.rest
  /\ payload_len' = end.len
  /\ window' = window + Len(end.put)
  /\ reader' = IF end.put = <<>> THEN "eof" ELSE "open"
  /\ cramped' = (cramped \/ end.rest # <<>>)
  /\ bare' = (bare \/ (Len(data) = 1 /\ data[1][1] = "head"))
  /\ UNCHANGED <<kind, writeVars, peerVars, early_waker, obfsVars>>

GrpcRead(room) ==
  LET data == Head(inbox)
      end  == Loop(data, payload_len, room)
  IN
  /\ Reading /\ kind = "grpc" /\ buffer = <<>> /\ inbox # <<>>
  /\ inbox' = Tail(inbox)
  /\ got' = got \o end.put
  /\ buffer' = end.rest
  /\ payload_len' = end.len
  /\ window' = window + Len(data)
  /\ reader' = IF end.put = <<>> THEN "eof" ELSE "open"
  /\ cramped' = (cramped \/ end.rest # <<>>)
  /\ bare' = (bare \/ (Len(data) = 1 /\ data[1][1] = "head"))
  /\ UNCHANGED <<kind, writeVars, peerVars, early_waker, obfsVars>>

(* To a WebSocket a control message is an "invalid message type". *)
ReadPing ==
  /\ Reading /\ kind \in {"ws", "ws0"} /\ buffer = <<>> /\ inbox # <<>> /\ Head(inbox)[1][1] = "ping"
  /\ reader' = "err" /\ inbox' = Tail(inbox)
  /\ UNCHANGED <<kind, writeVars, peerVars, window, early_waker, buffer, payload_len, cramped,
                 bare, got, obfsVars>>

(* Mutant: the end is reported before the buffer has been read. *)
ReadEnd_TooEarly ==
  /\ Reading /\ inbox = <<>> /\ peer_closed
  /\ reader' = "eof"
  /\ UNCHANGED <<kind, writeVars, peerVars, inbox, window, early_waker, buffer, payload_len,
                 cramped, bare, got, obfsVars>>

(* Mutant: the end of an HTTP/2 body is taken for a pause. *)
ReadEnd_NotOfH2 ==
  /\ Reading /\ buffer = <<>> /\ inbox = <<>> /\ peer_closed /\ kind # "h2"
  /\ (kind = "obfs" => stripped)
  /\ reader' = "eof" \/ (~Flowing /\ reader' = "err")
  /\ UNCHANGED <<kind, writeVars, peerVars, inbox, window, early_waker, buffer, payload_len,
                 cramped, bare, got, obfsVars>>

(* The peer has closed, or reset, the stream: Ok and nothing read; for a   *)
(* WebSocket after a Close message, otherwise its end is an error.         *)
ReadEnd ==
  /\ Reading /\ buffer = <<>> /\ inbox = <<>> /\ peer_closed /\ (kind = "obfs" => stripped)
  /\ reader' = "eof" \/ (~Flowing /\ reader' = "err")
  /\ UNCHANGED <<kind, writeVars, peerVars, inbox, window, early_waker, buffer, payload_len,
                 cramped, bare, got, obfsVars>>

(* What a read of k units leaves of the segment. *)
Remaining(k) == IF k = Len(Segment) THEN <<>> ELSE <<SubSeq(Segment, k + 1, Len(Segment))>>

(* Where the blank line that ends the response is in what was read. *)
BlankLines(data) ==
  {i \in 1 .. Len(data) - 1 : data[i] = <<"crlf", 1>> /\ data[i + 1] = <<"crlf", 2>>}

AfterBlank(data) ==
  LET first == CHOOSE i \in BlankLines(data) : \A j \in BlankLines(data) : i <= j
  IN  SubSeq(data, first + 2, Len(data))

(* HttpObfs::poll_read until the response has ended: the blank line is     *)
(* looked for in what one read of the stream has returned.  Without it all *)
(* that was read is dropped; with it what follows is returned, which the   *)
(* caller takes for the end of file when it is nothing.                    *)
ObfsStrip(k) ==
  LET data  == SubSeq(Segment, 1, k)
      found == BlankLines(data) # {}
      ended == \E i \in 1 .. k : data[i] = <<"crlf", 2>>
  IN
  /\ Reading /\ kind = "obfs" /\ ~stripped /\ k <= Len(Segment)
  /\ inbox' = Remaining(k)
  /\ stripped' = found
  /\ got' = IF found THEN got \o AfterBlank(data) ELSE got
  /\ reader' = IF found /\ AfterBlank(data) = <<>> THEN "eof" ELSE "open"
  /\ mangled' = (mangled \/ (ended /\ (~found \/ AfterBlank(data) = <<>>)))
  /\ UNCHANGED <<kind, writeVars, peerVars, window, early_waker, buffer, payload_len, cramped,
                 bare>>

(* Before the blank line an end of file, or an error, is a read like any   *)
(* other, with nothing found: the loop goes round without ever yielding.   *)
ObfsSpins ==
  /\ Reading /\ kind = "obfs" /\ ~stripped /\ inbox = <<>> /\ (peer_closed \/ early = "failed")
  /\ reader' = "spin"
  /\ UNCHANGED <<kind, writeVars, peerVars, inbox, window, early_waker, buffer, payload_len,
                 cramped, bare, got, obfsVars>>

(* After it poll_read is the stream's own. *)
ObfsRead(k) ==
  /\ Reading /\ kind = "obfs" /\ stripped /\ k <= Len(Segment)
  /\ inbox' = Remaining(k)
  /\ got' = got \o SubSeq(Segment, 1, k)
  /\ UNCHANGED <<kind, writeVars, peerVars, window, early_waker, buffer, payload_len, reader,
                 cramped, bare, obfsVars>>

-----------------------------------------------------------------------------
Read ==
  \/ \E room \in 1 .. MaxRoom : ReadBuffered(room) \/ ReadFrame(room) \/ GrpcRead(room)
  \/ \E k \in 1 .. Len(Response) + MaxRoom : ObfsStrip(k) \/ ObfsRead(k)
  \/ ReadPing \/ ReadEnd \/ ObfsSpins

Next ==
  \/ \E n \in 1 .. MaxOffer : H2Write(n) \/ GrpcWrite(n) \/ WsWrite(n) \/ EarlyWrite(n)
                             \/ ObfsFirst(n) \/ ObfsWrite(n)
  \/ EarlyDone \/ EarlyFails \/ PeerReads
  \/ \E n \in 1 .. MaxFrame : PeerSends(n)
  \/ \E t, n, k \in 0 .. MaxFrame : PeerSendsGrpc(t, n, k)
  \/ \E n \in 0 .. MaxFrame : PeerResponds(n)
  \/ PeerPings \/ PeerCloses
  \/ ReadEarly \/ Read

Spec == Init /\ [][Next]_vars

(* A task that reads and is not waiting to be woken reads on. *)
FairSpec == Spec /\ WF_vars(Read)

-----------------------------------------------------------------------------
Units == {"data", "head", "ping", "line", "crlf"} \X Nat

TypeOK ==
  /\ kind \in Kinds /\ early \in {"none", "handshake", "done", "failed"}
  /\ early_data_len \in 0 .. MaxEarly
  /\ accepted \in 0 .. MaxOut /\ peer_got \in Seq(Units) /\ credit \in 0 .. Window
  /\ sent \in 0 .. MaxIn /\ message \in 0 .. MaxIn
  /\ inbox \in Seq(Seq(Units)) /\ window \in 0 .. Window
  /\ buffer \in Seq(Units) /\ payload_len \in 0 .. U64 - 1
  /\ reader \in {"open", "eof", "err", "spin"} /\ got \in Seq(Units)
  /\ \A b \in {short, early_waker, peer_closed, pinged, packed, cramped, bare, stripped,
              mangled} :
       b \in BOOLEAN

(* The peer receives exactly the bytes reported as written, early data     *)
(* included, except from a gRPC stream that was once granted less than it  *)
(* offered: it has sent the whole message and is offered the rest again;   *)
(* and from simple-obfs when its first write has failed: it is reported as *)
(* done, and the stream takes no more.                                     *)
WriteFaithful ==
  \/ kind = "grpc" /\ short
  \/ kind = "obfs" /\ early = "failed"
  \/ peer_got = Datas(0, accepted)

(* poll_read returns the peer's bytes in order, each once, and nothing     *)
(* else, except from a gRPC stream whose peer packs two messages into a    *)
(* frame too large for the reader's buffer: it returns heads as data.      *)
ReadFaithful ==
  \/ kind = "grpc" /\ packed /\ cramped
  \/ Len(got) <= sent /\ got = Datas(0, Len(got))

(* When all that was received has been read the peer's window is open      *)
(* again, except for HTTP/2 streams once a frame was larger than the       *)
(* reader's buffer: what was kept back is never released.                  *)
WindowReturned ==
  inbox = <<>> /\ buffer = <<>> => (window = Window \/ (kind = "h2" /\ cramped))

(* An end of file is reported when every byte of the peer has been read,   *)
(* except by a gRPC stream that reads a message's head alone in its frame, *)
(* or heads as data, and by simple-obfs when it reads the end of the       *)
(* response alone.                                                         *)
EofIsComplete ==
  reader = "eof" =>
    \/ kind = "grpc" /\ (bare \/ (packed /\ cramped))
    \/ kind = "obfs" /\ mangled
    \/ Len(got) = sent

(* What the peer sends is read, by a task that began to read before the    *)
(* early data was written too, unless a ping has ended the stream, a head  *)
(* alone in its frame was taken for the end of it, or simple-obfs has not  *)
(* found the blank line whole and followed by data.                        *)
SentIsRead ==
  \A n \in 1 .. MaxIn :
    sent >= n ~> Len(got) >= n \/ reader = "err" \/ (reader = "eof" /\ bare) \/ mangled

(* A reader learns that the peer has ended the stream, except that of      *)
(* simple-obfs before it has found the end of the response: it spins.      *)
EndIsSeen ==
  peer_closed ~> reader \in {"eof", "err"} \/ (reader = "spin" /\ ~stripped)

-----------------------------------------------------------------------------
(* Inductive invariants.  Of the writers: only ws0 and simple-obfs have a  *)
(* first write to wait for, and nothing is written before it.              *)
WriteInv ==
  /\ accepted \in Nat /\ early_data_len \in Nat
  /\ kind \notin {"ws0", "obfs"} => early = "done"
  /\ early \in {"none", "handshake"} => accepted = 0 /\ peer_got = <<>>
  /\ WriteFaithful

(* Of flow control: what has been received and not read is what the        *)
(* window lacks; f[i] units are in the first i frames.                     *)
Unread(f) ==
  /\ f[0] = 0 /\ f[Len(inbox)] = Window - window
  /\ \A i \in 1 .. Len(inbox) : f[i] = f[i - 1] + Len(inbox[i])

WindowInv ==
  /\ sent \in Nat /\ message \in Nat
  /\ ~Flowing => window = Window
  /\ Flowing => window \in Int /\ inbox \in Seq(Seq(Units))
  /\ Flowing /\ ~(kind = "h2" /\ cramped) =>
       \E f \in [0 .. Len(inbox) -> Int] : Unread(f)

(* Of the readers of whole frames: bytes follow each other from what was   *)
(* returned through the buffer to the last frame; f[i] is the last byte of *)
(* the first i frames.                                                     *)
Plain == kind \in {"h2", "ws", "ws0"}
Ping  == << <<"ping", 0>> >>

Follow(f) ==
  /\ f[0] = Len(got) + Len(buffer) /\ f[Len(inbox)] = sent
  /\ \A i \in 1 .. Len(inbox) :
       \/ inbox[i] = Ping /\ f[i] = f[i - 1]
       \/ f[i] > f[i - 1] /\ inbox[i] = Datas(f[i - 1], f[i] - f[i - 1])

FramesInv ==
  Plain =>
    /\ sent \in Nat /\ inbox \in Seq(Seq(Units)) /\ Len(got) \in Nat /\ Len(buffer) \in Nat
    /\ got = Datas(0, Len(got)) /\ buffer = Datas(Len(got), Len(buffer))
    /\ \E f \in [0 .. Len(inbox) -> 0 .. sent] : Follow(f)
    /\ reader = "eof" => inbox = <<>> /\ buffer = <<>> /\ peer_closed

(* Of gRPC's: the same, and m[i] bytes of a message are to come after the  *)
(* first i frames.                                                         *)
FollowGrpc(f, m) ==
  /\ f[0] = Len(got) + Len(buffer) /\ f[Len(inbox)] = sent
  /\ m[0] + Len(buffer) = payload_len /\ m[Len(inbox)] = message
  /\ \A i \in 1 .. Len(inbox) : \E t, n, k \in 0 .. MaxFrame :
       /\ inbox[i] = Frame(f[i - 1], t, n, k)
       /\ t <= m[i - 1] /\ t + n > 0 /\ k <= n /\ (n > 0 => t = m[i - 1])
       /\ t > 0 /\ n > 0 => packed
       /\ f[i] = f[i - 1] + t + k
       /\ m[i] = IF n = 0 THEN m[i - 1] - t ELSE n - k

GrpcInv ==
  kind = "grpc" /\ ~(packed /\ cramped) =>
    /\ sent \in Nat /\ message \in Nat /\ inbox \in Seq(Seq(Units))
    /\ Len(got) \in Nat /\ Len(buffer) \in Nat
    /\ got = Datas(0, Len(got)) /\ buffer = Datas(Len(got), Len(buffer))
    /\ payload_len \in 0 .. U64 - 1
    /\ \E f \in [0 .. Len(inbox) -> 0 .. sent], m \in [0 .. Len(inbox) -> Nat] : FollowGrpc(f, m)
    /\ reader = "eof" => bare \/ (inbox = <<>> /\ buffer = <<>> /\ peer_closed)

(* Of simple-obfs': what is left is the stream from position p on; the     *)
(* response is over at p = 3.  Reads that cut the blank line, or end with  *)
(* it, return nothing from then on.                                        *)
Piece(p, n) ==
  [i \in 1 .. n |-> IF p + i <= 3 THEN Response[p + i] ELSE <<"data", p + i - 3>>]

LeftFrom(p) == inbox = IF p < 3 + sent THEN <<Piece(p, 3 + sent - p)>> ELSE <<>>

ObfsInv ==
  kind = "obfs" =>
    /\ sent \in Nat /\ message \in {0, 1} /\ buffer = <<>>
    /\ stripped \in BOOLEAN /\ mangled \in BOOLEAN
    /\ message = 0 => sent = 0 /\ inbox = <<>> /\ got = <<>> /\ ~stripped /\ ~mangled
                      /\ reader # "eof"
    /\ message = 1 => \E p \in 0 .. 3 + sent :
         /\ LeftFrom(p)
         /\ ~stripped /\ ~mangled => p <= 2 /\ got = <<>> /\ reader # "eof"
         /\ mangled => p >= 3 /\ got = <<>> /\ (stripped => reader = "eof")
         /\ stripped /\ ~mangled => p >= 3 /\ got = Datas(0, p - 3)
         /\ reader = "eof" /\ ~mangled => p = 3 + sent /\ peer_closed
=============================================================================
