----------------------------- MODULE UdpSession -----------------------------
(***************************************************************************)
(* One SOCKS5 UDP association: Socks5UdpDatagram::run and its NatMap       *)
(* (proxy/socks/socks5.rs), over streams that split_ext has split          *)
(* (proxy/udp.rs).                                                         *)
(*                                                                         *)
(* The association runs as tasks of one thread (actix_rt::spawn): the      *)
(* receiver of the client's datagrams (local_recv), the sender of replies  *)
(* (local_send), the control connection, and for every outbound in use a   *)
(* write and a read task.  An action is what a task does from one await to *)
(* the next, so nothing interleaves with it; if a task blocks the thread,  *)
(* no task runs again.                                                     *)
(***************************************************************************)
EXTENDS Naturals, Sequences, FiniteSets

CONSTANTS
  Targets,    \* where the client sends datagrams
  Outbounds,  \* outbound tags
  Route,      \* Route[t]: the outbound of Router::match_addr
  Fixed,      \* outbounds whose stream sends to the address it was built
              \* for: ConnectedUdpSocket (direct) and VMess
  Pends,      \* outbounds whose poll_send_to may return Pending
  MaxSent,    \* bound: datagrams of the client
  MaxReplies, \* bound: MaxReplies[o] replies come through o
  Capacity    \* of the channel of replies, 32 in the code

ASSUME SessionAssumption ==
  /\ Route \in [Targets -> Outbounds]
  /\ Fixed \subseteq Outbounds /\ Pends \subseteq Outbounds
  /\ MaxSent \in Nat /\ MaxReplies \in [Outbounds -> Nat] /\ Capacity \in Nat \ {0}

VARIABLES
  sent,       \* how many of the client's datagrams have been received
  recv,       \* local_recv: where it is and the datagram it deals with
  addr_set,   \* local_addr_sender has been used
  nat,        \* the outbounds in the NatMap
  watch,      \* each outbound's watch channel: its value and whether the
              \* receiver has yet to see it; first: what it was created with
  writer,     \* each write task: "none", "start", "sending", "wait", "dead"
  reader,     \* each read task: "none", "recv", "put", "dead"
  replies,    \* how many replies each read task has received
  queue,      \* the mpsc channel of replies, as <<outbound, number>>
  local_send, \* "addr", "recv" or "ended"
  control,    \* "open" until the control connection ends
  blocked,    \* the thread waits for a lock that a task of its own holds
  wire,       \* history: what write tasks sent, as [via, to, msg]
  delivered   \* history: the replies sent to the client

outgoing == <<nat, watch, writer, wire>>
incoming == <<reader, replies, queue>>
vars     == <<sent, recv, addr_set, outgoing, incoming, local_send, control,
              blocked, delivered>>

Msgs == [id : 1 .. MaxSent, target : Targets]
NoMsg == [id |-> 0]

Init ==
  /\ sent = 0
  /\ recv = [at |-> "recv", msg |-> NoMsg]
  /\ addr_set = FALSE
  /\ nat = {}
  /\ watch = [o \in Outbounds |-> [first |-> NoMsg, value |-> NoMsg, unseen |-> FALSE]]
  /\ writer = [o \in Outbounds |-> "none"]
  /\ reader = [o \in Outbounds |-> "none"]
  /\ replies = [o \in Outbounds |-> 0]
  /\ queue = <<>>
  /\ local_send = "addr" /\ control = "open" /\ blocked = FALSE
  /\ wire = {} /\ delivered = <<>>

-----------------------------------------------------------------------------
(* Mutant: only the write tasks are aborted. *)
NatDrop_KeepsReaders ==
  /\ nat' = {}
  /\ writer' = [o \in Outbounds |-> IF writer[o] = "none" THEN "none" ELSE "dead"]
  /\ UNCHANGED reader

(* local_recv ends, by an error or aborted: its NatMap is dropped, which   *)
(* aborts the tasks of every outbound and drops the senders.               *)
NatDrop ==
  /\ nat' = {}
  /\ writer' = [o \in Outbounds |-> IF writer[o] = "none" THEN "none" ELSE "dead"]
  /\ reader' = [o \in Outbounds |-> IF reader[o] = "none" THEN "none" ELSE "dead"]

(* Mutant: the receiver is not told of the new value. *)
WatchSend_Silent(o, m) ==
  /\ blocked' = (writer[o] = "sending")
  /\ watch' = IF writer[o] \in {"dead", "sending"} THEN watch ELSE [watch EXCEPT ![o].value = m]

(* tx.send, its result ignored: with the write task gone there is no       *)
(* receiver and nothing happens; while that task waits in send_to it holds *)
(* rx.borrow(), a read lock, and taking the write lock blocks the thread;  *)
(* otherwise the value replaces the last one, seen or not.                 *)
WatchSend(o, m) ==
  /\ blocked' = (writer[o] = "sending")
  /\ watch' = IF writer[o] \in {"dead", "sending"} THEN watch
              ELSE [watch EXCEPT ![o].value = m, ![o].unseen = TRUE]

(* local_recv decodes a datagram, whatever the client has sent next, and   *)
(* routes it by its target: to the outbound in the NatMap, or to one that  *)
(* it has to build first.                                                  *)
LocalRecv(t) ==
  LET m == [id |-> sent + 1, target |-> t]
  IN
  /\ ~blocked /\ recv.at = "recv" /\ sent < MaxSent
  /\ sent' = sent + 1
  /\ addr_set' = TRUE
  /\ IF Route[t] \in nat
     THEN WatchSend(Route[t], m) /\ UNCHANGED recv
     ELSE recv' = [at |-> "build", msg |-> m] /\ UNCHANGED <<watch, blocked>>
  /\ UNCHANGED <<nat, writer, wire, incoming, local_send, control, delivered>>

(* build_udp has succeeded: split_ext, the channel and the two tasks.      *)
LocalRecvBuilt ==
  LET m == recv.msg
      o == Route[m.target]
  IN
  /\ ~blocked /\ recv.at = "build"
  /\ recv' = [at |-> "recv", msg |-> NoMsg]
  /\ nat' = nat \cup {o}
  /\ watch' = [watch EXCEPT ![o] = [first |-> m, value |-> m, unseen |-> FALSE]]
  /\ writer' = [writer EXCEPT ![o] = "start"]
  /\ reader' = [reader EXCEPT ![o] = "recv"]
  /\ UNCHANGED <<sent, addr_set, wire, replies, queue, local_send, control, blocked, delivered>>

(* A datagram that cannot be decoded (a fragment, a bad address), or an    *)
(* outbound that cannot be built (a black hole, an unreachable server).    *)
LocalRecvFails ==
  /\ ~blocked /\ recv.at \in {"recv", "build"}
  /\ recv' = [at |-> "ended", msg |-> NoMsg]
  /\ NatDrop
  /\ UNCHANGED <<sent, addr_set, watch, wire, replies, queue, local_send, control,
                 blocked, delivered>>

-----------------------------------------------------------------------------
(* Mutant: every stream is connected to the target of the last datagram.   *)
Destination_OfLast(o, m) ==
  LET last == CHOOSE x \in {watch[p].value : p \in nat} :
                \A y \in {watch[p].value : p \in nat} : y.id <= x.id
  IN  last.target

(* Where a stream of outbound o sends the datagram m. *)
Destination(o, m) == IF o \in Fixed THEN watch[o].first.target ELSE m.target

Sent(o) == [via |-> o, to |-> Destination(o, watch[o].value), msg |-> watch[o].value]

(* The write task sends what the channel holds: first what it was created  *)
(* with (without marking it seen), then whatever rx.changed() announces,   *)
(* and goes on with a send_to that was pending.  The value cannot change   *)
(* under its borrow.                                                       *)
WriteTask(o) ==
  /\ ~blocked
  /\ writer[o] \in {"start", "sending"} \/ (writer[o] = "wait" /\ watch[o].unseen)
  /\ watch' = IF writer[o] = "wait" THEN [watch EXCEPT ![o].unseen = FALSE] ELSE watch
  /\ \/ writer' = [writer EXCEPT ![o] = "wait"] /\ wire' = wire \cup {Sent(o)}
     \/ /\ o \in Pends /\ writer[o] # "sending"
        /\ writer' = [writer EXCEPT ![o] = "sending"] /\ UNCHANGED wire
  /\ UNCHANGED <<sent, recv, addr_set, nat, incoming, local_send, control, blocked, delivered>>

(* send_to returns an error and the task ends; the NatMap keeps its entry. *)
WriteTaskFails(o) ==
  /\ ~blocked
  /\ writer[o] \in {"start", "sending"} \/ (writer[o] = "wait" /\ watch[o].unseen)
  /\ writer' = [writer EXCEPT ![o] = "dead"]
  /\ UNCHANGED <<sent, recv, addr_set, nat, watch, wire, incoming, local_send, control,
                 blocked, delivered>>

(* The read task receives a reply ... *)
ReadTask(o) ==
  /\ ~blocked /\ reader[o] = "recv" /\ replies[o] < MaxReplies[o]
  /\ replies' = [replies EXCEPT ![o] = @ + 1]
  /\ reader' = [reader EXCEPT ![o] = "put"]
  /\ UNCHANGED <<sent, recv, addr_set, outgoing, queue, local_send, control, blocked, delivered>>

(* Mutant: a reply for which there is no room is dropped (try_send). *)
ReadTaskPut_Drops(o) ==
  /\ ~blocked /\ reader[o] = "put"
  /\ queue' = IF local_send # "ended" /\ Len(queue) < Capacity
              THEN Append(queue, <<o, replies[o]>>) ELSE queue
  /\ reader' = [reader EXCEPT ![o] = "recv"]
  /\ UNCHANGED <<sent, recv, addr_set, outgoing, replies, local_send, control, blocked, delivered>>

(* ... and waits for room in the channel; once local_send has ended the    *)
(* reply is dropped.                                                       *)
ReadTaskPut(o) ==
  /\ ~blocked /\ reader[o] = "put"
  /\ Len(queue) < Capacity \/ local_send = "ended"
  /\ queue' = IF local_send = "ended" THEN queue ELSE Append(queue, <<o, replies[o]>>)
  /\ reader' = [reader EXCEPT ![o] = "recv"]
  /\ UNCHANGED <<sent, recv, addr_set, outgoing, replies, local_send, control, blocked, delivered>>

(* recv_from returns an error and the read task ends. *)
ReadTaskFails(o) ==
  /\ ~blocked /\ reader[o] = "recv"
  /\ reader' = [reader EXCEPT ![o] = "dead"]
  /\ UNCHANGED <<sent, recv, addr_set, outgoing, replies, queue, local_send, control,
                 blocked, delivered>>

-----------------------------------------------------------------------------
(* local_send learns the client's address, or that it never will. *)
LocalSendAddr ==
  /\ ~blocked /\ local_send = "addr"
  /\ \/ addr_set /\ local_send' = "recv"
     \/ ~addr_set /\ recv.at = "ended" /\ local_send' = "ended"
  /\ UNCHANGED <<sent, recv, addr_set, outgoing, incoming, control, blocked, delivered>>

(* It sends the next reply to the client. *)
LocalSend ==
  /\ ~blocked /\ local_send = "recv" /\ queue # <<>>
  /\ delivered' = Append(delivered, Head(queue))
  /\ queue' = Tail(queue)
  /\ UNCHANGED <<sent, recv, addr_set, outgoing, reader, replies, local_send, control, blocked>>

(* It ends with an error of the socket, or when every sender is gone and   *)
(* the channel is empty.                                                   *)
SendersGone ==
  recv.at = "ended" /\ \A o \in Outbounds : reader[o] \in {"none", "dead"}

LocalSendEnds ==
  /\ ~blocked /\ local_send = "recv"
  /\ queue # <<>> \/ SendersGone
  /\ local_send' = "ended"
  /\ queue' = <<>>
  /\ UNCHANGED <<sent, recv, addr_set, outgoing, reader, replies, control, blocked, delivered>>

(* The control connection ends: run aborts local_send and local_recv.      *)
ControlEnds ==
  /\ ~blocked /\ control = "open"
  /\ control' = "ended"
  /\ local_send' = "ended" /\ queue' = <<>>
  /\ recv' = IF recv.at = "ended" THEN recv ELSE [at |-> "aborted", msg |-> NoMsg]
  /\ UNCHANGED <<sent, addr_set, outgoing, reader, replies, blocked, delivered>>

(* The runtime drops the aborted task, and with it the NatMap. *)
DropLocalRecv ==
  /\ ~blocked /\ recv.at = "aborted"
  /\ recv' = [at |-> "ended", msg |-> NoMsg]
  /\ NatDrop
  /\ UNCHANGED <<sent, addr_set, watch, wire, replies, queue, local_send, control,
                 blocked, delivered>>

Next ==
  \/ \E t \in Targets : LocalRecv(t)
  \/ LocalRecvBuilt \/ LocalRecvFails
  \/ \E o \in Outbounds : \/ WriteTask(o) \/ WriteTaskFails(o)
                          \/ ReadTask(o) \/ ReadTaskPut(o) \/ ReadTaskFails(o)
  \/ LocalSendAddr \/ LocalSend \/ LocalSendEnds
  \/ ControlEnds \/ DropLocalRecv

Spec == Init /\ [][Next]_vars

(* The runtime polls every task that can go on; a pending send_to is       *)
(* completed by the peer in the end.  Nothing makes the client send, the   *)
(* remote reply, or the control connection end.                            *)
Fairness ==
  /\ \A o \in Outbounds :
       /\ WF_vars(WriteTask(o) /\ writer'[o] = "wait")
       /\ WF_vars(ReadTaskPut(o))
  /\ WF_vars(LocalRecvBuilt) /\ WF_vars(LocalSendAddr)
  /\ WF_vars(LocalSend \/ LocalSendEnds)
  /\ WF_vars(DropLocalRecv)

FairSpec == Spec /\ Fairness

-----------------------------------------------------------------------------
TypeOK ==
  /\ sent \in 0 .. MaxSent
  /\ recv \in [at : {"recv", "build", "ended", "aborted"}, msg : Msgs \cup {NoMsg}]
  /\ nat \subseteq Outbounds /\ addr_set \in BOOLEAN /\ blocked \in BOOLEAN
  /\ watch \in [Outbounds -> [first : Msgs \cup {NoMsg}, value : Msgs \cup {NoMsg},
                              unseen : BOOLEAN]]
  /\ writer \in [Outbounds -> {"none", "start", "sending", "wait", "dead"}]
  /\ reader \in [Outbounds -> {"none", "recv", "put", "dead"}]
  /\ replies \in [Outbounds -> Nat]
  /\ queue \in Seq(Outbounds \X Nat) /\ Len(queue) <= Capacity
  /\ delivered \in Seq(Outbounds \X Nat)
  /\ local_send \in {"addr", "recv", "ended"} /\ control \in {"open", "ended"}
  /\ wire \subseteq [via : Outbounds, to : Targets, msg : Msgs]

(* No datagram leaves through an outbound that the router does not name    *)
(* for the address it is sent to, also when the stream of that outbound    *)
(* was built for another target or the channel's value was overwritten.    *)
RouteRespected == \A s \in wire : Route[s.to] = s.via

(* The replies of one outbound are handed to the client in the order in    *)
(* which they came, none lost or doubled, however many outbounds share the *)
(* channel and however often it is full, until local_send has ended.       *)
Handed    == delivered \o queue
Passed(o) == IF reader[o] = "put" THEN replies[o] - 1 ELSE replies[o]
RepliesInOrder ==
  local_send # "ended" /\ recv.at # "ended" =>
    \A o \in Outbounds :
      /\ \A k \in 1 .. Passed(o) : \E i \in DOMAIN Handed : Handed[i] = <<o, k>>
      /\ \A i \in DOMAIN Handed : Handed[i][1] = o => Handed[i][2] \in 1 .. Passed(o)
      /\ \A i, j \in DOMAIN Handed :
           i < j /\ Handed[i][1] = o /\ Handed[j][1] = o => Handed[i][2] < Handed[j][2]

(* "Full Cone UDP for Shadowsocks/Trojan/Direct": a datagram goes to the   *)
(* address the client gave it.                                             *)
FullCone == \A s \in wire : s.to = s.msg.target

(* The datagram is sent, a later one took its place, or its task or the    *)
(* session has ended.                                                      *)
Handled(o, i) ==
  \/ \E s \in wire : s.via = o /\ s.msg.id = i
  \/ watch[o].value.id # i
  \/ writer[o] = "dead"
(* The datagram a write task was last given is handled, unless the thread  *)
(* is blocked: rx.borrow() is held across a pending send_to, and tx.send   *)
(* for the next datagram waits for it, without yielding, on that thread.   *)
DatagramIsSentUnlessBlocked ==
  \A o \in Outbounds : \A i \in 1 .. MaxSent :
    watch[o].value.id = i ~> Handled(o, i) \/ blocked

(* When local_recv ends, by an error or because the control connection     *)
(* did, every task of the association ends: the last reply is handed on,   *)
(* the channel closes behind it, and nothing is left running.              *)
SessionEnds ==
  recv.at \in {"ended", "aborted"} ~>
    /\ local_send = "ended"
    /\ \A o \in Outbounds : writer[o] \in {"none", "dead"} /\ reader[o] \in {"none", "dead"}

-----------------------------------------------------------------------------
(* The inductive invariant behind the two.  What a write task can be given *)
(* is a datagram that is routed to its outbound, in every channel that has *)
(* a task; and a task runs only for an outbound in the NatMap, so that     *)
(* none is started over a running one.                                     *)
RoutedTo(o, m) == m \in Msgs /\ Route[m.target] = o

WatchInv ==
  \A o \in Outbounds :
    writer[o] # "none" => RoutedTo(o, watch[o].first) /\ RoutedTo(o, watch[o].value)

NatInv ==
  /\ recv.at \in {"recv", "build"} =>
       \A o \in Outbounds \ nat : reader[o] = "none" /\ writer[o] = "none"
  /\ recv.at = "build" => recv.msg \in Msgs /\ Route[recv.msg.target] \notin nat

RepliesInv == \A o \in Outbounds : reader[o] = "put" => replies[o] > 0

IInv == /\ TypeOK /\ WatchInv /\ NatInv /\ RepliesInv
        /\ RouteRespected /\ RepliesInOrder
=============================================================================
