----------------------------- MODULE UdpProofs -----------------------------
(***************************************************************************)
(* Proofs about a SOCKS5 UDP association, for every set of targets and     *)
(* outbounds, every routing and every size of the channel of replies.      *)
(***************************************************************************)
EXTENDS UdpSession, SequenceTheorems, TLAPS

(* A datagram that local_recv has just decoded. *)
LEMMA NewMsg ==
  ASSUME sent \in 0 .. MaxSent, sent < MaxSent, NEW t \in Targets
  PROVE  /\ [id |-> sent + 1, target |-> t] \in Msgs
         /\ RoutedTo(Route[t], [id |-> sent + 1, target |-> t])
<1>1. MaxSent \in Nat
  BY SessionAssumption
<1>2. sent + 1 \in 1 .. MaxSent
  BY <1>1
<1> QED
  BY <1>2 DEF Msgs, RoutedTo

(* What a channel holds. *)
Channels == [first : Msgs \cup {NoMsg}, value : Msgs \cup {NoMsg}, unseen : BOOLEAN]

LEMMA ChannelFields ==
  ASSUME watch \in [Outbounds -> Channels], NEW o \in Outbounds
  PROVE  /\ watch[o].first \in Msgs \cup {NoMsg} /\ watch[o].value \in Msgs \cup {NoMsg}
         /\ watch[o].unseen \in BOOLEAN
<1>1. watch[o] \in Channels
  OBVIOUS
<1> QED
  BY <1>1 DEF Channels

LEMMA ChannelType ==
  ASSUME TypeOK
  PROVE  watch \in [Outbounds -> Channels]
BY DEF TypeOK, Channels

(* What tx.send does to the channel of its outbound, and to no other. *)
LEMMA WatchSendEffect ==
  ASSUME watch \in [Outbounds -> Channels], NEW o \in Outbounds, NEW m \in Msgs, WatchSend(o, m)
  PROVE  /\ watch' \in [Outbounds -> Channels]
         /\ \A p \in Outbounds : watch'[p].first = watch[p].first
         /\ \A p \in Outbounds : watch'[p].value = watch[p].value \/ (p = o /\ watch'[p].value = m)
<1>1. CASE writer[o] \in {"dead", "sending"}
  <2>1. watch' = watch
    BY <1>1 DEF WatchSend
  <2> QED
    BY <2>1
<1>2. CASE writer[o] \notin {"dead", "sending"}
  <2>1. watch' = [watch EXCEPT ![o].value = m, ![o].unseen = TRUE]
    BY <1>2 DEF WatchSend
  <2>2. \A p \in Outbounds : p # o => watch'[p] = watch[p]
    BY <2>1
  <2>3. watch[o] \in Channels
    OBVIOUS
  <2>4. watch'[o] = [first |-> watch[o].first, value |-> m, unseen |-> TRUE]
    BY <2>1, <2>3 DEF Channels
  <2>5. watch[o].first \in Msgs \cup {NoMsg}
    BY ChannelFields
  <2>6. watch'[o] \in Channels /\ watch'[o].first = watch[o].first /\ watch'[o].value = m
    BY <2>4, <2>5 DEF Channels
  <2>7. watch' \in [Outbounds -> Channels]
    <3>1. watch' = [p \in Outbounds |-> watch'[p]]
      BY <2>1
    <3>2. \A p \in Outbounds : watch'[p] \in Channels
      BY <2>2, <2>6
    <3> QED
      BY <3>1, <3>2
  <2>8. ASSUME NEW p \in Outbounds
        PROVE  /\ watch'[p].first = watch[p].first
               /\ watch'[p].value = watch[p].value \/ (p = o /\ watch'[p].value = m)
    <3>1. CASE p = o
      BY <3>1, <2>6
    <3>2. CASE p # o
      <4>1. watch'[p] = watch[p]
        BY <3>2, <2>2
      <4> QED
        BY <4>1
    <3> QED
      BY <3>1, <3>2
  <2> QED
    BY <2>7, <2>8
<1> QED
  BY <1>1, <1>2

-----------------------------------------------------------------------------
(* What the replies' part of the invariant depends on. *)
LEMMA RepliesFrame ==
  ASSUME IInv, UNCHANGED <<delivered, queue, replies>>,
         \A o \in Outbounds : reader'[o] = "put" <=> reader[o] = "put",
         local_send' # "ended" /\ recv'.at # "ended" => local_send # "ended" /\ recv.at # "ended"
  PROVE  RepliesInOrder' /\ RepliesInv'
<1>1. RepliesInv'
  BY DEF IInv, RepliesInv
<1>2. Handed' = Handed /\ \A o \in Outbounds : Passed(o)' = Passed(o)
  BY DEF Handed, Passed
<1>3. RepliesInOrder'
  <2> SUFFICES ASSUME local_send' # "ended", recv'.at # "ended", NEW o \in Outbounds
               PROVE  /\ \A k \in 1 .. Passed(o) : \E i \in DOMAIN Handed : Handed[i] = <<o, k>>
                      /\ \A i \in DOMAIN Handed : Handed[i][1] = o => Handed[i][2] \in 1 .. Passed(o)
                      /\ \A i, j \in DOMAIN Handed :
                           i < j /\ Handed[i][1] = o /\ Handed[j][1] = o => Handed[i][2] < Handed[j][2]
    BY <1>2 DEF RepliesInOrder
  <2> QED
    BY DEF IInv, RepliesInOrder
<1> QED
  BY <1>1, <1>3

(* Nothing is said of replies once one of the two has ended. *)
LEMMA RepliesEnded ==
  ASSUME local_send' = "ended" \/ recv'.at = "ended"
  PROVE  RepliesInOrder'
BY DEF RepliesInOrder

(* local_recv's steps. *)
LEMMA LocalRecvInv ==
  ASSUME IInv, NEW t \in Targets, LocalRecv(t)
  PROVE  IInv'
<1> DEFINE m == [id |-> sent + 1, target |-> t]
<1>0. TypeOK /\ WatchInv /\ NatInv /\ RouteRespected
  BY DEF IInv
<1>1. /\ recv.at = "recv" /\ sent < MaxSent /\ sent' = sent + 1 /\ addr_set' = TRUE
      /\ UNCHANGED <<nat, writer, wire, reader, replies, queue, local_send, control, delivered>>
  BY DEF LocalRecv, incoming
<1>2. m \in Msgs /\ RoutedTo(Route[t], m) /\ Route[t] \in Outbounds
  BY <1>0, <1>1, NewMsg, SessionAssumption DEF TypeOK
<1>3. m.target = t
  OBVIOUS
<1> HIDE DEF m
<1>4. sent' \in 0 .. MaxSent /\ addr_set' \in BOOLEAN
  <2>1. MaxSent \in Nat /\ sent \in 0 .. MaxSent
    BY <1>0, SessionAssumption DEF TypeOK
  <2> QED
    BY <2>1, <1>1
<1>5. watch \in [Outbounds -> Channels]
  BY <1>0, ChannelType
<1>6. CASE Route[t] \in nat
  <2>1. WatchSend(Route[t], m) /\ UNCHANGED recv
    BY <1>6 DEF LocalRecv, m
  <2>2. /\ watch' \in [Outbounds -> Channels]
        /\ \A p \in Outbounds : watch'[p].first = watch[p].first
        /\ \A p \in Outbounds : watch'[p].value = watch[p].value \/ (p = Route[t] /\ watch'[p].value = m)
    BY <2>1, <1>2, <1>5, WatchSendEffect
  <2>3. blocked' \in BOOLEAN
    BY <2>1 DEF WatchSend
  <2>4. TypeOK'
    BY <1>0, <1>1, <1>4, <2>1, <2>2, <2>3 DEF TypeOK, Channels
  <2>5. WatchInv'
    BY <1>0, <1>1, <1>2, <2>2 DEF WatchInv, RoutedTo
  <2>6. NatInv' /\ RouteRespected'
    BY <1>0, <1>1, <2>1 DEF NatInv, RouteRespected
  <2>7. RepliesInOrder' /\ RepliesInv'
    BY <1>1, <2>1, RepliesFrame
  <2> QED
    BY <2>4, <2>5, <2>6, <2>7 DEF IInv
<1>7. CASE Route[t] \notin nat
  <2>1. recv' = [at |-> "build", msg |-> m] /\ UNCHANGED <<watch, blocked>>
    BY <1>7 DEF LocalRecv, m
  <2>2. recv'.at = "build" /\ recv'.msg = m /\ recv' \in [at : {"recv", "build", "ended", "aborted"}, msg : Msgs \cup {NoMsg}]
    BY <2>1, <1>2
  <2>3. TypeOK'
    BY <1>0, <1>1, <1>4, <2>1, <2>2 DEF TypeOK
  <2>4. WatchInv' /\ NatInv' /\ RouteRespected'
    BY <1>0, <1>1, <1>2, <1>3, <1>7, <2>1, <2>2 DEF WatchInv, NatInv, RouteRespected
  <2>5. RepliesInOrder' /\ RepliesInv'
    BY <1>1, <2>2, RepliesFrame
  <2> QED
    BY <2>3, <2>4, <2>5 DEF IInv
<1> QED
  BY <1>6, <1>7

LEMMA LocalRecvBuiltInv ==
  ASSUME IInv, LocalRecvBuilt
  PROVE  IInv'
<1>0. TypeOK /\ WatchInv /\ NatInv /\ RouteRespected
  BY DEF IInv
<1> DEFINE m == recv.msg
           o == Route[m.target]
           c == [first |-> m, value |-> m, unseen |-> FALSE]
<1>1. /\ recv.at = "build" /\ recv' = [at |-> "recv", msg |-> NoMsg]
      /\ nat' = nat \cup {o} /\ watch' = [watch EXCEPT ![o] = c]
      /\ writer' = [writer EXCEPT ![o] = "start"] /\ reader' = [reader EXCEPT ![o] = "recv"]
      /\ UNCHANGED <<sent, addr_set, wire, replies, queue, local_send, control, blocked, delivered>>
  BY DEF LocalRecvBuilt
<1>2. m \in Msgs /\ o \notin nat
  BY <1>0, <1>1 DEF NatInv
<1>3. m.target \in Targets
  BY <1>2 DEF Msgs
<1>4. o \in Outbounds
  BY <1>3, SessionAssumption
<1>5. c \in Channels /\ c.first = m /\ c.value = m
  BY <1>2 DEF Channels
<1>6. RoutedTo(o, m)
  BY <1>2 DEF RoutedTo
<1> HIDE DEF m, o, c
<1>7. watch \in [Outbounds -> Channels] /\ watch' \in [Outbounds -> Channels]
  BY <1>0, <1>1, <1>4, <1>5, ChannelType
<1>8. recv'.at = "recv" /\ recv' \in [at : {"recv", "build", "ended", "aborted"}, msg : Msgs \cup {NoMsg}]
  BY <1>1
<1>9. TypeOK'
  BY <1>0, <1>1, <1>4, <1>7, <1>8 DEF TypeOK, Channels
<1>10. WatchInv'
  <2> SUFFICES ASSUME NEW p \in Outbounds, writer'[p] # "none"
               PROVE  RoutedTo(p, watch[p].first)' /\ RoutedTo(p, watch[p].value)'
    BY DEF WatchInv
  <2>1. CASE p = o
    <3>1. watch'[p] = c
      BY <2>1, <1>1, <1>4, <1>7
    <3> QED
      BY <3>1, <2>1, <1>5, <1>6 DEF RoutedTo
  <2>2. CASE p # o
    <3>1. watch'[p] = watch[p] /\ writer'[p] = writer[p]
      BY <2>2, <1>0, <1>1, <1>7 DEF TypeOK
    <3> QED
      BY <3>1, <1>0 DEF WatchInv, RoutedTo
  <2> QED
    BY <2>1, <2>2
<1>11. NatInv' /\ RouteRespected'
  BY <1>0, <1>1, <1>8 DEF NatInv, RouteRespected, TypeOK
<1>12. RepliesInOrder' /\ RepliesInv'
  <2>1. reader[o] = "none"
    BY <1>0, <1>1, <1>2, <1>4 DEF NatInv
  <2>2. \A p \in Outbounds : reader'[p] = "put" <=> reader[p] = "put"
    BY <2>1, <1>0, <1>1, <1>4 DEF TypeOK
  <2> QED
    BY <2>2, <1>1, <1>8, RepliesFrame
<1> QED
  BY <1>9, <1>10, <1>11, <1>12 DEF IInv

(* The end of local_recv, by an error or aborted. *)
LEMMA NatDropInv ==
  ASSUME IInv, LocalRecvFails \/ DropLocalRecv
  PROVE  IInv'
<1>0. TypeOK /\ WatchInv /\ NatInv /\ RouteRespected /\ RepliesInv
  BY DEF IInv
<1>1. /\ recv' = [at |-> "ended", msg |-> NoMsg] /\ NatDrop
      /\ UNCHANGED <<sent, addr_set, watch, wire, replies, queue, local_send, control, blocked, delivered>>
  BY DEF LocalRecvFails, DropLocalRecv
<1>2. recv'.at = "ended" /\ recv' \in [at : {"recv", "build", "ended", "aborted"}, msg : Msgs \cup {NoMsg}]
  BY <1>1
<1>3. TypeOK'
  BY <1>0, <1>1, <1>2 DEF TypeOK, NatDrop
<1>4. WatchInv' /\ NatInv' /\ RouteRespected'
  BY <1>0, <1>1, <1>2 DEF WatchInv, NatInv, RouteRespected, NatDrop, RoutedTo
<1>5. RepliesInv' /\ RepliesInOrder'
  BY <1>0, <1>1, <1>2, RepliesEnded DEF RepliesInv, NatDrop
<1> QED
  BY <1>3, <1>4, <1>5 DEF IInv

(* The write task's steps: what it sends is routed to its outbound, also   *)
(* when its stream is fixed to the target it was built for.                *)
LEMMA WriteTaskInv ==
  ASSUME IInv, NEW o \in Outbounds, WriteTask(o)
  PROVE  IInv'
<1>0. TypeOK /\ WatchInv /\ NatInv /\ RouteRespected
  BY DEF IInv
<1>1. /\ writer[o] \in {"start", "sending", "wait"}
      /\ watch' = IF writer[o] = "wait" THEN [watch EXCEPT ![o].unseen = FALSE] ELSE watch
      /\ \/ writer' = [writer EXCEPT ![o] = "wait"] /\ wire' = wire \cup {Sent(o)}
         \/ writer' = [writer EXCEPT ![o] = "sending"] /\ UNCHANGED wire
      /\ UNCHANGED <<sent, recv, addr_set, nat, reader, replies, queue, local_send, control,
                     blocked, delivered>>
  BY DEF WriteTask, incoming
<1>2. watch \in [Outbounds -> Channels]
  BY <1>0, ChannelType
<1>3. RoutedTo(o, watch[o].first) /\ RoutedTo(o, watch[o].value)
  BY <1>0, <1>1 DEF WatchInv
<1>4. /\ watch' \in [Outbounds -> Channels]
      /\ \A p \in Outbounds : watch'[p].first = watch[p].first /\ watch'[p].value = watch[p].value
  <2>1. CASE writer[o] # "wait"
    BY <2>1, <1>1, <1>2
  <2>2. CASE writer[o] = "wait"
    <3>1. watch' = [watch EXCEPT ![o].unseen = FALSE]
      BY <2>2, <1>1
    <3>2. watch[o] \in Channels
      BY <1>2
    <3>3. watch'[o] = [first |-> watch[o].first, value |-> watch[o].value, unseen |-> FALSE]
      BY <3>1, <3>2, <1>2 DEF Channels
    <3>4. watch[o].first \in Msgs \cup {NoMsg} /\ watch[o].value \in Msgs \cup {NoMsg}
      BY <1>2, ChannelFields
    <3>5. watch'[o] \in Channels /\ watch'[o].first = watch[o].first /\ watch'[o].value = watch[o].value
      BY <3>3, <3>4 DEF Channels
    <3>6. \A p \in Outbounds : p # o => watch'[p] = watch[p]
      BY <3>1, <1>2
    <3>7. watch' = [p \in Outbounds |-> watch'[p]]
      BY <3>1, <1>2
    <3>8. \A p \in Outbounds : watch'[p] \in Channels
      BY <3>5, <3>6, <1>2
    <3>9. \A p \in Outbounds : watch'[p].first = watch[p].first /\ watch'[p].value = watch[p].value
      BY <3>5, <3>6
    <3> QED
      BY <3>7, <3>8, <3>9
  <2> QED
    BY <2>1, <2>2
<1>5. Sent(o) \in [via : Outbounds, to : Targets, msg : Msgs] /\ Route[Sent(o).to] = Sent(o).via
  <2> DEFINE d == Destination(o, watch[o].value)
  <2>1. d \in Targets /\ Route[d] = o /\ watch[o].value \in Msgs
    <3>1. \A m \in Msgs : m.target \in Targets
      BY DEF Msgs
    <3> QED
      BY <3>1, <1>3 DEF Destination, RoutedTo
  <2>2. Sent(o) = [via |-> o, to |-> d, msg |-> watch[o].value]
    BY DEF Sent
  <2> HIDE DEF d
  <2> QED
    BY <2>1, <2>2
<1>6. wire' \subseteq [via : Outbounds, to : Targets, msg : Msgs] /\ RouteRespected'
  <2>1. wire \subseteq [via : Outbounds, to : Targets, msg : Msgs] /\ wire' \subseteq wire \cup {Sent(o)}
    BY <1>0, <1>1 DEF TypeOK
  <2> QED
    BY <2>1, <1>0, <1>5 DEF RouteRespected
<1>7. /\ writer' \in [Outbounds -> {"none", "start", "sending", "wait", "dead"}]
      /\ \A p \in Outbounds : writer'[p] # "none" <=> writer[p] # "none"
  BY <1>0, <1>1 DEF TypeOK
<1>8. TypeOK'
  BY <1>0, <1>1, <1>4, <1>6, <1>7 DEF TypeOK, Channels
<1>9. WatchInv' /\ NatInv'
  BY <1>0, <1>1, <1>4, <1>7 DEF WatchInv, NatInv, RoutedTo
<1>10. RepliesInOrder' /\ RepliesInv'
  BY <1>1, RepliesFrame
<1> QED
  BY <1>6, <1>8, <1>9, <1>10 DEF IInv

(* A task that ends. *)
LEMMA TaskFailsInv ==
  ASSUME IInv, NEW o \in Outbounds, WriteTaskFails(o) \/ ReadTaskFails(o)
  PROVE  IInv'
<1>0. TypeOK /\ WatchInv /\ NatInv /\ RouteRespected
  BY DEF IInv
<1>1. CASE WriteTaskFails(o)
  <2>1. /\ writer[o] # "none" /\ writer' = [writer EXCEPT ![o] = "dead"]
        /\ UNCHANGED <<sent, recv, addr_set, nat, watch, wire, reader, replies, queue, local_send, control,
                       blocked, delivered>>
    BY <1>1 DEF WriteTaskFails, incoming
  <2>2. TypeOK'
    BY <1>0, <2>1 DEF TypeOK
  <2>3. WatchInv' /\ NatInv' /\ RouteRespected'
    BY <1>0, <2>1 DEF WatchInv, NatInv, RouteRespected, TypeOK, RoutedTo
  <2>4. RepliesInOrder' /\ RepliesInv'
    BY <2>1, RepliesFrame
  <2> QED
    BY <2>2, <2>3, <2>4 DEF IInv
<1>2. CASE ReadTaskFails(o)
  <2>1. /\ reader[o] = "recv" /\ reader' = [reader EXCEPT ![o] = "dead"]
        /\ UNCHANGED <<sent, recv, addr_set, nat, watch, wire, writer, replies, queue, local_send, control,
                       blocked, delivered>>
    BY <1>2 DEF ReadTaskFails, outgoing
  <2>2. TypeOK'
    BY <1>0, <2>1 DEF TypeOK
  <2>3. WatchInv' /\ NatInv' /\ RouteRespected'
    BY <1>0, <2>1 DEF WatchInv, NatInv, RouteRespected, TypeOK, RoutedTo
  <2>4. RepliesInOrder' /\ RepliesInv'
    <3>1. \A p \in Outbounds : reader'[p] = "put" <=> reader[p] = "put"
      BY <1>0, <2>1 DEF TypeOK
    <3> QED
      BY <2>1, <3>1, RepliesFrame
  <2> QED
    BY <2>2, <2>3, <2>4 DEF IInv
<1> QED
  BY <1>1, <1>2

-----------------------------------------------------------------------------
(* Replies.  All that was handed on, as one sequence. *)
LEMMA HandedType ==
  ASSUME TypeOK
  PROVE  Handed \in Seq(Outbounds \X Nat) /\ DOMAIN Handed = 1 .. Len(Handed) /\ Len(Handed) \in Nat
<1>1. delivered \in Seq(Outbounds \X Nat) /\ queue \in Seq(Outbounds \X Nat)
  BY DEF TypeOK
<1> DEFINE R == Outbounds \X Nat
<1>2. delivered \in Seq(R) /\ queue \in Seq(R)
  BY <1>1
<1> HIDE DEF R
<1>3. Handed \in Seq(R)
  BY <1>2, ConcatProperties DEF Handed
<1>4. DOMAIN Handed = 1 .. Len(Handed) /\ Len(Handed) \in Nat
  BY <1>3
<1> QED
  BY <1>3, <1>4 DEF R

(* The read task has a reply: it is not yet handed on. *)
LEMMA ReadTaskInv ==
  ASSUME IInv, NEW o \in Outbounds, ReadTask(o)
  PROVE  IInv'
<1>0. TypeOK /\ WatchInv /\ NatInv /\ RouteRespected /\ RepliesInv /\ RepliesInOrder
  BY DEF IInv
<1>1. /\ reader[o] = "recv" /\ replies' = [replies EXCEPT ![o] = @ + 1]
      /\ reader' = [reader EXCEPT ![o] = "put"]
      /\ UNCHANGED <<sent, recv, addr_set, nat, watch, writer, wire, queue, local_send, control,
                     blocked, delivered>>
  BY DEF ReadTask, outgoing
<1>2. replies[o] \in Nat /\ replies \in [Outbounds -> Nat]
  BY <1>0 DEF TypeOK
<1>3. TypeOK'
  <2>1. replies' \in [Outbounds -> Nat] /\ reader' \in [Outbounds -> {"none", "recv", "put", "dead"}]
    BY <1>0, <1>1, <1>2 DEF TypeOK
  <2> QED
    BY <1>0, <1>1, <2>1 DEF TypeOK
<1>4. WatchInv' /\ NatInv' /\ RouteRespected'
  BY <1>0, <1>1 DEF WatchInv, NatInv, RouteRespected, TypeOK, RoutedTo
<1>5. RepliesInv'
  BY <1>0, <1>1, <1>2 DEF RepliesInv, TypeOK
<1>6. \A p \in Outbounds : Passed(p)' = Passed(p)
  <2> SUFFICES ASSUME NEW p \in Outbounds PROVE Passed(p)' = Passed(p)
    OBVIOUS
  <2>1. CASE p = o
    BY <2>1, <1>0, <1>1, <1>2 DEF Passed, TypeOK
  <2>2. CASE p # o
    BY <2>2, <1>0, <1>1, <1>2 DEF Passed, TypeOK
  <2> QED
    BY <2>1, <2>2
<1>7. RepliesInOrder'
  <2>1. Handed' = Handed
    BY <1>1 DEF Handed
  <2> QED
    BY <1>0, <1>1, <1>6, <2>1 DEF RepliesInOrder
<1> QED
  BY <1>3, <1>4, <1>5, <1>7 DEF IInv

(* It hands the reply on: the reply is the last of its outbound.           *)
LEMMA ReadTaskPutInv ==
  ASSUME IInv, NEW o \in Outbounds, ReadTaskPut(o)
  PROVE  IInv'
<1>0. TypeOK /\ WatchInv /\ NatInv /\ RouteRespected /\ RepliesInv /\ RepliesInOrder
  BY DEF IInv
<1> DEFINE r == <<o, replies[o]>>
           n == Len(Handed)
<1>1. /\ reader[o] = "put" /\ (Len(queue) < Capacity \/ local_send = "ended")
      /\ queue' = IF local_send = "ended" THEN queue ELSE Append(queue, r)
      /\ reader' = [reader EXCEPT ![o] = "recv"]
      /\ UNCHANGED <<sent, recv, addr_set, nat, watch, writer, wire, replies, local_send, control,
                     blocked, delivered>>
  BY DEF ReadTaskPut, outgoing
<1>2. replies[o] \in Nat /\ replies[o] > 0 /\ replies \in [Outbounds -> Nat]
  BY <1>0, <1>1 DEF TypeOK, RepliesInv
<1>3. r \in Outbounds \X Nat /\ r[1] = o /\ r[2] = replies[o]
  BY <1>2
<1> HIDE DEF r
<1>4. queue' \in Seq(Outbounds \X Nat) /\ Len(queue') <= Capacity
  <2> DEFINE R == Outbounds \X Nat
  <2>1. queue \in Seq(R) /\ r \in R /\ Len(queue) <= Capacity /\ Capacity \in Nat
    BY <1>0, <1>3, SessionAssumption DEF TypeOK
  <2> HIDE DEF R
  <2>2. Append(queue, r) \in Seq(R) /\ Len(Append(queue, r)) = Len(queue) + 1 /\ Len(queue) \in Nat
    BY <2>1, AppendProperties
  <2>3. queue' \in Seq(R) /\ Len(queue') <= Capacity
    BY <1>1, <2>1, <2>2
  <2> QED
    BY <2>3 DEF R
<1>5. TypeOK'
  <2>1. reader' \in [Outbounds -> {"none", "recv", "put", "dead"}]
    BY <1>0, <1>1 DEF TypeOK
  <2> QED
    BY <1>0, <1>1, <1>4, <2>1 DEF TypeOK
<1>6. WatchInv' /\ NatInv' /\ RouteRespected' /\ RepliesInv'
  BY <1>0, <1>1 DEF WatchInv, NatInv, RouteRespected, TypeOK, RoutedTo, RepliesInv
<1>7. RepliesInOrder'
  <2> SUFFICES ASSUME local_send # "ended", recv.at # "ended", NEW p \in Outbounds
               PROVE  ( /\ \A k \in 1 .. Passed(p) : \E i \in DOMAIN Handed : Handed[i] = <<p, k>>
                        /\ \A i \in DOMAIN Handed : Handed[i][1] = p => Handed[i][2] \in 1 .. Passed(p)
                        /\ \A i, j \in DOMAIN Handed :
                             i < j /\ Handed[i][1] = p /\ Handed[j][1] = p => Handed[i][2] < Handed[j][2] )'
    BY <1>1 DEF RepliesInOrder
  <2>1. /\ \A k \in 1 .. Passed(p) : \E i \in DOMAIN Handed : Handed[i] = <<p, k>>
        /\ \A i \in DOMAIN Handed : Handed[i][1] = p => Handed[i][2] \in 1 .. Passed(p)
        /\ \A i, j \in DOMAIN Handed :
             i < j /\ Handed[i][1] = p /\ Handed[j][1] = p => Handed[i][2] < Handed[j][2]
    BY <1>0 DEF RepliesInOrder
  <2>2. n \in Nat /\ Handed \in Seq(Outbounds \X Nat) /\ DOMAIN Handed = 1 .. n
    BY <1>0, HandedType
  <2> HIDE DEF n
  <2>3. /\ DOMAIN Handed' = 1 .. n + 1 /\ Handed'[n + 1] = r
        /\ \A i \in 1 .. n : Handed'[i] = Handed[i]
    <3> DEFINE R == Outbounds \X Nat
    <3>1. delivered \in Seq(R) /\ queue \in Seq(R) /\ r \in R /\ Handed \in Seq(R)
      BY <1>0, <1>3, <2>2 DEF TypeOK
    <3> HIDE DEF R
    <3>2. Handed' = delivered \o Append(queue, r)
      BY <1>1 DEF Handed
    <3>3. delivered \o Append(queue, r) = Append(Handed, r)
      BY <3>1 DEF Handed
    <3>4. /\ Append(Handed, r) \in Seq(R) /\ Len(Append(Handed, r)) = n + 1 /\ Append(Handed, r)[n + 1] = r
          /\ \A i \in 1 .. n : Append(Handed, r)[i] = Handed[i]
      BY <3>1, AppendProperties DEF n
    <3>5. DOMAIN Append(Handed, r) = 1 .. n + 1
      BY <3>4
    <3> QED
      BY <3>2, <3>3, <3>4, <3>5
  <2>4. \A i \in 1 .. n : i \in 1 .. n + 1 /\ i < n + 1
    BY <2>2
  <2>5. n + 1 \in 1 .. n + 1 /\ \A i \in 1 .. n + 1 : i = n + 1 \/ i \in 1 .. n
    BY <2>2
  <2>6. Passed(p) \in Nat
    BY <1>0 DEF Passed, TypeOK, RepliesInv
  <2>7. CASE p = o
    <3>1. Passed(p) = replies[o] - 1 /\ Passed(p)' = replies[o] /\ Passed(p)' = Passed(p) + 1
      BY <2>7, <1>0, <1>1, <1>2 DEF Passed, TypeOK
    <3>2. \A k \in 1 .. Passed(p)' : \E i \in DOMAIN Handed' : Handed'[i] = <<p, k>>
      <4> SUFFICES ASSUME NEW k \in 1 .. Passed(p)' PROVE \E i \in DOMAIN Handed' : Handed'[i] = <<p, k>>
        OBVIOUS
      <4>1. CASE k = replies[o]
        <5>1. Handed'[n + 1] = <<p, k>>
          BY <4>1, <2>3, <2>7 DEF r
        <5> QED
          BY <5>1, <2>3, <2>5
      <4>2. CASE k # replies[o]
        <5>1. k \in 1 .. Passed(p)
          BY <4>2, <3>1, <1>2
        <5>2. PICK i \in DOMAIN Handed : Handed[i] = <<p, k>>
          BY <5>1, <2>1
        <5> QED
          BY <5>2, <2>2, <2>3, <2>4
      <4> QED
        BY <4>1, <4>2
    <3>3. \A i \in DOMAIN Handed' : Handed'[i][1] = p => Handed'[i][2] \in 1 .. Passed(p)'
      <4> SUFFICES ASSUME NEW i \in 1 .. n + 1, Handed'[i][1] = p PROVE Handed'[i][2] \in 1 .. Passed(p)'
        BY <2>3
      <4>1. CASE i = n + 1
        <5>1. Handed'[i][2] = replies[o]
          BY <4>1, <2>3, <1>3
        <5> QED
          BY <5>1, <3>1, <1>2
      <4>2. CASE i \in 1 .. n
        <5>1. Handed[i][2] \in 1 .. Passed(p)
          BY <4>2, <2>1, <2>2, <2>3
        <5>2. Handed[i][2] \in 1 .. Passed(p)'
          BY <5>1, <3>1, <2>6
        <5> QED
          BY <4>2, <5>2, <2>3
      <4> QED
        BY <4>1, <4>2, <2>5
    <3>4. \A i, j \in DOMAIN Handed' :
            i < j /\ Handed'[i][1] = p /\ Handed'[j][1] = p => Handed'[i][2] < Handed'[j][2]
      <4> SUFFICES ASSUME NEW i \in 1 .. n + 1, NEW j \in 1 .. n + 1, i < j, Handed'[i][1] = p, Handed'[j][1] = p
                   PROVE  Handed'[i][2] < Handed'[j][2]
        BY <2>3
      <4>1. i \in 1 .. n
        BY <2>2
      <4>2. Handed[i][1] = p /\ Handed[i][2] \in 1 .. Passed(p) /\ Handed'[i][2] = Handed[i][2]
        BY <4>1, <2>1, <2>2, <2>3
      <4>3. CASE j = n + 1
        <5>1. Handed'[j][2] = replies[o]
          BY <4>3, <2>3, <1>3
        <5>2. Handed[i][2] < replies[o]
          BY <4>2, <3>1, <1>2, <2>6
        <5> QED
          BY <4>2, <5>1, <5>2
      <4>4. CASE j \in 1 .. n
        BY <4>1, <4>2, <4>4, <2>1, <2>2, <2>3
      <4> QED
        BY <4>3, <4>4, <2>5
    <3> QED
      BY <3>2, <3>3, <3>4
  <2>8. CASE p # o
    <3>1. Passed(p)' = Passed(p)
      BY <2>8, <1>0, <1>1 DEF Passed, TypeOK
    <3>2. Handed'[n + 1][1] # p
      BY <2>3, <2>8, <1>3
    <3>3. \A k \in 1 .. Passed(p)' : \E i \in DOMAIN Handed' : Handed'[i] = <<p, k>>
      BY <3>1, <2>1, <2>2, <2>3, <2>4
    <3>4. \A i \in DOMAIN Handed' : Handed'[i][1] = p => Handed'[i][2] \in 1 .. Passed(p)'
      BY <3>1, <3>2, <2>1, <2>2, <2>3, <2>5
    <3>5. \A i, j \in DOMAIN Handed' :
            i < j /\ Handed'[i][1] = p /\ Handed'[j][1] = p => Handed'[i][2] < Handed'[j][2]
      BY <3>2, <2>1, <2>2, <2>3, <2>5
    <3> QED
      BY <3>3, <3>4, <3>5
  <2> QED
    BY <2>7, <2>8
<1> QED
  BY <1>5, <1>6, <1>7 DEF IInv

(* local_send takes the first reply off the channel and sends it. *)
LEMMA LocalSendInv ==
  ASSUME IInv, LocalSend
  PROVE  IInv'
<1>0. TypeOK /\ WatchInv /\ NatInv /\ RouteRespected /\ RepliesInv /\ RepliesInOrder
  BY DEF IInv
<1>1. /\ queue # <<>> /\ delivered' = Append(delivered, Head(queue)) /\ queue' = Tail(queue)
      /\ UNCHANGED <<sent, recv, addr_set, nat, watch, writer, wire, reader, replies, local_send, control,
                     blocked>>
  BY DEF LocalSend, outgoing
<1> DEFINE R == Outbounds \X Nat
<1>2. delivered \in Seq(R) /\ queue \in Seq(R) /\ Len(queue) <= Capacity /\ Capacity \in Nat
  BY <1>0, SessionAssumption DEF TypeOK
<1> HIDE DEF R
<1>3. /\ Head(queue) \in R /\ Tail(queue) \in Seq(R) /\ Len(Tail(queue)) = Len(queue) - 1 /\ Len(queue) \in Nat
      /\ Append(delivered, Head(queue)) \in Seq(R)
      /\ Append(delivered, Head(queue)) = delivered \o <<Head(queue)>>
      /\ <<Head(queue)>> \o Tail(queue) = queue /\ <<Head(queue)>> \in Seq(R)
  <2>1. Len(queue) \in Nat \ {0} /\ queue \in Seq(R)
    BY <1>1, <1>2, EmptySeq
  <2>2. /\ Head(queue) \in R /\ Tail(queue) \in Seq(R) /\ Len(Tail(queue)) = Len(queue) - 1
        /\ Tail(queue) = SubSeq(queue, 2, Len(queue))
    BY <1>1, <1>2, HeadTailProperties, TailIsSubSeq
  <2>3. Append(delivered, Head(queue)) \in Seq(R) /\ Append(delivered, Head(queue)) = delivered \o <<Head(queue)>>
    BY <1>2, <2>2, AppendProperties, AppendIsConcat
  <2>4. <<queue[1]>> \o SubSeq(queue, 1 + 1, Len(queue)) = queue
    <3>1. 1 \in 1 .. Len(queue) /\ Len(queue) \in 1 .. Len(queue)
      BY <2>1
    <3> QED
      BY <3>1, <2>1, SubSeqRecursiveFirst, SubSeqFull
  <2>5. Head(queue) = queue[1]
    BY <2>1
  <2>6. <<Head(queue)>> \in Seq(R)
    BY <2>2
  <2> QED
    BY <2>1, <2>2, <2>3, <2>4, <2>5, <2>6
<1>4. Handed' = Handed
  <2> DEFINE h == <<Head(queue)>>
             t == Tail(queue)
  <2>1. delivered \in Seq(R) /\ h \in Seq(R) /\ t \in Seq(R)
    BY <1>2, <1>3
  <2>2. Handed' = (delivered \o h) \o t /\ Handed = delivered \o (h \o t)
    BY <1>1, <1>3 DEF Handed
  <2> HIDE DEF h, t
  <2> QED
    BY <2>1, <2>2, ConcatAssociative
<1>5. TypeOK'
  <2>1. Len(queue') <= Capacity
    BY <1>1, <1>2, <1>3
  <2> QED
    BY <1>0, <1>1, <1>3, <2>1 DEF TypeOK, R
<1>6. WatchInv' /\ NatInv' /\ RouteRespected' /\ RepliesInv'
  BY <1>0, <1>1 DEF WatchInv, NatInv, RouteRespected, RoutedTo, RepliesInv
<1>7. RepliesInOrder'
  <2>1. \A p \in Outbounds : Passed(p)' = Passed(p)
    BY <1>1 DEF Passed
  <2> QED
    BY <1>0, <1>1, <1>4, <2>1 DEF RepliesInOrder
<1> QED
  BY <1>5, <1>6, <1>7 DEF IInv

(* The other steps of local_send, and the end of the control connection.   *)
LEMMA EndsInv ==
  ASSUME IInv, LocalSendAddr \/ LocalSendEnds \/ ControlEnds
  PROVE  IInv'
<1>0. TypeOK /\ WatchInv /\ NatInv /\ RouteRespected /\ RepliesInv /\ RepliesInOrder
  BY DEF IInv
<1>1. /\ UNCHANGED <<sent, addr_set, nat, watch, writer, wire, reader, replies, blocked, delivered>>
      /\ local_send' \in {"recv", "ended"} /\ control' \in {"open", "ended"}
      /\ (queue' = queue) \/ (queue' = <<>> /\ local_send' = "ended")
      /\ recv' = recv \/ recv' = [at |-> "aborted", msg |-> NoMsg]
  BY <1>0 DEF LocalSendAddr, LocalSendEnds, ControlEnds, outgoing, incoming, TypeOK
<1>2. recv' \in [at : {"recv", "build", "ended", "aborted"}, msg : Msgs \cup {NoMsg}]
      /\ (recv' = recv \/ recv'.at = "aborted")
  BY <1>0, <1>1 DEF TypeOK
<1>3. queue' \in Seq(Outbounds \X Nat) /\ Len(queue') <= Capacity
  <2>1. <<>> \in Seq(Outbounds \X Nat) /\ Len(<<>>) = 0 /\ Capacity \in Nat /\ 0 <= Capacity
    BY EmptySeq, SessionAssumption
  <2>2. queue \in Seq(Outbounds \X Nat) /\ Len(queue) <= Capacity
    BY <1>0 DEF TypeOK
  <2> QED
    BY <1>1, <2>1, <2>2
<1>4. TypeOK'
  BY <1>0, <1>1, <1>2, <1>3 DEF TypeOK
<1>5. WatchInv' /\ NatInv' /\ RouteRespected' /\ RepliesInv'
  BY <1>0, <1>1, <1>2 DEF WatchInv, NatInv, RouteRespected, RoutedTo, RepliesInv
<1>6. RepliesInOrder'
  <2>1. CASE local_send' = "ended"
    BY <2>1, RepliesEnded
  <2>2. CASE local_send' # "ended"
    <3>1. LocalSendAddr
      BY <2>2 DEF LocalSendEnds, ControlEnds
    <3>2. local_send # "ended" /\ UNCHANGED <<queue, recv, replies, delivered, reader>>
      BY <3>1 DEF LocalSendAddr, incoming
    <3> QED
      BY <3>2, RepliesFrame
  <2> QED
    BY <2>1, <2>2
<1> QED
  BY <1>4, <1>5, <1>6 DEF IInv

-----------------------------------------------------------------------------
LEMMA InitIInv == Init => IInv
<1> SUFFICES ASSUME Init PROVE IInv
  OBVIOUS
<1>1. /\ recv = [at |-> "recv", msg |-> NoMsg] /\ recv.at = "recv"
      /\ recv \in [at : {"recv", "build", "ended", "aborted"}, msg : Msgs \cup {NoMsg}]
  BY DEF Init
<1>2. watch \in [Outbounds -> Channels]
  BY DEF Init, Channels
<1>3. queue \in Seq(Outbounds \X Nat) /\ delivered \in Seq(Outbounds \X Nat) /\ Len(queue) <= Capacity
  BY EmptySeq, SessionAssumption DEF Init
<1>4. TypeOK
  <2>1. MaxSent \in Nat /\ 0 \in 0 .. MaxSent
    BY SessionAssumption
  <2> QED
    BY <1>1, <1>2, <1>3, <2>1 DEF Init, TypeOK, Channels
<1>5. WatchInv /\ NatInv /\ RepliesInv /\ RouteRespected
  BY <1>1 DEF Init, WatchInv, NatInv, RepliesInv, RouteRespected
<1>6. RepliesInOrder
  <2>1. Handed = <<>> /\ DOMAIN Handed = {}
    <3>1. Handed = <<>> \o <<>>
      BY DEF Init, Handed
    <3>2. <<>> \o <<>> = <<>>
      BY ConcatEmptySeq, EmptySeq
    <3> QED
      BY <3>1, <3>2
  <2>2. \A o \in Outbounds : Passed(o) = 0
    BY DEF Init, Passed
  <2> QED
    BY <2>1, <2>2 DEF RepliesInOrder
<1> QED
  BY <1>4, <1>5, <1>6 DEF IInv

(* Every step keeps the invariant. *)
LEMMA NextIInv == IInv /\ [Next]_vars => IInv'
<1> SUFFICES ASSUME IInv, [Next]_vars PROVE IInv'
  OBVIOUS
<1>1. CASE \E t \in Targets : LocalRecv(t)
  BY <1>1, LocalRecvInv
<1>2. CASE LocalRecvBuilt \/ LocalRecvFails
  BY <1>2, LocalRecvBuiltInv, NatDropInv
<1>3. ASSUME NEW o \in Outbounds,
             WriteTask(o) \/ WriteTaskFails(o) \/ ReadTask(o) \/ ReadTaskPut(o) \/ ReadTaskFails(o)
      PROVE  IInv'
  BY <1>3, WriteTaskInv, TaskFailsInv, ReadTaskInv, ReadTaskPutInv
<1>4. CASE LocalSendAddr \/ LocalSend \/ LocalSendEnds
  BY <1>4, LocalSendInv, EndsInv
<1>5. CASE ControlEnds \/ DropLocalRecv
  BY <1>5, EndsInv, NatDropInv
<1>6. CASE UNCHANGED vars
  <2>1. UNCHANGED <<sent, recv, addr_set, nat, watch, writer, wire, reader, replies, queue, local_send,
                    control, blocked, delivered>>
    BY <1>6 DEF vars, outgoing, incoming
  <2>2. TypeOK' /\ WatchInv' /\ NatInv' /\ RouteRespected'
    BY <2>1 DEF IInv, TypeOK, WatchInv, NatInv, RouteRespected, RoutedTo
  <2>3. RepliesInOrder' /\ RepliesInv'
    BY <2>1, RepliesFrame
  <2> QED
    BY <2>2, <2>3 DEF IInv
<1> QED
  BY <1>1, <1>2, <1>3, <1>4, <1>5, <1>6 DEF Next

(* The inductive invariant holds in every reachable state. *)
THEOREM UdpInvariant == Spec => []IInv
BY InitIInv, NextIInv, PTL DEF Spec

(* A session's state is well formed, the channel of replies never over its *)
(* capacity.                                                               *)
THEOREM UdpTypeCorrect == Spec => []TypeOK
<1>1. IInv => TypeOK
  BY DEF IInv
<1> QED
  BY <1>1, UdpInvariant, PTL

(* No datagram leaves through an outbound that the router does not name    *)
(* for the address it is sent to, for every routing.                       *)
THEOREM UdpRouted == Spec => []RouteRespected
<1>1. IInv => RouteRespected
  BY DEF IInv
<1> QED
  BY <1>1, UdpInvariant, PTL

(* The client gets every outbound's replies in order, none lost, doubled   *)
(* or made up, for any number of outbounds and any capacity.               *)
THEOREM UdpReplies == Spec => []RepliesInOrder
<1>1. IInv => RepliesInOrder
  BY DEF IInv
<1> QED
  BY <1>1, UdpInvariant, PTL
=============================================================================
