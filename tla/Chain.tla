------------------------------- MODULE Chain -------------------------------
(***************************************************************************)
(* How an outbound's `chain` of configured protocols becomes a proxied     *)
(* stream: Config::build_inner_map turns the chain into a                  *)
(* ChainStreamBuilder (config/mod.rs), build_inner_markers decides which   *)
(* layers of a UDP session run over TCP, and build_tcp / build_udp open    *)
(* the socket and wrap it layer by layer (proxy/mod.rs, and build_tcp and  *)
(* build_udp of every protocol).                                           *)
(*                                                                         *)
(* A protocol's server address is the tag of its configuration entry.      *)
(***************************************************************************)
EXTENDS Naturals, Sequences, FiniteSets, SequencesExt

CONSTANTS
  Tags,      \* the configured protocols
  Proto,     \* Proto[t]: the ProtocolType of t
  Unknown,   \* a chain entry that names no configured protocol
  Target,    \* proxy_addr: where the client wants to go
  NoAddr,    \* Option::None of an address
  MaxChain   \* bound: the length of a chain

(* Shadowsocks, Trojan and VMess name a server; is_uot protocols carry UDP *)
(* inside a stream.                                                        *)
Addressed == {"SS", "Trojan", "Vmess"}
IsUot(p)  == p \in {"Vmess", "Trojan"}

ProtocolType == Addressed \cup
  {"Tls", "Grpc", "WS", "Direct", "H2", "Blackhole", "SimpleObfs"}

ASSUME ChainAssumption ==
  /\ Proto \in [Tags -> ProtocolType]
  /\ Unknown \notin Tags /\ Target \notin Tags /\ NoAddr \notin Tags \cup {Target}
  /\ MaxChain \in Nat

VARIABLES
  chain,          \* the outbound's chain, as configured
  phase,          \* how far the outbound has come
  network,        \* what the client asks for: a TCP stream or a UDP session
  builders, last_builder, remote_addr, last_udp_addr, build_udp_marker,
  is_black_hole,  \* the fields of ChainStreamBuilder
  socket,         \* the socket opened, as <<kind, address>>
  applied,        \* how many of the builders have wrapped it
  stack           \* the layers wrapped around it, outermost first

config  == <<chain, network>>
builder == <<builders, last_builder, remote_addr, last_udp_addr,
             build_udp_marker, is_black_hole>>
vars    == <<config, phase, builder, socket, applied, stack>>

-----------------------------------------------------------------------------
(* The addresses in a sequence of Option<Address>. *)
Present(s) ==
  LET F[i \in 0 .. Len(s)] ==
        IF i = 0 THEN <<>>
        ELSE IF s[i] = NoAddr THEN F[i - 1] ELSE Append(F[i - 1], s[i])
  IN  F[Len(s)]

GetAddr(t) == IF Proto[t] \in Addressed THEN t ELSE NoAddr

(* Pass 1 of build_inner_map: the server addresses along the chain.  The   *)
(* first becomes remote_addr, the others wait in addrs.                    *)
Addrs(ch) == Present([i \in 1 .. Len(ch) |-> GetAddr(ch[i])])

(* How many addresses have been asked for by the first i entries.          *)
Asked(ch, i) == Len(Addrs(SubSeq(ch, 1, i)))

(* Mutant: every addressed entry takes its own address. *)
NextAddr_Own(ch, i) ==
  IF Proto[ch[i]] \in Addressed /\ Asked(ch, i) < Len(Addrs(ch)) THEN ch[i] ELSE NoAddr

(* Pass 2: each addressed entry takes the next waiting address; the first  *)
(* address is remote_addr and does not wait.                               *)
NextAddr(ch, i) ==
  IF Proto[ch[i]] \in Addressed /\ Asked(ch, i) < Len(Addrs(ch))
  THEN Addrs(ch)[Asked(ch, i) + 1] ELSE NoAddr

(* The entry for which none is left, if any, becomes the last builder,     *)
(* which gets its address when a connection is made; it is the last of the *)
(* addressed ones.                                                         *)
IsLast(ch, i) == Proto[ch[i]] \in Addressed /\ NextAddr(ch, i) = NoAddr
HasLast(ch)   == \E i \in 1 .. Len(ch) : IsLast(ch, i)
LastEntry(ch) == CHOOSE i \in 1 .. Len(ch) : IsLast(ch, i)

Builder(p, a) == [proto |-> p, addr |-> a]

(* The entry that becomes builder j: the others, in order. *)
EntryOf(ch, j) == IF HasLast(ch) /\ j >= LastEntry(ch) THEN j + 1 ELSE j

Builders(ch) ==
  [j \in 1 .. Len(ch) - (IF HasLast(ch) THEN 1 ELSE 0) |->
     Builder(Proto[ch[EntryOf(ch, j)]], NextAddr(ch, EntryOf(ch, j)))]

LastBuilder(ch) == IF HasLast(ch) THEN Proto[ch[LastEntry(ch)]] ELSE "None"

Types(bs, last) ==
  [i \in 1 .. Len(bs) |-> bs[i].proto] \o (IF last = "None" THEN <<>> ELSE <<last>>)

(* ChainStreamBuilderProtocolTypeIter: from the last builder to the first. *)
TypesFromRight(bs, last) == Reverse(Types(bs, last))

(* build_udp_marker_impl: which layers of a UDP session are built as TCP:  *)
(* those for which a UoT layer has come before, counted from the right.    *)
BuildUdpMarker(types) ==
  Reverse([i \in 1 .. Len(types) |-> \E j \in 1 .. i - 1 : IsUot(types[j])])

(* build_inner_markers: where a last builder that is not UoT sends to. *)
LastUdpAddr(bs, last, remote) ==
  LET types == TypesFromRight(bs, last)
      uots  == {i \in 1 .. Len(types) : IsUot(types[i])}
      idx   == (CHOOSE i \in uots : \A j \in uots : i <= j) - 1
  IN  IF uots = {} THEN remote
      ELSE IF idx = 0 THEN NoAddr
      ELSE bs[Len(bs) - idx + 1].addr

-----------------------------------------------------------------------------
Init ==
  /\ chain \in UNION {[1 .. n -> Tags \cup {Unknown}] : n \in 1 .. MaxChain}
  /\ network \in {"tcp", "udp"}
  /\ phase = "config"
  /\ builders = <<>> /\ last_builder = "None"
  /\ remote_addr = NoAddr /\ last_udp_addr = NoAddr
  /\ build_udp_marker = <<>> /\ is_black_hole = FALSE
  /\ socket = <<"none", NoAddr>> /\ applied = 0 /\ stack = <<>>

(* build_inner_map refuses a chain with an entry it cannot find. *)
RefuseChain ==
  /\ phase = "config"
  /\ \E i \in DOMAIN chain : chain[i] \notin Tags
  /\ phase' = "refused"
  /\ UNCHANGED <<config, builder, socket, applied, stack>>

BuildInnerMap ==
  /\ phase = "config"
  /\ \A i \in DOMAIN chain : chain[i] \in Tags
  /\ phase' = "ready"
  /\ builders' = Builders(chain)
  /\ last_builder' = LastBuilder(chain)
  /\ remote_addr' = IF Addrs(chain) = <<>> THEN NoAddr ELSE Head(Addrs(chain))
  /\ LET types == TypesFromRight(builders', last_builder')
     IN  /\ is_black_hole' = \E i \in DOMAIN types : types[i] = "Blackhole"
         /\ build_udp_marker' = BuildUdpMarker(types)
  /\ last_udp_addr' = LastUdpAddr(builders', last_builder', remote_addr')
  /\ UNCHANGED <<config, socket, applied, stack>>

(* Mutant: UDP sessions always start from a UDP socket. *)
Connect_AlwaysUdp ==
  /\ phase = "ready"
  /\ ~is_black_hole
  /\ phase' = "building"
  /\ socket' = << network, IF remote_addr = NoAddr THEN Target ELSE remote_addr >>
  /\ UNCHANGED <<config, builder, applied, stack>>

(* The socket goes to the first server, or straight to the target; a UDP   *)
(* session uses TCP if its outermost layer is to be built as TCP.          *)
Connect ==
  /\ phase = "ready"
  /\ ~is_black_hole
  /\ phase' = "building"
  /\ socket' = << IF network = "tcp" \/ build_udp_marker[1] THEN "tcp" ELSE "udp",
                  IF remote_addr = NoAddr THEN Target ELSE remote_addr >>
  /\ UNCHANGED <<config, builder, applied, stack>>

(* What a protocol wraps around the stream it is given.  A "stream" layer  *)
(* runs on a byte stream and gives one; a "uot" layer gives datagrams on a *)
(* byte stream; a "datagram" layer maps datagrams to datagrams.  For UDP,  *)
(* a protocol without a server of its own adds nothing unless it is to     *)
(* build TCP.                                                              *)
Layer(p, a, kind) == [proto |-> p, addr |-> a, kind |-> kind]

Wrap(b, tcp) ==
  IF b.proto = "Direct"      THEN <<>>
  ELSE IF tcp                THEN <<Layer(b.proto, b.addr, "stream")>>
  ELSE IF IsUot(b.proto)     THEN <<Layer(b.proto, b.addr, "uot")>>
  ELSE IF b.proto = "SS"     THEN <<Layer(b.proto, b.addr, "datagram")>>
  ELSE <<>>

AsTcp(i) == network = "tcp" \/ build_udp_marker[i]

(* The next builder wraps the stream built so far. *)
BuildLayer ==
  /\ phase = "building"
  /\ applied < Len(builders)
  /\ applied' = applied + 1
  /\ stack' = stack \o Wrap(builders[applied'], AsTcp(applied'))
  /\ UNCHANGED <<config, phase, builder, socket>>

(* Mutant: the last layer of a UDP session is always told the target. *)
BuildLast_TargetForAll ==
  /\ phase = "building"
  /\ applied = Len(builders)
  /\ stack' = IF last_builder = "None" THEN stack
              ELSE stack \o Wrap(Builder(last_builder, Target), AsTcp(Len(build_udp_marker)))
  /\ phase' = "built"
  /\ UNCHANGED <<config, builder, socket, applied>>

(* The last builder is given proxy_addr, except for a UDP session whose    *)
(* last protocol is not UoT: that one is told where to send its datagrams. *)
BuildLast ==
  /\ phase = "building"
  /\ applied = Len(builders)
  /\ LET addr == IF network = "tcp" \/ IsUot(last_builder) THEN Target ELSE last_udp_addr
     IN  stack' = IF last_builder = "None" THEN stack
                  ELSE stack \o Wrap(Builder(last_builder, addr),
                                     AsTcp(Len(build_udp_marker)))
  /\ phase' = "built"
  /\ UNCHANGED <<config, builder, socket, applied>>

(* A black hole blocks the connection; or connecting or a handshake fails, *)
(* and what was built is dropped.                                          *)
Fail ==
  /\ phase = "ready" \/ phase = "building"
  /\ phase' = "failed"
  /\ socket' = <<"none", NoAddr>>
  /\ stack' = <<>>
  /\ UNCHANGED <<config, builder, applied>>

Next == RefuseChain \/ BuildInnerMap \/ Connect \/ BuildLayer \/ BuildLast \/ Fail

Spec == Init /\ [][Next]_vars

-----------------------------------------------------------------------------
TypeOK ==
  /\ chain \in Seq(Tags \cup {Unknown}) /\ chain # <<>> /\ network \in {"tcp", "udp"}
  /\ phase \in {"config", "refused", "ready", "building", "built", "failed"}
  /\ builders \in Seq([proto : ProtocolType, addr : Tags \cup {NoAddr}])
  /\ last_builder \in Addressed \cup {"None"}
  /\ remote_addr \in Tags \cup {NoAddr} /\ last_udp_addr \in Tags \cup {NoAddr}
  /\ build_udp_marker \in Seq(BOOLEAN) /\ is_black_hole \in BOOLEAN
  /\ socket \in {"none", "tcp", "udp"} \X (Tags \cup {Target, NoAddr})
  /\ applied \in 0 .. Len(builders)
  /\ stack \in Seq([proto : ProtocolType, addr : Tags \cup {Target, NoAddr},
                    kind : {"stream", "uot", "datagram"}])

(* The destination layer i names to its server for data to the target.     *)
(* VMess and every layer built as TCP name the address they were built     *)
(* with; Shadowsocks datagrams and Trojan's UDP frames name what the layer *)
(* above passes to poll_send_to, which for a Shadowsocks layer above is    *)
(* the address that one was built with.                                    *)
Header(i) ==
  IF stack[i].kind = "stream" \/ stack[i].proto = "Vmess"
  THEN stack[i].addr
  ELSE IF i = Len(stack) THEN Target ELSE stack[i + 1].addr

(* Where the data goes: to the address of the socket, and on from each     *)
(* server to the destination that its layer names.                         *)
Path == <<socket[2]>> \o Present([i \in 1 .. Len(stack) |-> Header(i)])

(* The route a chain configures: its servers in order, then the target. *)
ConfiguredRoute == Addrs(chain) \o <<Target>>

(* A TCP connection visits the chain's servers in the configured order and *)
(* ends at the target (the address pairing of build_inner_map's two        *)
(* passes, and build_tcp).                                                 *)
TcpRoute ==
  phase = "built" /\ network = "tcp" => Path = ConfiguredRoute

DatagramLayers == {i \in DOMAIN stack : stack[i].kind = "datagram"}

(* So does a UDP session that has at most one Shadowsocks layer of         *)
(* datagrams (last_udp_addr and the address of UoT layers).  With two,     *)
(* last_udp_addr is the first server, and the datagrams stop there.        *)
UdpRouteOneHop ==
  phase = "built" /\ network = "udp" /\ Cardinality(DatagramLayers) <= 1
    => Path = ConfiguredRoute

StreamBelow(i) == IF i = 1 THEN socket[1] = "tcp" ELSE stack[i - 1].kind = "stream"

(* Inside the chain every layer that needs a byte stream has one below it, *)
(* never a layer whose AsyncWrite is unimplemented!(); and none is built   *)
(* by a black hole, whose build is, wherever in the chain it stands.       *)
StreamsNest ==
  \A i \in DOMAIN stack :
    /\ stack[i].proto # "Blackhole"
    /\ stack[i].kind = "stream" \/ (stack[i].kind = "uot" /\ i > 1) => StreamBelow(i)

(* A UoT protocol carries UDP inside a TCP stream, wherever it stands. *)
UotHasStream ==
  \A i \in DOMAIN stack : stack[i].kind = "uot" => StreamBelow(i)

-----------------------------------------------------------------------------
(* The inductive invariant of ChainProofs.                                 *)

(* The fields of ChainStreamBuilder are those of the configured chain.     *)
FieldsInv ==
  phase \in {"ready", "building", "built", "failed"} =>
    /\ chain \in Seq(Tags)
    /\ builders = Builders(chain)
    /\ last_builder = LastBuilder(chain)
    /\ remote_addr = IF Addrs(chain) = <<>> THEN NoAddr ELSE Head(Addrs(chain))
    /\ LET types == TypesFromRight(builders, last_builder)
       IN  /\ is_black_hole = \E i \in DOMAIN types : types[i] = "Blackhole"
           /\ build_udp_marker = BuildUdpMarker(types)
    /\ last_udp_addr = LastUdpAddr(builders, last_builder, remote_addr)

SocketInv ==
  /\ phase \in {"config", "refused", "ready"} => applied = 0 /\ stack = <<>>
  /\ phase \in {"building", "built"} =>
       /\ ~is_black_hole
       /\ socket = << IF AsTcp(1) THEN "tcp" ELSE "udp",
                      IF remote_addr = NoAddr THEN Target ELSE remote_addr >>

(* While layers are added: one that is not a stream was built as UDP; over *)
(* a UoT layer there are only datagrams, and then the last builder is      *)
(* Shadowsocks and is to send to the server behind the UoT layer.          *)
StackInv ==
  phase = "building" =>
    \A i \in DOMAIN stack :
      /\ stack[i].kind = "stream" => AsTcp(1)
      /\ stack[i].kind # "stream" => /\ \E j \in 1 .. applied : ~AsTcp(j)
                                    /\ last_builder = "SS"
      /\ stack[i].kind = "uot" => /\ last_udp_addr = stack[i].addr
                                 /\ \A j \in i + 1 .. Len(stack) : stack[j].kind = "datagram"

(* The addresses named so far, and the servers that k entries account for. *)
Hops == <<socket[2]>> \o Present([i \in 1 .. Len(stack) |-> stack[i].addr])

Reached(k) ==
  IF Addrs(chain) = <<>> THEN <<Target>>
  ELSE SubSeq(Addrs(chain), 1, IF Asked(chain, k) < Len(Addrs(chain))
                               THEN Asked(chain, k) + 1 ELSE Len(Addrs(chain)))

RouteInv ==
  phase = "building" /\ DatagramLayers = {} => Hops = Reached(applied)

IInv == /\ TypeOK /\ FieldsInv /\ SocketInv /\ StackInv /\ RouteInv
        /\ StreamsNest /\ TcpRoute /\ UdpRouteOneHop
=============================================================================
