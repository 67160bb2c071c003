# v2ray-rust in TLA+

A specification of the parts of v2ray-rust that are hard to test: what happens
to bytes, datagrams, salts and routes when tasks interleave, writes are partial,
streams fail, and configuration is combined in unexpected ways. Modules are
translated from `src/src`; `PROJECT.json` names the lines each definition models.

## The system

v2ray-rust is a client-side proxy. An inbound accepts a connection, the router
names an outbound for its target, the outbound's chain of protocols is built into
one stream, and bytes are relayed between the two.

| Part | State | Operations | What is hard |
|---|---|---|---|
| Relay (`common/net`) | per direction: buffer, `pos`, `cap`, `read_done` | `poll` of two copy futures, raced by `select!` | partial reads and writes, dropping the other direction, flushing |
| Statistics (`api`) | `COUNTER_MAP` of atomic counters | `fetch_add` by copies, `get_stats` with or without reset | resets against adds on other threads |
| Chains (`config/mod.rs`, `proxy/mod.rs`) | `ChainStreamBuilder` per outbound | `build_inner_map`, `build_inner_markers`, `build_tcp`, `build_udp` | pairing addresses with layers, which layers of a UDP session run on TCP |
| Shadowsocks salts (`shadowsocks/context.rs`, `crypto_io.rs`) | two Bloom filters, a count each, a spin lock | draw, receive, `check_and_set` | many threads, the switch between the filters |
| CIDR matcher (`config/ip_trie.rs`) | two tries in vectors, a table of tags | `put`, `get`, `match_addr` | nested and repeated blocks, widths of 32 and 128 bits |
| SOCKS5 UDP (`socks/socks5.rs`, `udp.rs`) | NAT map, a watch channel and two tasks per outbound, a channel of replies | receive, build, send, reply, end | one thread, borrows across awaits, full channels, abort order |
| Inbounds (SOCKS5, HTTP, dokodemo) | one connection: what it has read and answered | methods, authentication, request, reply, route, build | early end of file, clients that do not wait for answers |
| Stream layers (Shadowsocks AEAD, VMess, Trojan, WebSocket, HTTP/2, gRPC, simple-obfs, TLS) | buffers, positions, nonces, wakers | `poll_read`, `poll_write`, `poll_flush` | partial writes of frames, lost wake-ups, counters that wrap |
| Router (`config/route.rs`) | domain and regex matchers in order, the CIDR matcher | build from rules and geo files, match | order of rules, files read field by field, tags that are not configured |
| UDP packets (Trojan, Shadowsocks) | buffers, positions, the coroutine's state | `poll_send_to`, `poll_recv_from` | torn headers, empty datagrams, ends within a packet; lost and doubled datagrams |
| Configuration, addresses, utilities | none | parsing and conversion | |

Interactions: the inbound service (`server_builder.rs`) calls the router, then
`build_tcp` or `Socks5UdpDatagram::run`, then a relay; Shadowsocks streams of all
workers share one salt context; all counted relays share `COUNTER_MAP` with the
API; a UDP association asks the router for every datagram and builds its streams
through the chain.

What makes each part correct: relayed bytes are complete and in order and a clean
end loses none; statistics add up; data visits the servers of the chain in order;
a salt is not used twice within the window; the longest matching block wins;
datagrams leave by their outbound, replies keep their order, and everything of an
association ends with it; a packet comes out whole with its own address; a
connection is opened through the outbound its rules name, and what the client has
sent by then is not lost; a service ends when its client does. `PROJECT.json` lists the hazards one by one.

## Modules

`Relay` has, for every connection, two copies with the fields of
`CopyWithCapacityAtomic`. `Read`, `ReadEof`, `Write`, `Flush` and `PollErr` are
the exits of `poll`; `Return` is the `select!`. Byte number *k* of a reader is the
number *k*, so loss, repetition and stale buffer contents are visible. A writer in
`Buffering` may keep bytes back until flushed, as a WebSocket or TLS layer does.
`GetStatsReset` is the atomic swap of `get_stats`. `CopyWithCapacity` is the same
automaton without shared counters (connections outside `Counted`).

`BytePipe` is what a relay promises its two ends, without buffers or counters.
`Relay!ImplementsPipe` is the refinement: sent is what was read, received is what
the writer has passed on, a copy that returned `Ok` is complete.

`Chain` starts from any chain of configured protocols (and one unknown name).
`BuildInnerMap` computes every field of `ChainStreamBuilder`; `Connect`,
`BuildLayer` and `BuildLast` are the socket and the layers of `build_tcp` and
`build_udp`; `Fail` is an error at any of them. The two passes of
`build_inner_map` are written as what they compute: `Addrs` are the addresses in
the chain, `Asked` counts how many entries of a prefix ask for one, and entry *i*
gets address `Asked + 1`; `build_udp_marker` marks the layers left of a UoT layer.
A layer records the address it
was built with and what it runs on. `Header` says which destination a layer names
to its server: a stream header's address or, for datagrams, what the layer above
passes down. `Path` follows these destinations from the socket.

`SaltContext` has the two filters, the lock and a program counter per stream, so
that lock, check and set interleave. `BloomCheck` models the external filter: it
answers true for what was set, and may for anything else once it is not empty.
`used` is the history of salts under which keys were derived.

`IpTrie` keeps the vectors `left`, `right` and `value` as the code does. An address
is the sequence of its bits, the most significant first. `Descend` gives the nodes
met on the way down along a key; `Put` is written over that path instead of the
loop's variables, with `Link` for the vector of either side and `Assign` for the
values, and `Get` likewise, along the `Bits` that its shifting mask really visits.
`rules` is the history against which the answers are compared.

`UdpSession` is one association. All its tasks are on one thread, so an action is
what a task does between two awaits. `WatchSend` is `tx.send`: it replaces the
value, does nothing when the receiver is gone, and blocks the thread when the
write task holds `rx.borrow()` across a pending `send_to`. `NatDrop` is
`NatMap::drop`.

`ChunkStream` is one direction of an encrypted stream, writer and reader, with
`kind` choosing Shadowsocks (salt in front of the first chunk, sealed lengths, one
nonce for each sealing) or VMess (a header written and read before the chunks,
plain lengths, a 16-bit count). The stream between them is a sequence of units
that name what was sealed and under which nonce; opening succeeds on nothing else.
`WriteHeader`, `Encrypt` and `WriteData` are the stretches of the writer's
coroutine between its awaits; `Fill` and `ReadZero` are `read_at_least`, and
`ReadHandshake`, `ReadLength`, `Decrypt`, `Put` and `DropTag` the reader's
coroutine. `asleep` marks the `Pending` that `poll_write_header` returns without
anybody to wake it. The history variables `chunks` (what was sealed, from which
byte, under which count) and `opened` (how many chunks the reader has opened) are
read by no action; the invariant ties the bytes between the two ends to them.

`Transport` is one stream over HTTP/2, gRPC, WebSocket, WebSocket with early
data or simple-obfs: `poll_write` as `H2Write`, `GrpcWrite`, `WsWrite`,
`EarlyWrite` with `EarlyDone`, and `ObfsFirst` with `ObfsWrite`; `poll_read` as
`ReadBuffered`, `ReadFrame`, `GrpcRead`, `ReadPing`, `ReadEnd`, and `ObfsStrip`,
`ObfsRead` and `ObfsSpins`, which look for the blank line that ends the response.
`Loop` is gRPC's loop over the messages of a frame, a recursive function of how many
units it has passed. `Segment` is what a read of simple-obfs' stream can return,
`BlankLines` where the response may end in it, `AfterBlank` what is kept. Flow control counts in both directions. The libraries `h2` and
`tungstenite` and the peer are external and free within their protocols. The
variables `short`, `packed`, `cramped`, `bare` and `mangled` record what has to
happen before gRPC, HTTP/2 or simple-obfs falls short, so that the properties say
exactly when they hold. A read that returns `Ok` with nothing in the buffer is an end
of file to every caller, wherever it comes from: `GrpcRead` and `ObfsStrip` end the
reader then as `ReadEnd` does.

`Packets` is one direction of a UDP session, writer and reader. For Trojan the
datagrams are in a byte stream of units that name their packet: `SendTo`,
`WriteHeader`, `HeaderFails`, `WriteData` and `SendFails` are the stretches of the
writer's coroutine, `Fill`, `ReadZero`, `ReadType`, `ReadHeader`, `Put` and
`NextPacket` the reader's. For Shadowsocks `SendDatagram` adds to a set of
datagrams from which `ReceiveDatagram` takes any, at any time and any number of
times. `torn` records a header that was not written whole.

`Router` is `build_router` as a state machine, one action for each step of its
loops. `router.place = <<section, entry, group, item>>` is where the loops are:
`AddDomainEntry` and `AddCidr` take the rules written in the configuration;
`OpenFile`, `ReadTag`, `ReadSite`, `ReadCidr`, `ReadHeader` and `EndOfFile` are the
loop over the fields of a geosite or geoip file, with its variables (the tag of the
group, `skip`, the `CIDR` that is merged into); `NextSection` goes on, and
`BuildRouter` is `RouterBuilder::build`, which has a choice because the order of the
regular expressions comes out of a `HashMap`. `MatchIp` uses the longest prefix match
that `IpTrie` is shown to compute for IPv4. `ByRules` is the reference: the rules are
a set, each with its place in the file, without matchers, maps or fields.

`Inbound` extends `Router` and takes one connection from the configuration to the
relay. `StartServer` is `build_server` with the steps of the router's builder; `Peek` and `Dokodemo` the two services;
`Header`, `ReadMethods`, `ChooseMethod`, `Authenticate`, `ReadRequest`,
`RequestFails` and `ReadFails` are `Socks5Stream::init` between its reads;
`HttpRequest` and `HttpEnds` are the service given to hyper; `Route`, `Build` and
`BuildFails` choose and build the outbound's stream (module `Chain`), and `Relay`
and `"udp"` hand over to the modules `Relay` and `UdpSession`. The client is free
to cut what it sends anywhere, to close at any time and, if `eager`, not to wait
for answers. `swallowed` records that bytes after the methods were read as methods.
From then on the service reads other bytes of the client in place of its login and
request. Those that the protocol gives no value, of a host, a credential or data, may
have any: `ByteAt` gives them every value up to `ByteBound` (5, the largest that has a
meaning), and `AddressIs` takes any number of them for any address, so that data which
looks like a request, as with SOCKS5 inside SOCKS5, is taken for one.

The `MC*` modules give constants their values. Definitions named `X_...` and
headed "Mutant" are broken forms of `X`, used to see that each property notices.

## Runs

| Run | Configuration | Shows |
|---|---|---|
| `relay` | `MCRelay.cfg` | byte fidelity, complete clean ends, conserved statistics, refinement of `BytePipe`, delivery, end of file ends the relay |
| `chain` | `MCChain.cfg` | TCP routes, UDP routes with at most one Shadowsocks datagram layer, streams nest |
| `salt` | `MCSalt.cfg` | no reuse within `ItemCount` uses, the window is remembered, check and set are one step |
| `trie` | `MCIpTrie.cfg` | the vectors are a tree, IPv4 lookups are longest prefix matches |
| `udp_session` | `MCUdpSession.cfg` | routes, order of replies, the newest datagram is sent unless the thread is blocked, everything ends with the association |
| `chunks` | `MCChunk.cfg` | encrypted bytes come out in order, genuine chunks are not rejected, ends of file are complete, calls return, what was reported is delivered |
| `transport` | `MCTransport.cfg` | what is written arrives and what arrives is read, once and in order, the window is given back, the early-data reader is woken, the end is seen |
| `packets` | `MCPackets.cfg` | datagrams come out whole with their own address, Trojan's in order, and what is sent over Trojan arrives |
| `inbound` | `MCInbound.cfg` | connections are opened through the outbound that the rules name, no early data is lost, methods were offered, services end, clients are served |
| `chain_uot_first` | `MCChainUot.cfg` | disagreement: a lone Trojan or VMess layer gets a UDP socket |
| `trie_v6` | `MCIpTrie6.cfg` | disagreement: IPv6 lookups start at the wrong bit |
| `udp_full_cone` | `MCUdpCone.cfg` | disagreement: a direct outbound sends to its first target only |

Some properties carry exceptions, because the code falls short there; outside
exactly these cases they hold, and each of them does occur in its run.

- `WriteFaithful`: a gRPC stream that is granted less capacity than it offered
  sends its data twice; simple-obfs reports a first write that failed as complete.
- `ReadFaithful`, `EofIsComplete`: a gRPC stream that gets two messages in a frame
  larger than the reader's buffer returns a message head as data.
- `EofIsComplete`, `SentIsRead`: a gRPC stream that reads a frame with a message's head
  alone (`bare`) returns nothing, which is taken for the end of file, and the rest is
  not read.
- `SentIsRead`, `EofIsComplete`: simple-obfs drops data when the blank line comes in
  two reads, and reports an end of file when nothing follows it in its read.
- `EndIsSeen`: simple-obfs spins when the stream ends within the response header.
- `WindowReturned`: HTTP/2 never gives back what it kept of a frame.
- `CallReturns`: a VMess header written in part may leave its task asleep.
- `DatagramIsSentUnlessBlocked`: a slow `send_to` and one more datagram stop the
  thread of a UDP association.
- `UdpRouteOneHop`: over two Shadowsocks servers datagrams are addressed to the
  first, although the README lists chainable UDP.
- `DatagramsAreWhole`, `PacketsInOrder`, `PacketArrives`: a Trojan header that was
  written in part is followed by its data, an empty datagram ends the writer, and
  the end of the stream is passed on as an empty datagram.
- `RoutedByRules`: IP addresses when a CIDR of length 0 is among the rules
  (`WholeRange`), names when a geosite file has tags in small letters (`LowerSite`),
  and an IP address without a port in an HTTP request, which is routed as a name.
  Among the outbounds whose regular expressions match a name it allows any: their
  order comes out of a `HashMap`.
- `LongestPrefix4`: a prefix of 0 was put (`NoWholeRange`): the shift overflows and the
  rule is kept for a single address.
- `MethodWasOffered`, `ClientIsServed`, `NothingLost`: a SOCKS5 client that does not
  wait may have its request read as methods, and data of its read as a request. What is
  relayed then is still an end of what it said (`Ending`).
- `ServiceEnds`, `ClientIsServed`: a client that closes within its methods leaves
  the service spinning; a rule whose tag is no outbound makes it panic.

The last three runs each check one statement of the repository's README or comments
that the code does not meet; `findings` in `PROJECT.json` quotes both sides.

`TypeOK` is checked for `Relay` and `SaltContext`. Elsewhere it is a conjunct of the
inductive invariant `IInv` that the module's proofs establish (`Chain`, `UdpSession`,
`ChunkStream`, `Packets`), or documents the variables' types (`Transport`); the types
of `Inbound` are in `UnitsInv` and `PlaceInv`, those of `IpTrie` in the shape of its
vectors. Every inductive invariant holds under its module's configuration in TLC too;
it is not listed in the runs because the proofs say more.

### Bounds

- Relay: two connections that share all their counters, buffers of 2 bytes and
  up to 3 bytes in a direction, so that a buffer is refilled, partly written and
  overwritten; API clients ask for one counter, one that both connections add to.
- Chain: chains of up to four entries out of two Shadowsocks servers, a VMess and
  a Trojan server, one transport, direct, a black hole and an unknown name,
  repetitions included: four entries hold every order of an addressed layer, a
  transport and two UoT layers.
- Salts: three streams (six salts used at most) with `ItemCount` 2, so that the
  filters are switched twice and a filled one is cleared; five salts, so that
  reuse is possible after the window. The theorems hold for every size.
- Trie: 3-bit and 4-bit addresses stand for 32 and 128 bits; up to three IPv4
  blocks of any length, 0 included, put repeatedly with two tags, in tries of up to
  six nodes (`MaxNodes`). Three blocks nest three deep and branch (25,553 states).
- UDP: two datagrams, two outbounds (one direct, one that may be slow), two
  replies through each and room for one in the channel. Two datagrams share an
  outbound or not; two replies fill the channel from one or both sides.

- Chunks: a preamble of 3 units (torn in two places), chunks of up to 2 bytes, 4
  bytes in all and a count of 2 values: offers need one or two chunks, and the
  count wraps. Every split of every unit between polls is included.
- Packets: two datagrams of 0 to 2 bytes, addresses with and without a name, three
  receptions of Shadowsocks datagrams: a packet can be read together with its
  predecessor, cut anywhere, be empty or torn, and be doubled.
- Inbound: addresses of 2 bits; up to two entries of domain rules and of CIDR rules,
  over two outbounds, with five (six) sections of geo rules over files of up to
  three groups, each with a client that asks for one of two targets: a tag is
  mentioned twice and rules of two overlap. Three further configurations (plain,
  one with a black hole and without UDP, one with an unknown tag) meet every SOCKS5
  client (up to two methods, empty and other credentials, three commands, three
  address types), every HTTP client of up to two requests, and dokodemo doors;
  seven more are refused at the start. Two eager clients with 8 bytes of data have
  enough of it for a login and a request to be read in it (297,248 states).
- Transport: frames of up to 3 units, readers with room for 1 or 2, 3 bytes each
  way, a window of 4, a response header of 3 units: a frame can end a gRPC message and start another, exceed the
  reader's buffer, and meet a window that is nearly used up; early data holds 1
  byte of a write of 2 (13,564 states).

Symmetry is used for salts and streams and for tags, in runs without liveness.
Deadlock checking is off where connections and sessions are over when done
(relay, chain, salt, udp, chunks, transport, packets, inbound); in the trie rules can always be put again.

### Fairness

- Relay: weak fairness of a copy's `Write` and of its `Flush`. tokio polls a woken
  task again, and a writer that does not fail takes bytes in the end. Readers owe
  nothing: a peer may be silent for ever.
- UDP: weak fairness of completing `send_to`, of handing on a reply, of building
  (which ends in success or in an error), and of dropping an aborted task: all
  are polls of runnable tasks by the runtime. Clients and servers owe nothing. No fairness
  helps once the thread is blocked: every action needs `~blocked`.

- Chunks: weak fairness of the writer's and of the reader's polls: the stream
  below takes and gives bytes sooner or later and the reader's caller goes on
  reading. Nothing makes a caller write or wakes a task that is asleep.
- Transport: weak fairness of `Read`, which is disabled while the reader waits to
  be woken; the peer and the writer owe nothing.
- Packets: weak fairness of the writer's and the reader's polls, as for chunks. A
  datagram of Shadowsocks need not arrive.
- Inbound: weak fairness of the service's steps, which tokio polls when bytes come
  or the client closes, and whose connecting to the outbound ends in success or an
  error; and of the client's sending what it has to send at the time. Nobody has to
  close.

## Proofs

Checked by TLAPS, for all values of the constants under the modules' assumptions:
any number of connections, streams, outbounds and datagrams, and buffers, chunks,
chains and windows of any size. The assumptions say that sizes are natural numbers
and those that the code divides by or waits for are positive (`RelayAssumption`,
`SaltAssumption`, `ChunkAssumption`, `TransportAssumption`, `SessionAssumption`),
that a datagram fits the reader's buffer (`PacketsAssumption`: the code's buffers
are of the largest datagram), that a frame has fewer units than a `u64` has values
(`LengthAssumption`), that addresses differ from `Option::None` and each tag
has a protocol (`ChainAssumption`), that the widths of addresses are positive and that
of IPv6 is not the smaller (`TrieAssumption`, `WidthAssumption`), and what a client of
`Inbound` may be (`CasesAssumption`: byte values are numbers, and `CONNECT` is the last
request of a connection) and a configuration (`ConfigsAssumption`, by `IsConfig`: lists
are finite, groups of geo files have a tag, and their prefixes are no longer than an
address). TLC evaluates each of them on the module's run.

Each module states its inductive invariant at its end, its module of proofs shows it
with one lemma for each action or group of actions, and the theorems follow. Every
safety property of a passing run is the subject of one of them.

`RelayProofs`
- `TypeCorrect`, `BytesAreFaithful`, `CleanEndIsComplete`: `TypeOK`,
  `ByteFidelity` and `CleanEndComplete` hold. `ByteFidelity` is inductive only
  with the types. `CleanEndComplete` further needs that a writer passes on no more
  than it accepted and that a copy that has returned is never polled again, because
  its relay has closed (`EndedInv`). `IInv` is their conjunction. A read finds the
  buffer empty, so the bytes it takes are the next ones; a write moves a prefix of
  the buffer (`NextBytes`); a flush finds the buffer empty and the reader ended.
- `RelayImplementsPipe`: with `IInv`, each step maps to `Send`, `Deliver` or
  `Close` of `BytePipe` or changes nothing it sees.
- `StatsAreConserved`: what a counter holds plus what was taken out of it is the
  number of bytes that crossed its side. The bytes are counted as the cardinality of
  a set of (connection, position) pairs (`Moved`), so that a step adds a set of new
  pairs and no sum over connections is needed; `MovedFinite` makes the cardinality
  of the union the sum of the two.

`SharedProofs`, of the tables that all connections share
- `SaltInvariant` with `SaltTypeCorrect`, `SaltFilters`, `SaltCheckIsAtomic`,
  `SaltNoReuse`, `SaltWindow`. `NoReuse` alone is not inductive: it needs to know
  what the filters hold. `FiltersHold` says it exactly: the current filter has the
  last `bloom_count` salts used, the other the `ItemCount` before them, or nothing
  yet. `CheckedIsFresh` says that the stream between check and set is alone and its
  salt in neither filter. Then a salt that is set was last used before everything
  in the filters, at least `ItemCount` uses ago, also when the set switches them.
- `TrieTree` and `TrieLongest`, for addresses of any width. The invariant `TrieInv`
  gives each node of the vectors a name, the bits that lead to it (`Named`): the root
  is the empty sequence, a child's name is its parent's with one bit more, it is
  numbered after its parent, and no two nodes have the same name. So a descent along a
  key meets exactly the nodes named by the beginnings of the key. `Put` keeps this:
  the nodes it appends are named by the longer beginnings of the key put. The second
  part (`Valued`) says that the nodes with a value are those named by a block that has
  a rule, and the value is the position of that rule's tag. `Get` keeps the value of
  the deepest node it meets, hence that of the longest block that contains the
  address. The second part rests on the first: with two nodes for one block a repeated
  rule could miss the value it replaces; and it is stated while no block of all
  addresses was put, whose rule `put` keeps for another. The width matters in one place: `Get`
  starts at bit 32, so its bits are the key's for IPv4 only.

`ChainProofs`
- `ChainInvariant` with `ChainTcpRoute`, `ChainUdpRoute` and `ChainStreamsNest`.
  `FieldsInv`: the fields of `ChainStreamBuilder` are functions of the chain.
  `RouteInv`: as long as no layer carries datagrams, the addresses named so far
  (`Hops`) are the servers that the builders used so far account for (`Reached`).
  `LastServer` shows that the only entry that finds no address waiting is the last
  addressed one, so removing it from the builders shifts only entries that ask for
  none. `StackInv` says that whatever stands over a UoT layer is a Shadowsocks
  datagram layer, and that `last_udp_addr`, which the code finds by an index counted
  from the right, is that UoT layer's address (`UdpAddrAt`).
- The recursive function in `Present` is shown to exist by an induction over the
  length in the form of a least counterexample (`SetInduction`: a set of naturals
  that has 0 and is closed under successor has them all), which needs no operator as
  a parameter.

`UdpProofs`
- `UdpInvariant` with `UdpTypeCorrect`, `UdpRouted`, `UdpReplies`. Both properties
  depend on where messages are between tasks: `WatchInv` says that the value in an
  outbound's watch channel is routed there, `NatInv` that an outbound without an
  entry has no tasks, so that a build never starts a second pair, and `RepliesInv`
  that a reader holding a reply has taken one.

`ChunkProofs`
- `ChunkInvariant` with `ChunksDelivered`, `ChunksAccepted`, `ChunksComplete`, for
  both kinds. `ChunksInv` makes `chunks` a gapless division of the bytes with the
  counts in their order modulo `NonceSpace`; `UnitsInv` says which unit of which
  chunk is at each position of the pipe and the reader's buffer, whatever the splits;
  `ReaderInv` ties the reader's place, its count and its `data_length` to the next
  chunk to open. So what is tried is what was sealed under the same nonce, also after
  the count has wrapped.

`PacketProofs`
- `PacketInvariant` with `PacketsWhole` and `PacketsOrdered`. `StreamInv`: the
  reader's buffer and the pipe are the rest of the packets written, from some packet
  *n* on, cut at the reader's position, as long as no header was torn.

`TransportProofs`
- `TransportWrites`: `WriteFaithful` for all five kinds, with the progress of early
  data.
- `TransportWindow`: the window plus the frames in the inbox is `Window`; the sum over
  the frames is given by a witness, a function of partial sums, which grows by one
  with each frame and loses its first value with each read.
- `TransportReads` and `TransportEnds`: `ReadFaithful` and `EofIsComplete` for all five
  kinds. Again a witness, a function over the frames in the inbox, says which byte each
  frame ends with. `FramesInv` has it for the kinds that return frames as they are;
  `GrpcInv` adds how many bytes of the current message are to come after each frame, so
  that a frame is the rest of a message, or a head and the start of one, and two at
  once only if `packed`, and a read returns at least a byte of it unless it is a head
  alone; `ObfsInv` says that what is left of the stream is the response
  and the data from some position on. gRPC's `Loop` is shown to return what such a
  frame holds: the recursion is followed in its three stretches, the rest of a message,
  the head, the start of the next, by the induction over a set of naturals described
  at `ChainProofs`.

`InboundProofs`
- `InboundInvariant` with `InboundNothingLost` and `InboundMethod`. At each step of
  the handshake what is unread is what the client says from there on (`OnScript`).
  Once bytes have been read as methods it is only some end of that (`OffScript`): each
  later read takes a beginning of what is left, whatever it takes it for, so an end it
  stays, up to the relay. For all other clients the handshake has read exactly the
  words before the data (`RequestTaken`, `OwnRequest`), and what remains is the data.
- `InboundRouter`: at each place of the builder's loops (`RouterInv`) the matchers hold
  exactly the rules that come `Before` that place, with their keys in the order in which
  the entries first mention them, and the table has the last tag put for each block. Of
  the places only a few can be reached (`PlaceInv`), and within a group `skip` says
  whether the entry names it. A step adds the rules that stand at its place: `Moves`
  says that nothing lies between a place and the next but the place itself, so each
  action's lemma compares what it inserts with the rules at one place. A name's and an
  address's part are separate, so that a small letter in a geosite file says nothing
  against the routes of IP addresses.
- `InboundRoutes`: when the builder is done all rules are held, so the first matcher
  that knows a name has the tag first mentioned among those with a rule for it, and the
  longest block in the table has the tag of the last rule with the longest CIDR, which
  is `ByRules`. `OpenedInv` carries the router's answer from the route to the opened
  stream, for each address the client asked for.

Only model-checked:
- the liveness properties (`ReadIsDelivered`, `EofEndsRelay`,
  `DatagramIsSentUnlessBlocked`, `SessionEnds`, `CallReturns`,
  `AcceptedIsDelivered`, `SentIsRead`, `EndIsSeen`, `PacketArrives`, `ServiceEnds`,
  `ClientIsServed`), which rest on fairness and `ENABLED`, out of the prover's reach;
- the three disagreements, whose runs are counterexamples;
- that the recursive functions of the models are the code's loops is by reading; where
  a proof needs what such a function returns (`Present`, `Descend`, `Loop`) its
  existence and values are shown by least counterexample, not assumed.

## Not modelled

The latency API has no state but its request. Ciphers, key derivation, TLS and
certificate stores, TOML parsing, generated protobuf code, the crates
domain_matcher, regex, hyper, h2 and tungstenite, the set-up of listeners and
workers, `main` and logging are external or pure conversions. Consequences worth
knowing: `Relay` assumes that a writer takes the bytes it reports (the gRPC
layer's `poll_write` reports more, see the hazard at `grpc/mod.rs:206`);
`ChunkStream` takes the stream below to be a faithful pipe and its caller never to
write an empty buffer (`vmess/aead.rs:77` would end the writer's coroutine, and
Shadowsocks send an empty chunk; the relay's copies write only what they have read),
and `Transport`
takes its caller to be a writer of chunks, which is unmoved by a count larger
than its offer; no message or frame is empty (an empty one would be taken for the
end of file, as a gRPC head alone in its frame is) and no gRPC head is split over two
frames; `UdpSession` takes a stream's `send_to` as one step that may be pending
or fail; `Chain` takes a layer's handshake as one step; `Packets` has the writer
and the reader of this code face each other, and gives no meaning to the bytes
behind a torn header; `Inbound` leaves out hyper's pool, so each proxied request
opens a stream, takes a whole HTTP request as one unit and a host with its port
as another (which, where it is read as something else, counts as one byte of any
value), lets bytes off the script be any address of any length, more than
their values allow, and asks nothing of IPv6 addresses (see `trie_v6`); an extra field
of a geo file is a boolean that is set; the release profile (wrapping
arithmetic) is assumed where debug builds would panic.

## Plan

Done: Relay and BytePipe, Chain, SaltContext, IpTrie, UdpSession, ChunkStream,
Transport, Packets, Router, Inbound; proofs of the safety properties of all of them.
What would come next, in this order:

1. A relay directly over a gRPC stream, composing `Relay` and `Transport`.
2. The lock of `split_ext`, composed with `UdpSession`.
3. `UdpSession`: that a thread is blocked only by a borrow across a pending send, the
   safety part of `DatagramIsSentUnlessBlocked`, as an invariant with a proof.
4. `Router` over the vectors of `IpTrie` in place of its table of blocks, as a
   refinement: both sides are proved, their composition is not stated.

The runs of one module can share a configuration: disagreements that have become
exceptions of a property (as in `transport`) need no run of their own.
