------------------------------ MODULE Inbound ------------------------------
(***************************************************************************)
(* One connection to the server from its first byte to its relay: the      *)
(* service of server_builder.rs tells SOCKS5 from HTTP, the handshake of   *)
(* socks5.rs or the requests of http/mod.rs give an address, the router    *)
(* names the outbound, and the outbound's stream is built.  A dokodemo     *)
(* door has its address from the socket.                                   *)
(*                                                                         *)
(* The client's bytes are units: <<"b", n>> is a byte that the protocol    *)
(* gives a meaning, <<"host", a>> a host and port, <<"cred", 0>> a byte of *)
(* a user name or password, <<"req", i>> request i of an HTTP client and   *)
(* <<"data", i>> byte i of what it sends once connected.  A client is      *)
(* eager if it does not wait for answers.  hyper is external.              *)
(* Units other than <<"b", n>> may have any bytes: where the service reads *)
(* them as protocol, which it does once it has read too much as methods,   *)
(* each of them is any byte, and any of them an address.                   *)
(***************************************************************************)
EXTENDS Router

CONSTANTS Cases  \* pairs of a configuration and a client

(* A client sends no request after a CONNECT until it is answered.         *)
ASSUME CasesAssumption ==
  \A x \in Cases :
    LET c == x[2]
    IN  /\ c.kind \in {"socks", "http", "doko"} /\ c.data \in Nat
        /\ c.kind = "socks" =>
             c.methods \in Seq(Nat) /\ {c.user, c.pass, c.cmd, c.atyp} \subseteq Nat
        /\ c.kind = "http" =>
             /\ Len(c.reqs) \in Nat /\ DOMAIN c.reqs = 1 .. Len(c.reqs)
             /\ \A i \in DOMAIN c.reqs : c.reqs[i].connect => i = Len(c.reqs)

ASSUME ConfigsAssumption == \A x \in Cases : IsConfig(x[1])

VARIABLES
  client,
  todo,       \* what the client will send without a further answer
  inbox,      \* what it has sent, not yet read
  closed,     \* it has closed its side
  read_buf,   \* of Socks5Stream
  nmethods,   \* header[1]
  said,       \* the answers so far
  target,     \* the address to connect to
  via,        \* how: "socks", "tunnel", "proxy" or "doko"
  outbound,
  opened,     \* history: the streams built, with what the client asked for
  swallowed,  \* history: bytes after the methods were read as methods
  relayed     \* history: what was relayed

clientVars == <<todo, inbox, closed>>
vars == <<cfg, client, router, at, clientVars, read_buf, nmethods, said, target, via,
          outbound, opened, swallowed, relayed>>

None == [type |-> "none", host |-> ""]

(* The parts of what a client sends. *)
Repeat(u, n) == [i \in 1 .. n |-> u]
Methods  == [i \in DOMAIN client.methods |-> <<"b", client.methods[i]>>]
Hello    == <<<<"b", 5>>, <<"b", Len(client.methods)>>>> \o Methods
Login    == <<<<"b", 1>>, <<"b", client.user>>>> \o Repeat(<<"cred", 0>>, client.user)
            \o <<<<"b", client.pass>>>> \o Repeat(<<"cred", 0>>, client.pass)
Request  == <<<<"b", 5>>, <<"b", client.cmd>>, <<"b", 0>>, <<"b", client.atyp>>,
              <<"host", client.addr>>>>
Requests == [i \in DOMAIN client.reqs |-> <<"req", i>>]
Data     == [i \in 1 .. client.data |-> <<"data", i>>]

Eagerly(words) == IF client.eager THEN words ELSE <<>>
AfterHello == (IF Contains(client.methods, 2) THEN Login ELSE <<>>) \o (Request \o Data)

FirstWords ==
  IF client.kind = "socks" THEN Hello \o Eagerly(AfterHello)
  ELSE IF client.kind = "http" THEN Requests \o Eagerly(Data)
  ELSE Data

Init ==
  /\ \E c \in Cases : cfg = c[1] /\ client = c[2]
  /\ router = NewBuilder /\ at = "config" /\ todo = FirstWords /\ inbox = <<>> /\ closed = FALSE
  /\ read_buf = <<>> /\ nmethods = 0 /\ said = <<>> /\ target = None /\ via = "none"
  /\ outbound = "" /\ opened = {} /\ swallowed = FALSE /\ relayed = <<>>

-----------------------------------------------------------------------------
(* The server is built before it listens. *)
StartServer ==
  /\ RouterNext
  /\ UNCHANGED <<client, clientVars, read_buf, nmethods, said, target, via, outbound, opened,
                 swallowed, relayed>>

(* The client sends k units, or closes; external. *)
ClientSends(k) ==
  /\ at \notin {"config", "stopped"} /\ ~closed /\ k <= Len(todo)
  /\ inbox' = inbox \o SubSeq(todo, 1, k)
  /\ todo' = SubSeq(todo, k + 1, Len(todo))
  /\ UNCHANGED <<cfg, client, router, at, closed, read_buf, nmethods, said, target, via,
                 outbound, opened, swallowed, relayed>>

ClientCloses ==
  /\ at \notin {"config", "stopped"} /\ ~closed
  /\ closed' = TRUE
  /\ UNCHANGED <<cfg, client, router, at, todo, inbox, read_buf, nmethods, said, target, via,
                 outbound, opened, swallowed, relayed>>

(* What the client says after the methods, without its beginning. *)
Ending(s) == \E j \in 0 .. Len(AfterHello) : s = SubSeq(AfterHello, j + 1, Len(AfterHello))

(* The addresses that requests ask for. *)
Addrs == {x[2].addr : x \in {y \in Cases : y[2].kind = "socks"}}

(* The service reads n units; it answers r and goes on at s, or finds that *)
(* the client is gone.  A client that waited then sends more.              *)
Take(n) == Len(inbox) >= n /\ inbox' = SubSeq(inbox, n + 1, Len(inbox))

Answer(r, s, more) ==
  \/ /\ said' = Append(said, r) /\ at' = s
     /\ todo' = IF client.eager THEN todo ELSE todo \o more
  \/ closed /\ at' = "failed" /\ UNCHANGED <<said, todo>>

(* The peeked byte tells SOCKS5 from HTTP; a connection closed before it   *)
(* is HTTP's.                                                              *)
Peek ==
  /\ at = "listen" /\ client.kind # "doko" /\ (inbox # <<>> \/ closed)
  /\ at' = IF inbox # <<>> /\ inbox[1] = <<"b", 5>> THEN "header" ELSE "http"
  /\ UNCHANGED <<cfg, client, router, clientVars, read_buf, nmethods, said, target, via,
                 outbound, opened, swallowed, relayed>>

(* A dokodemo door connects to its own target if it has one, past router   *)
(* and outbounds, and else to the address its socket was reached at.       *)
Dokodemo ==
  /\ at = "listen" /\ client.kind = "doko"
  /\ via' = "doko"
  /\ target' = client.addr
  /\ at' \in IF client.fixed THEN {"relay", "failed"} ELSE {"route"}
  /\ UNCHANGED <<cfg, client, router, clientVars, read_buf, nmethods, said, outbound, opened,
                 swallowed, relayed>>

-----------------------------------------------------------------------------
(* Socks5Stream::init.  A read_exact waits for all it wants.               *)
Header ==
  /\ at = "header" /\ Take(2)
  /\ nmethods' = inbox[2][2]
  /\ at' = "methods"
  /\ UNCHANGED <<cfg, client, router, todo, closed, read_buf, said, target, via, outbound,
                 opened, swallowed, relayed>>

(* read_buf takes what there is, which may be more than the methods.       *)
ReadMethods(k) ==
  /\ at = "methods" /\ Len(read_buf) < nmethods /\ Take(k)
  /\ read_buf' = read_buf \o SubSeq(inbox, 1, k)
  /\ swallowed' = (swallowed \/ Len(read_buf) + k > nmethods)
  /\ UNCHANGED <<cfg, client, router, at, todo, closed, nmethods, said, target, via, outbound,
                 opened, relayed>>

(* At the end of file it takes nothing, again and again. *)
Spins == at = "methods" /\ Len(read_buf) < nmethods /\ inbox = <<>> /\ closed

(* read_buf has the method m, or may have it.                              *)
Holds(m)    == Contains(read_buf, <<"b", m>>)
MayHold(m) == Holds(m) \/ \E i \in DOMAIN read_buf : read_buf[i][1] # "b"

(* Mutant: a method is accepted that the client did not offer. *)
ChooseMethod_Always ==
  /\ at = "methods" /\ Len(read_buf) >= nmethods
  /\ \/ MayHold(2) /\ Answer("user_pass", "login", Login)
     \/ ~Holds(2) /\ Answer("no_auth", "request", Request)
  /\ UNCHANGED <<cfg, client, router, inbox, closed, read_buf, nmethods, target, via, outbound,
                 opened, swallowed, relayed>>

(* User name and password are preferred to no authentication. *)
ChooseMethod ==
  /\ at = "methods" /\ Len(read_buf) >= nmethods
  /\ \/ MayHold(2) /\ Answer("user_pass", "login", Login)
     \/ ~Holds(2) /\ MayHold(0) /\ Answer("no_auth", "request", Request)
     \/ ~Holds(2) /\ ~Holds(0) /\ Answer("no_methods", "failed", <<>>)
  /\ UNCHANGED <<cfg, client, router, inbox, closed, read_buf, nmethods, target, via, outbound,
                 opened, swallowed, relayed>>

(* What the byte at i of the inbox may be.  No byte above ByteBound has a  *)
(* meaning; as a length it only makes a read longer.                       *)
ByteBound == 5
ByteAt(i) ==
  IF i > Len(inbox) THEN {} ELSE IF inbox[i][1] = "b" THEN {inbox[i][2]} ELSE 0 .. ByteBound

(* Mutant: one byte is read after the password. *)
Authenticate_ReadsOn ==
  /\ at = "login"
  /\ \E u \in ByteAt(2) : \E p \in ByteAt(3 + u) :
       /\ Take(4 + u + p)
       /\ read_buf' = SubSeq(inbox, 3, 2 + u) \o SubSeq(inbox, 4 + u, 3 + u + p)
       /\ IF read_buf' = <<>> THEN Answer("success", "request", Request)
          ELSE Answer("failure", "failed", <<>>)
  /\ UNCHANGED <<cfg, client, router, closed, nmethods, target, via, outbound, opened,
                 swallowed, relayed>>

(* The user name has u bytes and the password p; read_buf holds both, and  *)
(* is split at its end.  authed_users is empty: only empty ones pass.      *)
Authenticate ==
  /\ at = "login"
  /\ \E u \in ByteAt(2) : \E p \in ByteAt(3 + u) :
       /\ Take(3 + u + p)
       /\ read_buf' = SubSeq(inbox, 3, 2 + u) \o SubSeq(inbox, 4 + u, 3 + u + p)
       /\ IF read_buf' = <<>> THEN Answer("success", "request", Request)
          ELSE Answer("failure", "failed", <<>>)
  /\ UNCHANGED <<cfg, client, router, closed, nmethods, target, via, outbound, opened,
                 swallowed, relayed>>

(* Address::read_from_stream: an unknown type is an error, and a name that *)
(* is no text, which a client's own is not.                                *)
AddrTypes == {1, 3, 4}
OwnHost   == Len(inbox) >= 5 /\ inbox[5][1] = "host"

RequestFails ==
  /\ at = "request" /\ Len(inbox) >= 3
  /\ \/ \E v \in ByteAt(1) : v # 5
     \/ \E t \in ByteAt(4) : t \notin AddrTypes
     \/ Len(inbox) >= 5 /\ ~OwnHost
  /\ at' = "failed"
  /\ UNCHANGED <<cfg, client, router, clientVars, read_buf, nmethods, said, target, via,
                 outbound, opened, swallowed, relayed>>

(* The address of a request is that of the client, or, in other bytes that *)
(* are read as a request, any, of n units.                                 *)
AddressIs(a, n) ==
  IF OwnHost THEN a = inbox[5][2] /\ n = 1 ELSE a \in Addrs /\ n \in 1 .. Len(inbox) - 4

(* Mutant: the request is read with read_buf, as the methods are.          *)
ReadRequest_ReadsOn ==
  /\ at = "request" /\ Len(inbox) >= 5 /\ 5 \in ByteAt(1) /\ ByteAt(4) \cap AddrTypes # {}
  /\ \E a \in Addrs, n \in 1 .. Len(inbox) - 4 : AddressIs(a, n) /\ target' = a
  /\ Take(Len(inbox))
  /\ via' = "socks"
  /\ \E cmd \in ByteAt(2) :
       LET connect == cmd = 1
           udp     == cmd = 3 /\ cfg.enable_udp
       IN  \/ connect /\ Answer("success", "route", Data)
           \/ udp /\ (Answer("success", "udp", <<>>) \/ (at' = "failed" /\ UNCHANGED <<said, todo>>))
           \/ ~connect /\ ~udp /\ Answer("not_supported", "failed", <<>>)
  /\ read_buf' = <<>>
  /\ UNCHANGED <<cfg, client, router, closed, nmethods, outbound, opened, swallowed, relayed>>

(* Success is answered before the outbound is known or connected.          *)
ReadRequest ==
  /\ at = "request" /\ Len(inbox) >= 5 /\ 5 \in ByteAt(1) /\ ByteAt(4) \cap AddrTypes # {}
  /\ \E a \in Addrs, n \in 1 .. Len(inbox) - 4 :
       AddressIs(a, n) /\ Take(4 + n) /\ target' = a
  /\ via' = "socks"
  /\ \E cmd \in ByteAt(2) :
       LET connect == cmd = 1
           udp     == cmd = 3 /\ cfg.enable_udp
       IN  \/ connect /\ Answer("success", "route", Data)
           \/ udp /\ (Answer("success", "udp", <<>>) \/ (at' = "failed" /\ UNCHANGED <<said, todo>>))
           \/ ~connect /\ ~udp /\ Answer("not_supported", "failed", <<>>)
  /\ read_buf' = <<>>
  /\ UNCHANGED <<cfg, client, router, closed, nmethods, outbound, opened, swallowed, relayed>>

(* The client closes before all that a read_exact wants has come. *)
Short ==
  \/ at = "header" /\ Len(inbox) < 2
  \/ /\ at = "login"
     /\ \/ ByteAt(2) = {}
        \/ \E u \in ByteAt(2) : \/ ByteAt(3 + u) = {}
                              \/ \E p \in ByteAt(3 + u) : Len(inbox) < 3 + u + p
  \/ at = "request" /\ ~OwnHost

(* Mutant: only the header is read with read_exact. *)
ReadFails_OfHeader ==
  /\ closed /\ at = "header" /\ Short
  /\ at' = "failed"
  /\ UNCHANGED <<cfg, client, router, clientVars, read_buf, nmethods, said, target, via,
                 outbound, opened, swallowed, relayed>>

ReadFails ==
  /\ closed /\ Short
  /\ at' = "failed"
  /\ UNCHANGED <<cfg, client, router, clientVars, read_buf, nmethods, said, target, via,
                 outbound, opened, swallowed, relayed>>

-----------------------------------------------------------------------------
(* Address::from_str: an IP address without a port is no socket address,   *)
(* and is taken for a name with port 80; a bad port is an error.           *)
FromStr(r) ==
  CASE r.port = "bad" -> None
    [] r.port = "given" /\ r.host \in DOMAIN IpVal -> [type |-> "ip", host |-> r.host]
    [] OTHER -> [type |-> "name", host |-> r.host]

(* Connector::call has no stream for a bad address, or a TLS scheme. *)
ConnectorRefuses(r, addr) == addr = None \/ r.tls

(* proxy_connect answers 200 and leaves the rest to a task of its own;     *)
(* proxy hands the request, without the headers meant for it, to a client  *)
(* that connects through Connector.                                        *)
HttpRequest ==
  /\ at = "http" /\ inbox # <<>> /\ inbox[1][1] = "req" /\ Take(1)
  /\ LET r    == client.reqs[inbox[1][2]]
         addr == FromStr(r)
     IN  /\ target' = addr
         /\ via' = IF r.connect THEN "tunnel" ELSE "proxy"
         /\ \/ r.connect /\ addr = None /\ Answer("400", "http", <<>>)
            \/ r.connect /\ addr # None /\ Answer("200", "route", Data)
            \/ ~r.connect /\ ConnectorRefuses(r, addr) /\ Answer("500", "http", <<>>)
            \/ ~r.connect /\ ~ConnectorRefuses(r, addr) /\ at' = "route" /\ UNCHANGED <<said, todo>>
  /\ UNCHANGED <<cfg, client, router, closed, read_buf, nmethods, outbound, opened, swallowed,
                 relayed>>

(* serve_connection ends at the end of file, and for what is no request.   *)
HttpEnds ==
  /\ at = "http"
  /\ \/ inbox = <<>> /\ closed /\ at' = "done"
     \/ inbox # <<>> /\ inbox[1][1] # "req" /\ at' = "failed"
  /\ UNCHANGED <<cfg, client, router, clientVars, read_buf, nmethods, said, target, via,
                 outbound, opened, swallowed, relayed>>

-----------------------------------------------------------------------------
(* match_addr, and inner_map.get(ob).unwrap(). *)
Route ==
  /\ at = "route"
  /\ outbound' = MatchAddr(router, target)
  /\ at' = IF Contains(cfg.outbounds, outbound') THEN "build" ELSE "panicked"
  /\ UNCHANGED <<cfg, client, router, clientVars, read_buf, nmethods, said, target, via,
                 opened, swallowed, relayed>>

(* What the client meant: an IP address is one with or without a port.  If *)
(* some of it was read as methods it is what was read as its request.      *)
Asked ==
  IF client.kind = "http"
  THEN [type |-> IF target.host \in DOMAIN IpVal THEN "ip" ELSE "name", host |-> target.host]
  ELSE IF swallowed THEN target ELSE client.addr

(* build_tcp, see module Chain: it fails for a black hole, and may for any *)
(* other.  A proxied request is answered and the next one read.            *)
Build ==
  /\ at = "build" /\ outbound \notin cfg.blackholes
  /\ opened' = opened \cup {[asked |-> Asked, target |-> target, outbound |-> outbound]}
  /\ IF via = "proxy" THEN Answer("response", "http", <<>>)
     ELSE at' = "relay" /\ UNCHANGED <<said, todo>>
  /\ UNCHANGED <<cfg, client, router, inbox, closed, read_buf, nmethods, target, via, outbound,
                 swallowed, relayed>>

(* The tunnel and the SOCKS5 connection are dropped without a word; only   *)
(* proxy still has an answer to give.                                      *)
BuildFails ==
  /\ at = "build"
  /\ LET blocked == via = "tunnel" /\ outbound \in cfg.blackholes
     IN  \/ via = "proxy" /\ Answer("500", "http", <<>>)
         \/ blocked /\ at' = "done" /\ UNCHANGED <<said, todo>>
         \/ via # "proxy" /\ ~blocked /\ at' = "failed" /\ UNCHANGED <<said, todo>>
  /\ UNCHANGED <<cfg, client, router, inbox, closed, read_buf, nmethods, target, via, outbound,
                 opened, swallowed, relayed>>

(* Module Relay takes over, from the first byte that has not been read.    *)
Relay ==
  /\ at = "relay" /\ Take(1)
  /\ relayed' = Append(relayed, inbox[1])
  /\ UNCHANGED <<cfg, client, router, at, todo, closed, read_buf, nmethods, said, target, via,
                 outbound, opened, swallowed>>

-----------------------------------------------------------------------------
Serve ==
  \/ Peek \/ Dokodemo \/ Header \/ ChooseMethod \/ Authenticate \/ RequestFails \/ ReadRequest
  \/ \E k \in 1 .. Len(inbox) : ReadMethods(k)
  \/ ReadFails \/ HttpRequest \/ HttpEnds \/ Route \/ Build \/ BuildFails \/ Relay

Next ==
  \/ StartServer \/ Serve \/ ClientCloses
  \/ \E k \in 1 .. Len(todo) : ClientSends(k)

Spec == Init /\ [][Next]_vars

(* The runtime polls the service; a client sends what it has to send.      *)
FairSpec == Spec /\ WF_vars(Serve) /\ WF_vars(\E k \in 1 .. Len(todo) : ClientSends(k))

-----------------------------------------------------------------------------
(* A stream is opened through an outbound that the rules allow for what    *)
(* the client asked for.  Exceptions: an IP address under rules with CIDRs *)
(* of length 0; a name under a geosite file with tags in small letters;    *)
(* and an IP address in an HTTP request without a port, which no CIDR rule *)
(* is asked about.                                                         *)
RoutedByRules ==
  \A o \in opened :
    \/ o.outbound \in ByRules(cfg, o.asked)
    \/ IF o.asked.type = "ip" THEN WholeRange(cfg) ELSE LowerSite(cfg)
    \/ client.kind = "http" /\ o.target # o.asked

(* All of the client's data, also what it sent before it had an answer, is *)
(* relayed in order, and nothing before it is.  Exception: once bytes were *)
(* read as methods others may be read as the request, and what is relayed  *)
(* is what follows those, to its end.                                      *)
NothingLost ==
  at = "relay" =>
    LET all == relayed \o (inbox \o todo)
    IN  all = Data \/ (swallowed /\ Ending(all))

(* The method answered is one of those the client offered, unless others   *)
(* of its bytes were read as methods.                                      *)
MethodWasOffered ==
  client.kind = "socks" /\ said # <<>> =>
    \/ swallowed
    \/ said[1] = "user_pass" /\ Contains(client.methods, 2)
    \/ said[1] = "no_auth" /\ Contains(client.methods, 0) /\ ~Contains(client.methods, 2)
    \/ said[1] = "no_methods" /\ {0, 2} \cap ToSet(client.methods) = {}

Over == {"stopped", "done", "failed", "relay", "udp"}
UnknownTag == RuleTags(cfg) \ ToSet(cfg.outbounds) # {}

(* When the client closes the service ends or relays what is left, unless  *)
(* the methods were not complete: then it spins; or a rule has a tag that  *)
(* is no outbound: then it panics.                                         *)
ServiceEnds ==
  closed ~> at \in Over \/ Spins \/ (at = "panicked" /\ UnknownTag)

(* A client that sends its part is served, up to the relay, the UDP        *)
(* association or a refusal, and with HTTP up to its last request; unless  *)
(* some of it was read as methods: then both wait.                         *)
ClientIsServed ==
  at = "listen" ~>
    \/ at \in Over \/ closed \/ swallowed \/ (at = "panicked" /\ UnknownTag)
    \/ at = "http" /\ inbox = <<>> /\ todo = <<>>

-----------------------------------------------------------------------------
(* NothingLost and MethodWasOffered are not inductive: what the service    *)
(* has still to read is, at each step of the handshake, what the client    *)
(* says from there on.                                                     *)
Left == inbox \o todo

RequestsLeft ==
  /\ client.kind = "http"
  /\ \E j \in 0 .. Len(client.reqs) :
       Left = SubSeq(Requests, j + 1, Len(client.reqs)) \o Eagerly(Data)

OnScript ==
  /\ at \in {"config", "listen", "header"} => Left = FirstWords /\ read_buf = <<>>
  /\ at = "methods" =>
       /\ nmethods = Len(client.methods) /\ Len(read_buf) <= nmethods
       /\ read_buf \o Left = Methods \o Eagerly(AfterHello)
  /\ at = "login"   => Contains(client.methods, 2) /\ Left = Login \o Eagerly(Request \o Data)
  /\ at = "request" => Left = Request \o Eagerly(Data)

(* Once bytes have been read as methods it is some end of that.            *)
OffScript ==
  /\ client.kind = "socks" /\ client.eager /\ at \notin {"config", "listen", "header", "http"}
  /\ at \in {"methods", "login", "request", "route", "build"} => Ending(Left)
  /\ at = "relay" => Ending(relayed \o Left)

ScriptInv ==
  /\ IF swallowed THEN OffScript ELSE OnScript
  /\ at \in {"header", "methods", "login", "request"} => client.kind = "socks"
  /\ at = "http" => RequestsLeft \/ (client.kind = "socks" /\ inbox = <<>> /\ closed)
  /\ at \in {"route", "build"} => IF via = "proxy" THEN RequestsLeft ELSE swallowed \/ Left = Data
  /\ IF at = "relay" THEN swallowed \/ relayed \o Left = Data ELSE relayed = <<>>
  /\ client.kind = "socks" /\ at \in {"config", "listen", "header", "methods", "http"} => said = <<>>
  /\ client.kind = "socks" /\ at \in {"login", "request", "route", "build", "relay", "udp"} => said # <<>>

(* The client's units, and the server's answers. *)
Units == ({"b", "cred", "req", "data"} \X Nat)
         \cup ({"host"} \X Addrs)

Answers == {"user_pass", "no_auth", "no_methods", "success", "failure", "not_supported",
            "200", "400", "500", "response"}

UnitsInv ==
  /\ \E x \in Cases : client = x[2]
  /\ inbox \in Seq(Units) /\ todo \in Seq(Units) /\ relayed \in Seq(Units) /\ said \in Seq(Answers)
  /\ at = "methods" => read_buf \in Seq(Units) /\ nmethods \in Nat

IInv == UnitsInv /\ ScriptInv /\ MethodWasOffered

(* RoutedByRules: the router holds the rules, RouterInv of module Router,  *)
(* and is asked for the address that the client gave, or that was read as  *)
(* its request.                                                            *)
OpenedInv ==
  /\ at = "build" => outbound = MatchAddr(router, target)
  /\ at \in {"route", "build"} /\ client.kind # "http" => swallowed \/ target = client.addr
  /\ at \in {"config", "stopped"} => opened = {}
  /\ \A o \in opened : /\ o.outbound = MatchAddr(router, o.target)
                       /\ client.kind # "http" => o.target = o.asked
=============================================================================
