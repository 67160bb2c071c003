----------------------------- MODULE MCInbound -----------------------------
(***************************************************************************)
(* Small configurations and clients for module Inbound.  Addresses have    *)
(* two bits.  Two families of configurations vary the rules for names and  *)
(* for IP addresses and meet a few clients; a few configurations meet all  *)
(* clients.                                                                *)
(***************************************************************************)
EXTENDS Inbound

MCCovers   == [r1 |-> {"x"}, r2 |-> {"x", "y"}, e1 |-> {"x"}, e2 |-> {"y"}, e3 |-> {}]
MCRegexes  == {"e1", "e2", "e3"}
MCBadRegex == {"e3"}
MCIpVal    == [ip1 |-> 1, ip2 |-> 2]

Name(h) == [type |-> "name", host |-> h]
Ip(h)   == [type |-> "ip", host |-> h]

Plain == [domain |-> <<>>, ip |-> <<>>, geosite |-> <<>>, geoip |-> <<>>,
          outbounds |-> <<"A", "B", "D">>, default_outbound |-> "D", enable_udp |-> TRUE,
          blackholes |-> {}]

(* Rules for names. *)
DomainEntries == [tag : {"A", "B"}, rules : {{}, {"r1"}, {"r2"}}, regex : {{}, {"e1"}, {"e2"}}]
Group(tag, case, entries) == [tag |-> <<tag, case>>, entries |-> entries, extra |-> FALSE]
Sites == <<Group("g", "upper", <<"r1", "e2">>), Group("h", "upper", <<"r2">>)>>
SmallSites == <<Group("g", "lower", <<"r1">>), Group("h", "upper", <<"e1">>)>>
Site(tag, names, file) ==
  [tag |-> tag, rules |-> {<<n, "lower">> : n \in names}, file |-> file, found |-> TRUE]
SiteSections ==
  {<<>>, <<Site("B", {"g"}, Sites)>>, <<Site("A", {"h"}, Sites), Site("B", {"g", "h"}, Sites)>>,
   <<Site("A", {"g", "h"}, SmallSites)>>, <<Site("A", {}, Sites), Site("B", {"h"}, <<>>)>>}

NameConfigs ==
  {[Plain EXCEPT !.domain = d, !.geosite = g]
     : d \in BoundedSeq(DomainEntries, 2), g \in SiteSections}

(* Rules for IP addresses. *)
Cidr(ip, prefix) == [ip |-> ip, prefix |-> prefix]
IpEntries == [tag : {"A", "B"},
              cidrs : {<<>>, <<Cidr(0, 1)>>, <<Cidr(1, 2), Cidr(2, 1)>>, <<Cidr(2, 0)>>,
                       <<Cidr(0, 3)>>}]
Nets == <<Group("g", "lower", <<Cidr(1, 2), Cidr(2, 1)>>), Group("h", "upper", <<Cidr(2, 2)>>),
          Group("w", "upper", <<Cidr(2, 2), Cidr(0, 0)>>)>>
SecondNet == <<Nets[2], Nets[1]>>
NetSections ==
  {<<>>, <<Site("B", {"g"}, Nets)>>, <<Site("A", {"h"}, Nets), Site("B", {"g", "h"}, SecondNet)>>,
   <<Site("A", {"w"}, Nets)>>, <<Site("A", {"h"}, Nets)>>, <<Site("A", {"h"}, <<>>)>>}

IpConfigs ==
  {[Plain EXCEPT !.ip = d, !.geoip = g] : d \in BoundedSeq(IpEntries, 2), g \in NetSections}

(* Configurations for all clients, and ones the server does not start with *)
(* or that name an outbound that does not exist.                           *)
Blocking == [Plain EXCEPT !.domain = <<[tag |-> "A", rules |-> {"r1"}, regex |-> {}]>>,
                          !.ip = <<[tag |-> "A", cidrs |-> <<Cidr(0, 1)>>]>>,
                          !.enable_udp = FALSE, !.default_outbound = "", !.outbounds = <<"D", "A">>,
                          !.blackholes = {"A"}]
Unknown  == [Plain EXCEPT !.domain = <<[tag |-> "C", rules |-> {"r1"}, regex |-> {}]>>]
Missing(file) == [tag |-> "A", rules |-> {}, file |-> file, found |-> FALSE]
Extra(entry) == <<[tag |-> <<"g", "upper">>, entries |-> <<entry>>, extra |-> TRUE]>>
Stopping ==
  {[Plain EXCEPT !.default_outbound = "C"],
   [Plain EXCEPT !.outbounds = <<>>, !.default_outbound = ""],
   [Plain EXCEPT !.domain = <<[tag |-> "A", rules |-> {}, regex |-> {"e3"}]>>],
   [Plain EXCEPT !.geosite = <<Missing(<<>>)>>], [Plain EXCEPT !.geoip = <<Missing(<<>>)>>],
   [Plain EXCEPT !.geosite = <<Site("A", {"g"}, Extra("r1"))>>],
   [Plain EXCEPT !.geoip = <<Site("A", {"g"}, Extra(Cidr(1, 2)))>>]}

-----------------------------------------------------------------------------
Socks(methods, cred, cmd, addr, atyp, eager) ==
  [kind |-> "socks", methods |-> methods, user |-> cred[1], pass |-> cred[2], cmd |-> cmd,
   addr |-> addr, atyp |-> atyp, eager |-> eager, data |-> 1]
Doko(addr, fixed) ==
  [kind |-> "doko", addr |-> addr, fixed |-> fixed, eager |-> TRUE, data |-> 1]
Http(reqs, eager) == [kind |-> "http", reqs |-> reqs, eager |-> eager, data |-> 2]
Req(connect, host, port, tls) == [connect |-> connect, host |-> host, port |-> port, tls |-> tls]

SocksClients ==
  {Socks(m, <<0, 0>>, cmd, a[1], a[2], eager)
     : m \in {<<>>, <<0>>, <<1, 0>>, <<1>>}, cmd \in 1 .. 3,
       a \in {<<Name("x"), 3>>, <<Ip("ip1"), 1>>, <<Name("x"), 9>>}, eager \in BOOLEAN}
  \cup {Socks(<<0, 2>>, cred, 1, Ip("ip2"), 1, eager)
          : cred \in {<<0, 0>>, <<1, 0>>, <<0, 2>>, <<1, 1>>}, eager \in BOOLEAN}

(* Their data can be read as a login and a request. *)
TalkativeClients ==
  {[Socks(m, <<0, 0>>, 1, Name("x"), 3, TRUE) EXCEPT !.data = 8] : m \in {<<0>>, <<2>>}}

Connects == {Req(TRUE, h, p, FALSE) : h \in {"x", "ip1"}, p \in {"given", "none", "bad"}}
Gets     == {Req(FALSE, h, p, tls) : h \in {"y", "ip1"}, p \in {"none", "bad"}, tls \in BOOLEAN}
HttpClients ==
  {Http(rs, eager) : rs \in {<<c>> : c \in Connects} \cup {<<g, c>> : g \in Gets, c \in Connects},
                     eager \in BOOLEAN}
DokoClients == {Doko(Ip("ip1"), fixed) : fixed \in BOOLEAN}

MCCases ==
  (NameConfigs \X {Http(<<Req(FALSE, h, "none", FALSE)>>, FALSE) : h \in {"x", "y"}})
  \cup (IpConfigs \X {Doko(Ip(h), FALSE) : h \in {"ip1", "ip2"}})
  \cup ({Plain, Blocking, Unknown} \X (SocksClients \cup TalkativeClients \cup HttpClients \cup DokoClients))
  \cup (Stopping \X DokoClients)
=============================================================================
