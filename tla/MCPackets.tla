----------------------------- MODULE MCPackets -----------------------------
(* Two datagrams, so that one packet follows another in the stream and two *)
(* can change places on the network, and three receipts, so that one is    *)
(* doubled; an address of each length.                                     *)
EXTENDS Packets

MCAddrType == [a \in Addrs |-> IF a = "ip" THEN "v4" ELSE "domain"]
=============================================================================
