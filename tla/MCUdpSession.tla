---------------------------- MODULE MCUdpSession ----------------------------
(* Two targets routed to one outbound and one to another; a channel of one *)
(* reply, so that it is full, and two replies through each outbound.  Two  *)
(* datagrams meet in one channel or use both; a direct outbound keeps the  *)
(* first target, the stream of the other can be slow.                      *)
EXTENDS UdpSession

MCRoute == [t \in Targets |-> IF t = "t3" THEN "trojan" ELSE "direct"]
MCReplies == [o \in Outbounds |-> 2]
=============================================================================
