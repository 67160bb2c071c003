------------------------------ MODULE MCChain ------------------------------
(* Two Shadowsocks and two UoT servers, a transport without a server of    *)
(* its own, direct and a black hole; chains of up to MaxChain of them.     *)
EXTENDS Chain

MCTags  == {"ss0", "ss1", "v", "t", "w", "d", "b"}
MCProto == [t \in MCTags |->
              CASE t \in {"ss0", "ss1"} -> "SS"
                [] t = "v"              -> "Vmess"
                [] t = "t"              -> "Trojan"
                [] t = "w"              -> "WS"
                [] t = "d"              -> "Direct"
                [] t = "b"              -> "Blackhole"]
=============================================================================
