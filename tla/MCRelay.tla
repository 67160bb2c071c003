------------------------------ MODULE MCRelay ------------------------------
(* Two connections from one inbound to one outbound, so that all four      *)
(* counters are shared.  The first one's upload goes through a writer that *)
(* buffers, and fills the copy's buffer more than once.                    *)
EXTENDS Relay

CONSTANTS c1, c2

MCConns     == {c1, c2}
MCInTag     == [c \in MCConns |-> "in"]
MCOutTag    == [c \in MCConns |-> "out"]
MCBuffering == {<<c1, "up">>}
MCQueried   == {<<"inbound", "in", "up">>}
MCMaxBytes  == [k \in MCConns \X {"up", "down"} |->
                  CASE k = <<c1, "up">>   -> 3
                    [] k = <<c1, "down">> -> 1
                    [] k = <<c2, "up">>   -> 1
                    [] OTHER              -> 0]
=============================================================================
