------------------------------ MODULE BytePipe ------------------------------
(***************************************************************************)
(* What a relayed connection promises its two ends, whatever the buffers,  *)
(* counters and futures behind it: in each direction the receiver gets the *)
(* sender's bytes in order, each once; nothing moves once the connection   *)
(* is closed; and a direction that is reported complete has lost nothing.  *)
(* It promises no more: closing may cut a direction off anywhere.          *)
(***************************************************************************)
EXTENDS Naturals, Sequences

CONSTANTS
  Conns,  \* the connections
  Dirs    \* the directions of each

VARIABLES
  sent,      \* per direction of each connection, the bytes it was given
  received,  \* the bytes its receiver has got
  open,      \* the connections that are not closed yet
  complete   \* the directions that ended with the end of the sender's data

vars == <<sent, received, open, complete>>

Pipes == Conns \X Dirs

PrefixOf(s, t) == Len(s) <= Len(t) /\ s = SubSeq(t, 1, Len(s))

Init ==
  /\ sent     = [p \in Pipes |-> <<>>]
  /\ received = [p \in Pipes |-> <<>>]
  /\ open     = Conns
  /\ complete = {}

(* The sender of p gives more bytes. *)
Send(p) ==
  /\ p[1] \in open
  /\ sent' = [sent EXCEPT ![p] = sent'[p]]
  /\ PrefixOf(sent[p], sent'[p])
  /\ UNCHANGED <<received, open, complete>>

(* The receiver of p gets the next bytes. *)
Deliver(p) ==
  /\ p[1] \in open
  /\ received' = [received EXCEPT ![p] = received'[p]]
  /\ PrefixOf(received[p], received'[p])
  /\ PrefixOf(received'[p], sent[p])
  /\ UNCHANGED <<sent, open, complete>>

(* Connection c closes, passing on what it still can; it may report a      *)
(* direction as complete only if that direction's receiver has everything. *)
Close(c) ==
  /\ c \in open
  /\ open' = open \ {c}
  /\ \A p \in Pipes :
       /\ p[1] # c => received'[p] = received[p]
       /\ PrefixOf(received[p], received'[p])
       /\ PrefixOf(received'[p], sent[p])
  /\ complete \subseteq complete'
  /\ \A p \in complete' \ complete :
       p \in Pipes /\ p[1] = c /\ received'[p] = sent[p]
  /\ UNCHANGED sent

Next ==
  \/ \E p \in Pipes : Send(p) \/ Deliver(p)
  \/ \E c \in Conns : Close(c)

Spec == Init /\ [][Next]_vars
=============================================================================
