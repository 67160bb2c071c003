------------------------------- MODULE Relay -------------------------------
(***************************************************************************)
(* The data path of every proxied TCP connection: relay() and              *)
(* relay_with_atomic_counter() race two copy futures, one per direction,   *)
(* and the API's get_stats reads, and on request resets, the traffic       *)
(* counters those copies add to (common/net/copy_with_capacity.rs,         *)
(* common/net/mod.rs, api/mod.rs).                                         *)
(*                                                                         *)
(* The k-th byte a copy takes from its reader is the number k, so that a   *)
(* lost, repeated, reordered or stale byte is visible in what the writer   *)
(* gets.  The streams themselves are external: a reader gives some bytes,  *)
(* end of file or an error, a writer takes some of what it is offered or   *)
(* fails, and both may be pending for any length of time.                  *)
(***************************************************************************)
EXTENDS Naturals, Sequences, FiniteSets

CONSTANTS
  Conns,      \* the connections, one run of relay each
  InTag,      \* InTag[c]: the tag of the inbound that accepted c
  OutTag,     \* OutTag[c]: the tag of the outbound c is routed to
  Counted,    \* the connections relayed by relay_with_atomic_counter
  Queried,    \* bound: the counters that API clients ask for
  Buffering,  \* the copies whose writer keeps bytes back until it is flushed
  Capacity,   \* LW_BUFFER_SIZE * relay_buffer_size
  MaxBytes    \* bound: how many bytes the reader of each copy has

Dirs == {"up", "down"}

(* A copy future is named by its connection and its direction. *)
Copies == Conns \X Dirs

(* The counters of COUNTER_MAP: two per inbound and two per outbound. *)

Counter(side, tag, d) == <<side, tag, d>>

Counters ==
       {Counter("inbound", InTag[c], d) : c \in Conns, d \in Dirs}
  \cup {Counter("outbound", OutTag[c], d) : c \in Conns, d \in Dirs}

ASSUME RelayAssumption ==
  /\ Capacity \in Nat \ {0}
  /\ MaxBytes \in [Copies -> Nat]
  /\ Counted \subseteq Conns
  /\ Queried \subseteq Counters
  /\ Buffering \subseteq Copies

VARIABLES
  pos, cap, read_done, buf,  \* the fields of the copy futures
  src,        \* bytes a copy has taken from its reader
  out,        \* bytes a copy's writer has accepted, in order
  flushed,    \* how many of those the writer has passed on
  result,     \* what the copy future has returned
  phase,      \* whether relay has not begun, is running or has returned
  counter,    \* COUNTER_MAP
  collected   \* history: what resetting get_stats calls have returned

copyVars  == <<pos, cap, read_done, buf, src, out, flushed, result>>
statsVars == <<counter, collected>>
vars      == <<copyVars, phase, statsVars>>

-----------------------------------------------------------------------------
(* The upload copy reads from the inbound and writes to the outbound, the  *)
(* download copy the other way round; each side is counted under its tag.  *)
AmtIn(k) ==
  IF k[2] = "up" THEN Counter("inbound", InTag[k[1]], "up")
                 ELSE Counter("outbound", OutTag[k[1]], "down")

(* Mutant: the upload's written bytes are counted on the inbound side. *)
AmtOut_SameSide(k) ==
  IF k[2] = "up" THEN Counter("inbound", InTag[k[1]], "up")
                 ELSE Counter("inbound", InTag[k[1]], "down")

AmtOut(k) ==
  IF k[2] = "up" THEN Counter("outbound", OutTag[k[1]], "up")
                 ELSE Counter("inbound", InTag[k[1]], "down")

(* fetch_add on a counter; plain relay() only counts for its log line. *)
FetchAdd(k, ctr, n) ==
  /\ counter' = IF k[1] \in Counted THEN [counter EXCEPT ![ctr] = @ + n]
                                    ELSE counter
  /\ UNCHANGED collected

-----------------------------------------------------------------------------
Init ==
  /\ pos       = [k \in Copies |-> 0]
  /\ cap       = [k \in Copies |-> 0]
  /\ read_done = [k \in Copies |-> FALSE]
  /\ buf       = [k \in Copies |-> [j \in 1 .. Capacity |-> 0]]
  /\ src       = [k \in Copies |-> 0]
  /\ out       = [k \in Copies |-> <<>>]
  /\ flushed   = [k \in Copies |-> 0]
  /\ result    = [k \in Copies |-> "pending"]
  /\ phase     = [c \in Conns |-> "idle"]
  /\ counter   = [ctr \in Counters |-> 0]
  /\ collected = [ctr \in Counters |-> 0]

(* relay is called: both copy futures exist, with empty buffers. *)
Start(c) ==
  /\ phase[c] = "idle"
  /\ phase' = [phase EXCEPT ![c] = "relaying"]
  /\ UNCHANGED <<copyVars, statsVars>>

Polled(k) == phase[k[1]] = "relaying"

(* Mutant: pos is not reset for the bytes just read. *)
Read_KeepsPos(k, n) ==
  /\ Polled(k)
  /\ pos[k] = cap[k] /\ ~read_done[k]
  /\ src[k] + n <= MaxBytes[k]
  /\ buf' = [buf EXCEPT ![k] =
               [j \in 1 .. Capacity |-> IF j <= n THEN src[k] + j ELSE @[j]]]
  /\ src' = [src EXCEPT ![k] = @ + n]
  /\ cap' = [cap EXCEPT ![k] = n]
  /\ FetchAdd(k, AmtIn(k), n)
  /\ UNCHANGED <<pos, read_done, out, flushed, result, phase>>

(* poll_read fills n bytes of the copy's buffer, over what was there. *)
Read(k, n) ==
  /\ Polled(k)
  /\ pos[k] = cap[k] /\ ~read_done[k]
  /\ src[k] + n <= MaxBytes[k]
  /\ buf' = [buf EXCEPT ![k] =
               [j \in 1 .. Capacity |-> IF j <= n THEN src[k] + j ELSE @[j]]]
  /\ src' = [src EXCEPT ![k] = @ + n]
  /\ pos' = [pos EXCEPT ![k] = 0]
  /\ cap' = [cap EXCEPT ![k] = n]
  /\ FetchAdd(k, AmtIn(k), n)
  /\ UNCHANGED <<read_done, out, flushed, result, phase>>

(* poll_read fills nothing: end of file. *)
ReadEof(k) ==
  /\ Polled(k)
  /\ pos[k] = cap[k] /\ ~read_done[k]
  /\ read_done' = [read_done EXCEPT ![k] = TRUE]
  /\ UNCHANGED <<pos, cap, buf, src, out, flushed, result, phase, statsVars>>

(* Mutant: the writer's count is trusted beyond what it was offered. *)
Write_OverReport(k, i) ==
  /\ Polled(k)
  /\ pos[k] < cap[k]
  /\ out' = [out EXCEPT ![k] = @ \o SubSeq(buf[k], pos[k] + 1, cap[k])]
  /\ pos' = [pos EXCEPT ![k] = @ + i]
  /\ flushed' = [flushed EXCEPT ![k] = Len(out'[k])]
  /\ FetchAdd(k, AmtOut(k), i)
  /\ UNCHANGED <<cap, read_done, buf, src, result, phase>>

(* Mutant: nothing is written before the reader has ended. *)
Write_AfterEof(k, i) ==
  /\ Polled(k) /\ read_done[k]
  /\ pos[k] + i <= cap[k]
  /\ out' = [out EXCEPT ![k] = @ \o SubSeq(buf[k], pos[k] + 1, pos[k] + i)]
  /\ pos' = [pos EXCEPT ![k] = @ + i]
  /\ flushed' = [flushed EXCEPT ![k] = Len(out[k]) + i]
  /\ FetchAdd(k, AmtOut(k), i)
  /\ UNCHANGED <<cap, read_done, buf, src, result, phase>>

(* poll_write takes i of the bytes offered; a buffering writer may keep    *)
(* them, and what it kept before, back.                                    *)
Write(k, i) ==
  /\ Polled(k)
  /\ pos[k] + i <= cap[k]
  /\ out' = [out EXCEPT ![k] = @ \o SubSeq(buf[k], pos[k] + 1, pos[k] + i)]
  /\ pos' = [pos EXCEPT ![k] = @ + i]
  /\ \/ flushed' = [flushed EXCEPT ![k] = Len(out[k]) + i]
     \/ k \in Buffering /\ UNCHANGED flushed
  /\ FetchAdd(k, AmtOut(k), i)
  /\ UNCHANGED <<cap, read_done, buf, src, result, phase>>

(* One copy future is ready, so the select! of relay is: it drops the      *)
(* other future with what its buffer holds, and both streams.              *)
Return(k, r) ==
  /\ result' = [result EXCEPT ![k] = r]
  /\ phase' = [phase EXCEPT ![k[1]] = "closed"]

(* Mutant: the copy finishes without flushing its writer. *)
Flush_Skipped(k) ==
  /\ Polled(k)
  /\ pos[k] = cap[k] /\ read_done[k]
  /\ Return(k, "ok")
  /\ UNCHANGED <<pos, cap, read_done, buf, src, out, flushed, statsVars>>

(* Mutant: relay waits for both directions to end. *)
Flush_WaitsForBoth(k) ==
  /\ Polled(k)
  /\ \A d \in Dirs : read_done[<<k[1], d>>]
  /\ pos[k] = cap[k]
  /\ flushed' = [flushed EXCEPT ![k] = Len(out[k])]
  /\ Return(k, "ok")
  /\ UNCHANGED <<pos, cap, read_done, buf, src, out, statsVars>>

(* All is written and the reader has ended: flush and finish. *)
Flush(k) ==
  /\ Polled(k)
  /\ pos[k] = cap[k] /\ read_done[k]
  /\ flushed' = [flushed EXCEPT ![k] = Len(out[k])]
  /\ Return(k, "ok")
  /\ UNCHANGED <<pos, cap, read_done, buf, src, out, statsVars>>

(* Mutant: an error is taken for the end of the data. *)
PollErr_AsOk(k) ==
  /\ Polled(k)
  /\ Return(k, "ok")
  /\ UNCHANGED <<pos, cap, read_done, buf, src, out, flushed, statsVars>>

(* poll_read, poll_write or poll_flush fails, or a write takes no byte. *)
PollErr(k) ==
  /\ Polled(k)
  /\ Return(k, "err")
  /\ UNCHANGED <<pos, cap, read_done, buf, src, out, flushed, statsVars>>

-----------------------------------------------------------------------------
(* get_stats with reset: the value is swapped out in one step and returned.*)
(* Without reset it is only loaded, which changes nothing.                 *)
GetStatsReset(ctr) ==
  /\ counter[ctr] > 0
  /\ collected' = [collected EXCEPT ![ctr] = @ + counter[ctr]]
  /\ counter' = [counter EXCEPT ![ctr] = 0]
  /\ UNCHANGED <<copyVars, phase>>

CopyStep(k) ==
  \/ \E n \in 1 .. Capacity : Read(k, n)
  \/ ReadEof(k)
  \/ \E i \in 1 .. Capacity : Write(k, i)
  \/ Flush(k)
  \/ PollErr(k)

Next ==
  \/ \E c \in Conns : Start(c)
  \/ \E k \in Copies : CopyStep(k)
  \/ \E ctr \in Queried : GetStatsReset(ctr)

(* The executor polls a woken task again and a writer that is not broken   *)
(* takes bytes sooner or later; nothing obliges a reader to give any.      *)
Fairness ==
  \A k \in Copies :
    /\ WF_vars(\E i \in 1 .. Capacity : Write(k, i))
    /\ WF_vars(Flush(k))

Spec     == Init /\ [][Next]_vars
FairSpec == Spec /\ Fairness

-----------------------------------------------------------------------------
TypeOK ==
  /\ pos       \in [Copies -> 0 .. Capacity]
  /\ cap       \in [Copies -> 0 .. Capacity]
  /\ read_done \in [Copies -> BOOLEAN]
  /\ buf       \in [Copies -> [1 .. Capacity -> Nat]]
  /\ src       \in [Copies -> Nat]
  /\ out       \in [Copies -> Seq(Nat)]
  /\ flushed   \in [Copies -> Nat]
  /\ result    \in [Copies -> {"pending", "ok", "err"}]
  /\ phase     \in [Conns -> {"idle", "relaying", "closed"}]
  /\ counter   \in [Counters -> Nat]
  /\ collected \in [Counters -> Nat]

(* The first n bytes of any reader. *)
Bytes(n) == [j \in 1 .. n |-> j]

(* The writer of a copy has got exactly the reader's bytes, in order, each *)
(* once, except for those the buffer still holds between pos and cap, and  *)
(* those are the next ones (poll's use of pos, cap and the reused buf).    *)
ByteFidelity ==
  \A k \in Copies :
    /\ pos[k] <= cap[k]
    /\ Len(out[k]) + (cap[k] - pos[k]) = src[k]
    /\ out[k] = Bytes(Len(out[k]))
    /\ \A j \in pos[k] + 1 .. cap[k] : buf[k][j] = Len(out[k]) + (j - pos[k])

(* A copy that returned Ok has passed on every byte it ever read, even     *)
(* through a writer that holds bytes back until poll_flush.                *)
CleanEndComplete ==
  \A k \in Copies : result[k] = "ok" => flushed[k] = src[k]

(* The bytes that the counted connections in C have moved, moved[c] by c:  *)
(* in direction d, taken from their readers or accepted by their writers.  *)
Moved(C, moved)  == UNION {{c} \X (1 .. moved[c]) : c \in C \cap Counted}
BytesRead(d)     == [c \in Conns |-> src[<<c, d>>]]
BytesWritten(d)  == [c \in Conns |-> Len(out[<<c, d>>])]
SameIn(c)        == {e \in Conns : InTag[e] = InTag[c]}
SameOut(c)       == {e \in Conns : OutTag[e] = OutTag[c]}

(* What a counter holds and what get_stats has taken out of it.            *)
Total(side, tag, d) == counter[Counter(side, tag, d)] + collected[Counter(side, tag, d)]

(* Statistics lose and invent nothing: what a counter holds and what       *)
(* resetting get_stats calls have taken out of it add up to the bytes that *)
(* crossed its side under its tag, however the fetch_adds of connections   *)
(* that share a tag and the swap interleave.                               *)
StatsConserved ==
  \A c \in Conns :
    /\ Total("inbound", InTag[c], "up")     = Cardinality(Moved(SameIn(c), BytesRead("up")))
    /\ Total("inbound", InTag[c], "down")   = Cardinality(Moved(SameIn(c), BytesWritten("down")))
    /\ Total("outbound", OutTag[c], "up")   = Cardinality(Moved(SameOut(c), BytesWritten("up")))
    /\ Total("outbound", OutTag[c], "down") = Cardinality(Moved(SameOut(c), BytesRead("down")))

(* A byte that was read reaches the peer or the relay ends, if the writer  *)
(* does not hold bytes back; and a reader's end of file ends the relay.    *)
ReadIsDelivered ==
  \A k \in Copies \ Buffering : \A n \in 1 .. MaxBytes[k] :
    src[k] >= n ~> flushed[k] >= n \/ phase[k[1]] = "closed"

EofEndsRelay ==
  \A k \in Copies : read_done[k] ~> phase[k[1]] = "closed"

(* ByteFidelity and CleanEndComplete become inductive with this: a writer  *)
(* passes on no more than it accepted, and a copy that has returned is     *)
(* never polled again, because relay has returned with it.                 *)
EndedInv ==
  \A k \in Copies :
    /\ flushed[k] <= Len(out[k])
    /\ result[k] # "pending" => phase[k[1]] = "closed"

(* StatsConserved with this: there are only ever finitely many bytes.      *)
MovedFinite ==
  \A c \in Conns :
    \A C \in {SameIn(c), SameOut(c)}, d \in Dirs :
      IsFiniteSet(Moved(C, BytesRead(d))) /\ IsFiniteSet(Moved(C, BytesWritten(d)))

IInv == TypeOK /\ ByteFidelity /\ CleanEndComplete /\ EndedInv

(* The relay implements the abstract pipe: what the peers see is the bytes *)
(* writers passed on, and a copy that returned Ok reports its direction    *)
(* complete.                                                               *)
Pipe == INSTANCE BytePipe WITH
          sent     <- [k \in Copies |-> Bytes(src[k])],
          received <- [k \in Copies |-> SubSeq(out[k], 1, flushed[k])],
          open     <- {c \in Conns : phase[c] # "closed"},
          complete <- {k \in Copies : result[k] = "ok"}

ImplementsPipe == Pipe!Spec
=============================================================================
