---------------------------- MODULE SaltContext ----------------------------
(***************************************************************************)
(* The salts of Shadowsocks streams.  One BloomContext is shared by every  *)
(* CryptoStream of the process (SS_LOCAL_SHARED_CONTEXT, config/mod.rs): a *)
(* stream draws its own salt until the context has not seen it, and        *)
(* refuses the connection when the salt it receives has been seen.  The    *)
(* context is a PingPongBloom, two Bloom filters used as a ring, under a   *)
(* spin lock (shadowsocks/context.rs, crypto_io.rs).                       *)
(*                                                                         *)
(* A salt is a value of Salts; streams run on the threads of the runtime,  *)
(* so the steps of two check_and_set calls interleave as the lock permits. *)
(***************************************************************************)
EXTENDS Integers, Sequences

CONSTANTS
  Streams,    \* the CryptoStreams created
  Salts,      \* the salts that can be drawn or received
  ItemCount,  \* PingPongBloom::item_count, half of BF_NUM_ENTRIES_FOR_CLIENT
  Unlocked    \* the lock's holder when nobody holds it

ASSUME SaltAssumption ==
  /\ ItemCount \in Nat \ {0}
  /\ Unlocked \notin Streams
  /\ Salts # {}

VARIABLES
  blooms,       \* what has been set in each filter since it was cleared
  bloom_count,
  current,      \* the filter being filled, 0 or 1
  lock,         \* the stream in check_and_set
  pc,           \* where each stream is
  side,         \* whose salt it deals with: its "own" or its "peer"'s
  salt,         \* that salt (arbitrary until it is drawn)
  used          \* history: the salts under which keys were derived, in order

ppbloom == <<blooms, bloom_count, current>>
vars    == <<ppbloom, lock, pc, side, salt, used>>

(* "new": not yet created; "draw": in the loop of CryptoStream::new;       *)
(* "lock", "check" and "set": in check_nonce_and_set; "wait_iv" and        *)
(* "established": the ReadStatus; "failed": the read returned an error.    *)
PC == {"new", "draw", "lock", "check", "set", "wait_iv", "established", "failed"}

Goto(s, l) == pc' = [pc EXCEPT ![s] = l]

Init ==
  /\ blooms = [b \in 0 .. 1 |-> {}]
  /\ bloom_count = [b \in 0 .. 1 |-> 0]
  /\ current = 0
  /\ lock = Unlocked
  /\ pc = [s \in Streams |-> "new"]
  /\ side = [s \in Streams |-> "own"]
  /\ salt \in [Streams -> Salts]
  /\ used = <<>>

-----------------------------------------------------------------------------
(* CryptoStream::new; with CipherKind::None there is no salt at all.       *)
New(s) ==
  /\ pc[s] = "new"
  /\ Goto(s, "draw") \/ Goto(s, "established")
  /\ UNCHANGED <<ppbloom, lock, side, salt, used>>

(* One round of the loop: random_iv_or_salt, then check_nonce_and_set.     *)
Draw(s) ==
  /\ pc[s] = "draw"
  /\ \E x \in Salts : salt' = [salt EXCEPT ![s] = x]
  /\ Goto(s, "lock")
  /\ UNCHANGED <<ppbloom, lock, side, used>>

(* poll_read_handshake has read the peer's salt, whatever the peer sent.   *)
ReadIv(s) ==
  /\ pc[s] = "wait_iv"
  /\ \E x \in Salts : salt' = [salt EXCEPT ![s] = x]
  /\ side' = [side EXCEPT ![s] = "peer"]
  /\ Goto(s, "lock")
  /\ UNCHANGED <<ppbloom, lock, used>>

(* The connection ends or fails before the salt is complete.               *)
ReadIvEof(s) ==
  /\ pc[s] = "wait_iv"
  /\ Goto(s, "failed")
  /\ UNCHANGED <<ppbloom, lock, side, salt, used>>

(* Mutant: the lock is not waited for. *)
Lock_Ignored(s) ==
  /\ pc[s] = "lock"
  /\ lock' = s
  /\ Goto(s, "check")
  /\ UNCHANGED <<ppbloom, side, salt, used>>

(* nonce_ppbloom.lock().                                                   *)
Lock(s) ==
  /\ pc[s] = "lock"
  /\ lock = Unlocked
  /\ lock' = s
  /\ Goto(s, "check")
  /\ UNCHANGED <<ppbloom, side, salt, used>>

(* Bloom::check of the bloomfilter crate: true for what has been set, and  *)
(* possibly for something else once anything has been.                     *)
BloomCheck(bloom, x) == IF x \in bloom THEN {TRUE}
                        ELSE IF bloom = {} THEN {FALSE} ELSE BOOLEAN

(* Mutant: only the current filter is asked. *)
Check_CurrentOnly(s) ==
  /\ pc[s] = "check"
  /\ \E seen \in BloomCheck(blooms[current], salt[s]) :
       IF seen
       THEN /\ Goto(s, IF side[s] = "own" THEN "draw" ELSE "failed")
            /\ lock' = Unlocked
       ELSE Goto(s, "set") /\ UNCHANGED lock
  /\ UNCHANGED <<ppbloom, side, salt, used>>

(* check_and_set asks both filters; a salt that has been seen is drawn     *)
(* anew, or the peer's connection refused: "detected repeated iv/salt".    *)
Check(s) ==
  /\ pc[s] = "check"
  /\ \E seen0 \in BloomCheck(blooms[0], salt[s]), seen1 \in BloomCheck(blooms[1], salt[s]) :
       IF seen0 \/ seen1
       THEN /\ Goto(s, IF side[s] = "own" THEN "draw" ELSE "failed")
            /\ lock' = Unlocked
       ELSE Goto(s, "set") /\ UNCHANGED lock
  /\ UNCHANGED <<ppbloom, side, salt, used>>

(* Mutant: the switch to the other filter comes one salt late. *)
Switch_Late(count) == count > ItemCount

(* The current filter is full: the next salt goes to the other one.        *)
Switch(count) == count >= ItemCount

(* Mutant: the full filter itself is cleared and goes on being filled. *)
Set_ClearsCurrent(s) ==
  LET switch == Switch(bloom_count[current])
  IN
  /\ pc[s] = "set"
  /\ blooms' = [blooms EXCEPT ![current] = (IF switch THEN {} ELSE @) \cup {salt[s]}]
  /\ bloom_count' = [bloom_count EXCEPT ![current] = (IF switch THEN 0 ELSE @) + 1]
  /\ lock' = Unlocked
  /\ used' = Append(used, salt[s])
  /\ Goto(s, IF side[s] = "own" THEN "wait_iv" ELSE "established")
  /\ UNCHANGED <<current, side, salt>>

(* Mutant: the filter switched to is not cleared. *)
Set_KeepsOld(s) ==
  LET switch == Switch(bloom_count[current])
      cur    == IF switch THEN 1 - current ELSE current
  IN
  /\ pc[s] = "set"
  /\ current' = cur
  /\ blooms' = [blooms EXCEPT ![cur] = @ \cup {salt[s]}]
  /\ bloom_count' = [bloom_count EXCEPT ![cur] = (IF switch THEN 0 ELSE @) + 1]
  /\ lock' = Unlocked
  /\ used' = Append(used, salt[s])
  /\ Goto(s, IF side[s] = "own" THEN "wait_iv" ELSE "established")
  /\ UNCHANGED <<side, salt>>

(* ... else sets it in the current filter, after switching to the other    *)
(* filter and clearing it if need be, and releases the lock.  The stream   *)
(* then derives its key from the salt: the writer's in CryptoStream::new,  *)
(* the reader's in poll_read_handshake.                                    *)
Set(s) ==
  LET switch == Switch(bloom_count[current])
      cur    == IF switch THEN 1 - current ELSE current
  IN
  /\ pc[s] = "set"
  /\ current' = cur
  /\ blooms' = [blooms EXCEPT ![cur] = (IF switch THEN {} ELSE @) \cup {salt[s]}]
  /\ bloom_count' = [bloom_count EXCEPT ![cur] = (IF switch THEN 0 ELSE @) + 1]
  /\ lock' = Unlocked
  /\ used' = Append(used, salt[s])
  /\ Goto(s, IF side[s] = "own" THEN "wait_iv" ELSE "established")
  /\ UNCHANGED <<side, salt>>

Next == \E s \in Streams :
          \/ New(s) \/ Draw(s) \/ ReadIv(s) \/ ReadIvEof(s)
          \/ Lock(s) \/ Check(s) \/ Set(s)

Spec == Init /\ [][Next]_vars

-----------------------------------------------------------------------------
(* The types; neither filter is ever filled beyond the number of salts it  *)
(* was sized for (new_for_fp_rate), so its error rate holds.               *)
TypeOK ==
  /\ blooms \in [0 .. 1 -> SUBSET Salts]
  /\ bloom_count \in [0 .. 1 -> 0 .. ItemCount]
  /\ current \in 0 .. 1
  /\ lock \in Streams \cup {Unlocked}
  /\ pc \in [Streams -> PC]
  /\ side \in [Streams -> {"own", "peer"}]
  /\ salt \in [Streams -> Salts]
  /\ used \in Seq(Salts)

(* A salt is never used for two keys, of the same stream or of two, drawn  *)
(* or received, until at least ItemCount others have been used in between: *)
(* what the check on both filters and the late clearing are for.           *)
NoReuse ==
  \A i, j \in 1 .. Len(used) : i < j /\ used[i] = used[j] => j - i > ItemCount

(* The context remembers at least the last ItemCount salts used at any     *)
(* time, the moment after the filters have been switched included.         *)
WindowRemembered ==
  \A k \in 1 .. Len(used) :
    k > Len(used) - ItemCount => used[k] \in blooms[0] \cup blooms[1]

(* The lock makes check and set one step: whoever is between them is alone *)
(* and its answer still true, so that of two streams with one salt at most *)
(* one is let through.                                                     *)
CheckedIsFresh ==
  \A s \in Streams :
    /\ pc[s] \in {"check", "set"} => lock = s
    /\ pc[s] = "set" => salt[s] \notin blooms[0] \cup blooms[1]

(* What the filters hold: the current one the latest bloom_count[current]  *)
(* salts used, the other one the ItemCount before them, or nothing if the  *)
(* filters have never been switched.                                       *)
FiltersHold ==
  LET n     == Len(used)
      other == 1 - current
      start == n - bloom_count[current]
  IN  /\ bloom_count[current] <= n
      /\ blooms[current] = {used[k] : k \in start + 1 .. n}
      /\ \/ /\ start = 0 /\ blooms[other] = {}
         \/ /\ start >= ItemCount
            /\ blooms[other] = {used[k] : k \in start - ItemCount + 1 .. start}

(* The inductive invariant. *)
IInv == TypeOK /\ CheckedIsFresh /\ FiltersHold /\ NoReuse
=============================================================================
