------------------------------- MODULE IpTrie -------------------------------
(***************************************************************************)
(* The router's CIDR matcher: GeoIPMatcher with one binary trie per        *)
(* address family and a table of outbound tags (config/ip_trie.rs), as     *)
(* filled by add_cidr_rules and read_geoip_file and asked by               *)
(* Router::match_addr and match_socket_addr (config/route.rs).             *)
(*                                                                         *)
(* An address is the sequence of its bits, the most significant first, of  *)
(* which 32 and 128 become a few.                                          *)
(***************************************************************************)
EXTENDS Integers, Sequences, FiniteSets, FiniteSetsExt

CONSTANTS
  Width,      \* Width["v4"], Width["v6"]: bits of u32 and u128
  Tags,       \* outbound tags rules can name
  Default,    \* default_outbound_tag
  MaxRules,   \* bound: for how many blocks of each family rules are put
  MaxNodes    \* bound: to how many nodes a trie grows

Families == {"v4", "v6"}

ASSUME TrieAssumption ==
  /\ Width \in [Families -> Nat \ {0}] /\ Width["v4"] <= Width["v6"]
  /\ MaxRules \in [Families -> Nat] /\ MaxNodes \in Nat

VARIABLES
  trie,      \* the vectors left, right and value of each family's trie
  outbound,  \* the tags that values index
  rules      \* history: the tag last put for each CIDR block

trieVars == <<trie, outbound, rules>>

Nullptr  == -1   \* $ip_type::nullptr(), the MAX of the index type
NoValue  == -1   \* u32::MAX in value
Size(t)  == Len(t.value)   \* nodes are numbered from 0; the root is 0

Addresses(f) == [1 .. Width[f] -> {0, 1}]

Child(t, node, bit) == IF bit = 1 THEN t.right[node + 1] ELSE t.left[node + 1]

-----------------------------------------------------------------------------
(* 1 << (bit - prefix) for prefix 0 shifts by the whole width: wrapped, as *)
(* the release profile compiles it, /0 gets the mask of a full prefix and  *)
(* normalize leaves the address alone.                                     *)
Depth(f, prefix) == IF prefix = 0 THEN Width[f] ELSE prefix

Normalize(f, ip, prefix) ==
  [i \in 1 .. Width[f] |-> IF i <= Depth(f, prefix) THEN ip[i] ELSE 0]

(* The nodes met going down along the first n bits of key: path[d] at      *)
(* depth d, Nullptr once there is none.                                    *)
Descend(t, key, n) ==
  LET path[d \in 0 .. n] ==
        IF d = 0 THEN 0
        ELSE IF path[d - 1] = Nullptr THEN Nullptr
        ELSE Child(t, path[d - 1], key[d])
  IN  path

(* Mutant: new nodes are numbered from the last existing one. *)
Link_Shares(vec, bit, key, last, found, new) ==
  [i \in 1 .. Len(vec) + new |->
     IF i = last + 1 /\ new > 0 /\ key[found + 1] = bit THEN Len(vec) - 1
     ELSE IF i <= Len(vec) THEN vec[i]
     ELSE IF i < Len(vec) + new /\ key[found + 1 + i - Len(vec)] = bit THEN i
     ELSE Nullptr]

(* left (bit 0) or right (bit 1) after new nodes were appended below the   *)
(* node last, which has depth found: each is the child of the one before.  *)
Link(vec, bit, key, last, found, new) ==
  [i \in 1 .. Len(vec) + new |->
     IF i = last + 1 /\ new > 0 /\ key[found + 1] = bit THEN Len(vec)
     ELSE IF i <= Len(vec) THEN vec[i]
     ELSE IF i < Len(vec) + new /\ key[found + 1 + i - Len(vec)] = bit THEN i
     ELSE Nullptr]

(* The vector value after new nodes were appended and node was given val.  *)
Assign(vec, node, new, val) ==
  [i \in 1 .. Len(vec) + new |->
     IF i = node + 1 THEN val ELSE IF i <= Len(vec) THEN vec[i] ELSE NoValue]

(* put: follow the prefix as far as the trie goes, append a node for every *)
(* further bit, and set the value of the node reached.                     *)
Put(t, f, key, prefix, val) ==
  LET depth == Depth(f, prefix)
      path  == Descend(t, key, depth)
      found == Max({d \in 0 .. depth : path[d] # Nullptr})
      last  == path[found]
      new   == depth - found
  IN  [left  |-> Link(t.left, 0, key, last, found, new),
       right |-> Link(t.right, 1, key, last, found, new),
       value |-> Assign(t.value, IF new = 0 THEN last ELSE Size(t) + new - 1, new, val)]

(* The bits by which get goes down: it starts at that of size_of::<u32>()  *)
(* for both families, and the bit is 0 when it has been shifted out.       *)
Bits(key, n) ==
  [d \in 1 .. n |-> IF d <= Width["v4"] THEN key[Len(key) - Width["v4"] + d] ELSE 0]

(* Mutant: the descent stops at the first value. *)
Get_First(t, key) ==
  LET path == Descend(t, Bits(key, Size(t)), Size(t))
      with == {d \in 0 .. Size(t) : path[d] # Nullptr /\ t.value[path[d] + 1] # NoValue}
  IN  IF with = {} THEN NoValue ELSE t.value[path[Min(with)] + 1]

(* get: go down along key as far as the trie goes and keep the last value  *)
(* seen.                                                                   *)
Get(t, key) ==
  LET path == Descend(t, Bits(key, Size(t)), Size(t))
      with == {d \in 0 .. Size(t) : path[d] # Nullptr /\ t.value[path[d] + 1] # NoValue}
  IN  IF with = {} THEN NoValue ELSE t.value[path[Max(with)] + 1]

(* match4 and match6, and the default outbound when they return "".        *)
Match(f, ip) ==
  LET pos == Get(trie[f], ip) IN IF pos = NoValue THEN Default ELSE outbound[pos + 1]

-----------------------------------------------------------------------------
NewTrie == [left |-> <<Nullptr>>, right |-> <<Nullptr>>, value |-> <<NoValue>>]

TrieInit ==
  /\ trie = [f \in Families |-> NewTrie]
  /\ outbound = <<>>
  /\ rules = <<>>

(* get_outbound_pos: the first position of a tag and the table that has    *)
(* it, to which a new tag is appended.                                     *)
TableWith(tag) ==
  IF \E i \in 1 .. Len(outbound) : outbound[i] = tag THEN outbound ELSE Append(outbound, tag)

OutboundPos(tag) ==
  Min({i \in 1 .. Len(TableWith(tag)) : TableWith(tag)[i] = tag}) - 1

(* A CIDR block: the bits that its addresses have in common. *)
Block(f, ip, prefix) == <<f, SubSeq(ip, 1, prefix)>>

(* put_v4 and put_v6. *)
PutRule(f, ip, prefix, tag) ==
  LET block == Block(f, ip, prefix)
  IN  /\ Cardinality({b \in DOMAIN rules : b[1] = f}) < MaxRules[f] \/ block \in DOMAIN rules
      /\ outbound' = TableWith(tag)
      /\ trie' = [trie EXCEPT ![f] = Put(@, f, Normalize(f, ip, prefix), prefix, OutboundPos(tag))]
      /\ Size(trie'[f]) <= MaxNodes
      /\ rules' = [b \in DOMAIN rules \cup {block} |-> IF b = block THEN tag ELSE rules[b]]

TrieNext ==
  \E f \in Families : \E ip \in Addresses(f), prefix \in 0 .. Width[f], tag \in Tags :
    PutRule(f, ip, prefix, tag)

TrieSpec == TrieInit /\ [][TrieNext]_trieVars

-----------------------------------------------------------------------------
(* The vectors form a tree: no node but the root is the child of anything  *)
(* but exactly one node, and comes after it, so no descent loops or meets  *)
(* another's values.                                                       *)
Parents(t, n) == {e \in (0 .. Size(t) - 1) \X {0, 1} : Child(t, e[1], e[2]) = n}
TrieIsTree ==
  \A f \in Families :
    /\ Parents(trie[f], 0) = {}
    /\ \A n \in 1 .. Size(trie[f]) - 1 :
         /\ Cardinality(Parents(trie[f], n)) = 1
         /\ \A e \in Parents(trie[f], n) : e[1] < n

(* The tag that longest prefix matching gives an address: that of the      *)
(* longest block put which contains it, else the default outbound's.       *)
Containing(f, ip) ==
  {b \in DOMAIN rules : b[1] = f /\ SubSeq(ip, 1, Len(b[2])) = b[2]}
LongestMatch(f, ip) ==
  IF Containing(f, ip) = {} THEN Default
  ELSE rules[CHOOSE b \in Containing(f, ip) : \A c \in Containing(f, ip) : Len(c[2]) <= Len(b[2])]

(* No rule was put for the block of all addresses, which put takes for one *)
(* of a single address.                                                    *)
NoWholeRange(f) == <<f, <<>> >> \notin DOMAIN rules

(* "Longest prefix match for CIDR route", for IPv4 addresses, after any    *)
(* sequence of rules, overlapping or repeated with another tag, but for a  *)
(* prefix of 0.                                                            *)
LongestPrefix4 ==
  NoWholeRange("v4") => \A ip \in Addresses("v4") : Match("v4", ip) = LongestMatch("v4", ip)

(* The same for IPv6 addresses. *)
LongestPrefix6 ==
  NoWholeRange("v6") => \A ip \in Addresses("v6") : Match("v6", ip) = LongestMatch("v6", ip)
=============================================================================
