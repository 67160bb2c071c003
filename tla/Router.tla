------------------------------- MODULE Router -------------------------------
(***************************************************************************)
(* The router of config/route.rs: build_router turns the rules of a        *)
(* configuration, and the geosite and geoip files they name, into          *)
(* matchers, and match_addr asks them for the outbound of an address.      *)
(*                                                                         *)
(* A configuration is a record of the sections of the file: domain, ip,    *)
(* geosite and geoip are sequences of entries, each for the outbound with  *)
(* its tag; outbounds is a sequence of tags, default_outbound a tag or "". *)
(* Which names a rule covers is data; the matchers of the crates           *)
(* domain_matcher and regex, which find that out, are external.  A CIDR is *)
(* [ip, prefix]; the trie that holds them is module IpTrie, here a table   *)
(* from blocks to tags.                                                    *)
(*                                                                         *)
(* An entry of geosite or geoip names a file, which is found or not: a     *)
(* sequence of groups [tag, entries, extra], where extra says that the     *)
(* group ends with a boolean field that the reader does not know.  The tag *)
(* of a group is <<name, case>>, and not empty.                            *)
(***************************************************************************)
EXTENDS Naturals, Sequences, FiniteSets, SequencesExt

CONSTANTS
  Covers,   \* the names that each rule, regular expressions included, covers
  Regexes,  \* the rules that are regular expressions
  BadRegex, \* those that do not compile
  IpVal,    \* the hosts that are IP addresses, and their values
  Width     \* bits of an IP address

(* Lists are finite; groups of files have tags; the blocks of a geoip file *)
(* are blocks of addresses.                                                *)
IsList(s) == Len(s) \in Nat /\ DOMAIN s = 1 .. Len(s)
Sections(c) == <<c.domain, c.ip, c.geosite, c.geoip>>

IsConfig(c) ==
  /\ \A s \in 1 .. 4 : IsList(Sections(c)[s])
  /\ \A e \in DOMAIN c.ip :
       IsList(c.ip[e].cidrs) /\ \A i \in DOMAIN c.ip[e].cidrs : c.ip[e].cidrs[i].prefix \in Nat
  /\ \A s \in 3 .. 4 : \A e \in DOMAIN Sections(c)[s] :
       LET file == Sections(c)[s][e].file
       IN  /\ IsList(file)
           /\ \A g \in DOMAIN file : IsList(file[g].entries) /\ file[g].tag[1] # ""
           /\ s = 4 => \A g \in DOMAIN file : \A i \in DOMAIN file[g].entries :
                         file[g].entries[i].prefix \in 0 .. Width

ASSUME WidthAssumption == Width \in Nat

VARIABLES
  cfg,
  router,   \* the RouterBuilder, then the Router
  at        \* "config" while it is built, then what the service is doing

-----------------------------------------------------------------------------
(* KeepInsertOrderMap: the values under each key, keys in order.           *)
Keys(m) == {m[i].key : i \in DOMAIN m}
Extend(m, k, vals) ==
  [i \in DOMAIN m |-> IF m[i].key = k THEN [key |-> k, vals |-> m[i].vals \cup vals] ELSE m[i]]

(* Mutant: a new key goes to the front. *)
Insert_Front(m, k, vals) ==
  IF k \in Keys(m) THEN Extend(m, k, vals) ELSE <<[key |-> k, vals |-> vals]>> \o m

Insert(m, k, vals) ==
  IF k \in Keys(m) THEN Extend(m, k, vals) ELSE Append(m, [key |-> k, vals |-> vals])

(* The first d of the bits of an address.  For a prefix of 0 the shift by  *)
(* the whole width leaves the mask of a full one.                          *)
Top(ip, d) == ip \div 2 ^ (Width - d)
Depth(c)   == IF c.prefix = 0 THEN Width ELSE c.prefix
Block(c)   == <<Depth(c), Top(c.ip, Depth(c))>>

(* put: the last tag put for a block is the one kept. *)
PutCidr(table, c, tag) ==
  [b \in DOMAIN table \cup {Block(c)} |-> IF b = Block(c) THEN tag ELSE table[b]]

Upper(tag) == <<tag[1], "upper">>
NoGroup    == <<"", "upper">>

(* merge_message into the CIDR read before: a prefix of 0 is not encoded,  *)
(* so the last one stays.                                                  *)
NoCidr == [ip |-> 0, prefix |-> 0]
MergeCidr(old, new) ==
  [ip |-> new.ip, prefix |-> IF new.prefix = 0 THEN old.prefix ELSE new.prefix]

(* The builder, with the place that the loops of build_router have         *)
(* reached: a section, an entry, a group of its file, an item; and the     *)
(* variables of the loop over the fields of a file.                        *)
NewBuilder ==
  [domain |-> <<>>, regex |-> <<>>, ip |-> <<>>, place |-> <<0, 1, 0, 1>>,
   group |-> NoGroup, skip |-> TRUE, cidr |-> NoCidr]

In(s)    == at = "config" /\ router.place[1] = s
More     == router.place[2] <= Len(Sections(cfg)[router.place[1]])
CurEntry == Sections(cfg)[router.place[1]][router.place[2]]
CurGroup == CurEntry.file[router.place[3]]
Item     == router.place[4]

NextItem  == [router.place EXCEPT ![4] = @ + 1]
NextGroup == [router.place EXCEPT ![3] = @ + 1, ![4] = 0]
NextEntry == <<router.place[1], router.place[2] + 1, 0, 1>>

-----------------------------------------------------------------------------
(* build_server: the default outbound is the first one unless given, and   *)
(* has to exist.  Whether the tags of rules do is not looked at.           *)
DefaultOutbound(c) ==
  IF c.default_outbound = "" /\ c.outbounds # <<>> THEN c.outbounds[1] ELSE c.default_outbound

BuildServer ==
  /\ In(0)
  /\ IF Contains(cfg.outbounds, DefaultOutbound(cfg))
     THEN at' = at /\ router' = [router EXCEPT !.place = <<1, 1, 0, 1>>]
     ELSE at' = "stopped" /\ router' = router

(* The sections in this order, each in the order of the file. *)
NextSection ==
  /\ \E s \in 1 .. 4 : In(s)
  /\ ~More
  /\ at' = at /\ router' = [router EXCEPT !.place = <<@[1] + 1, 1, 0, 1>>]

(* For each full, domain and substr rule of an entry, then all its regular *)
(* expressions: an entry gets a matcher of domains with its first rule,    *)
(* and one of regular expressions also without any.                        *)
AddDomainRules(m, tag, rules) == IF rules = {} THEN m ELSE Insert(m, tag, rules)
AddRegexRules(m, tag, regex)  == Insert(m, tag, regex)

AddDomainEntry ==
  /\ In(1) /\ More
  /\ at' = at
  /\ router' = [router EXCEPT
       !.domain = AddDomainRules(@, CurEntry.tag, CurEntry.rules),
       !.regex  = AddRegexRules(@, CurEntry.tag, CurEntry.regex),
       !.place  = NextEntry]

(* add_cidr_rules: what is not a CIDR is left out, with a warning. *)
AddCidr ==
  /\ In(2) /\ More
  /\ at' = at
  /\ \/ /\ Item <= Len(CurEntry.cidrs)
        /\ LET c == CurEntry.cidrs[Item]
           IN  router' = [router EXCEPT
                 !.ip    = IF c.prefix <= Width THEN PutCidr(@, c, CurEntry.tag) ELSE @,
                 !.place = NextItem]
     \/ Item > Len(CurEntry.cidrs) /\ router' = [router EXCEPT !.place = NextEntry]

(* read_geosite_file and read_geoip_file.  The outbound gets its matcher   *)
(* before the file is opened.                                              *)
OpenFile ==
  /\ In(3) \/ In(4)
  /\ More /\ router.place[3] = 0
  /\ IF CurEntry.found
     THEN /\ at' = at
          /\ router' = [router EXCEPT
               !.domain = IF In(3) /\ CurEntry.rules # {} THEN Insert(@, CurEntry.tag, {}) ELSE @,
               !.group = NoGroup, !.skip = In(3), !.cidr = NoCidr, !.place = NextGroup]
     ELSE at' = "stopped" /\ router' = router

(* What is read of the file: the header of the first group, then for each  *)
(* group its tag, its entries, and the header of the next or the end.  A   *)
(* field 1 is a header if a tag has been read since the last one, else a   *)
(* tag.                                                                    *)
InGroup == (In(3) \/ In(4)) /\ More /\ router.place[3] \in DOMAIN CurEntry.file

ReadTag ==
  LET tag == IF In(4) THEN Upper(CurGroup.tag) ELSE CurGroup.tag
  IN
  /\ InGroup /\ Item = 0 /\ router.group = NoGroup
  /\ at' = at
  /\ router' = [router EXCEPT !.group = tag, !.skip = tag \notin {Upper(r) : r \in CurEntry.rules},
                              !.place = NextItem]

(* Entries count while the last tag is wanted. *)
ReadSite ==
  LET rule == CurGroup.entries[Item]
  IN
  /\ In(3) /\ InGroup /\ Item \in DOMAIN CurGroup.entries
  /\ at' = at
  /\ \/ /\ router.skip
        /\ router' = [router EXCEPT !.place = NextItem]
     \/ /\ ~router.skip /\ rule \notin Regexes
        /\ router' = [router EXCEPT !.domain = Insert(@, CurEntry.tag, {rule}), !.place = NextItem]
     \/ /\ ~router.skip /\ rule \in Regexes
        /\ router' = [router EXCEPT !.regex = Insert(@, CurEntry.tag, {rule}), !.place = NextItem]

ReadCidr ==
  LET cidr == MergeCidr(router.cidr, CurGroup.entries[Item])
  IN
  /\ In(4) /\ InGroup /\ Item \in DOMAIN CurGroup.entries
  /\ at' = at
  /\ \/ /\ router.skip
        /\ router' = [router EXCEPT !.place = NextItem]
     \/ /\ ~router.skip
        /\ router' = [router EXCEPT !.ip = PutCidr(@, cidr, CurEntry.tag), !.cidr = cidr,
                                    !.place = NextItem]

(* The value of any other field is not skipped but read as a field, and 1  *)
(* is none: an error.                                                      *)
ReadHeader ==
  /\ InGroup /\ Item = Len(CurGroup.entries) + 1
  /\ \/ CurGroup.extra /\ at' = "stopped" /\ router' = router
     \/ /\ ~CurGroup.extra /\ router.group # NoGroup
        /\ at' = at
        /\ router' = [router EXCEPT !.group = NoGroup, !.place = NextGroup]

EndOfFile ==
  /\ In(3) \/ In(4)
  /\ More /\ router.place[3] = Len(CurEntry.file) + 1
  /\ at' = at /\ router' = [router EXCEPT !.place = NextEntry]

(* RouterBuilder::build: the matchers of domains keep their order, those   *)
(* of regular expressions come out of a HashMap, in any.                   *)
Orders(m) ==
  {[i \in DOMAIN m |-> m[p[i]]]
     : p \in {q \in [DOMAIN m -> DOMAIN m] : \A j \in DOMAIN m : \E i \in DOMAIN m : q[i] = j}}

BuildRouter ==
  /\ In(5)
  /\ IF \E i \in DOMAIN router.regex : router.regex[i].vals \cap BadRegex # {}
     THEN at' = "stopped" /\ router' = router
     ELSE /\ at' = "listen"
          /\ router' \in {[domain |-> router.domain, regex |-> order, ip |-> router.ip,
                           default |-> DefaultOutbound(cfg)] : order \in Orders(router.regex)}

RouterNext ==
  /\ \/ BuildServer \/ NextSection \/ AddDomainEntry \/ AddCidr \/ OpenFile \/ ReadTag
     \/ ReadSite \/ ReadCidr \/ ReadHeader \/ EndOfFile \/ BuildRouter
  /\ UNCHANGED cfg

-----------------------------------------------------------------------------
(* The longest of the blocks in the table that an address is in. *)
MatchIp(r, n) ==
  LET hits == {b \in DOMAIN r.ip : b[2] = Top(n, b[1])}
  IN  IF hits = {} THEN r.default
      ELSE r.ip[CHOOSE b \in hits : \A x \in hits : x[1] <= b[1]]

(* The first matcher that knows the name, else the default. *)
FirstMatch(matchers, name, otherwise) ==
  LET hits == {i \in DOMAIN matchers : \E v \in matchers[i].vals : name \in Covers[v]}
  IN  IF hits = {} THEN otherwise
      ELSE matchers[CHOOSE i \in hits : \A j \in hits : i <= j].key

(* match_addr; match_socket_addr is its first case. *)
MatchAddr(r, addr) ==
  IF addr.type = "ip" THEN MatchIp(r, IpVal[addr.host])
  ELSE FirstMatch(r.domain, addr.host, FirstMatch(r.regex, addr.host, r.default))

-----------------------------------------------------------------------------
(* What a reader of the configuration expects, without matchers, tables or *)
(* fields: a set of rules, each for an outbound, and its place in the      *)
(* order of the sections and files.  An entry of geosite or geoip stands   *)
(* for all entries of the groups that it names.                            *)
Before(p, q) == \E k \in 1 .. 4 : p[k] < q[k] /\ \A j \in 1 .. k - 1 : p[j] = q[j]

Rule(place, tag, val) == [at |-> place, tag |-> tag, val |-> val]

Named(e) == {g \in DOMAIN e.file : \E r \in e.rules : Upper(r) = Upper(e.file[g].tag)}

FileRules(s, es) ==
  UNION {UNION {{Rule(<<s, e, g, i>>, es[e].tag, es[e].file[g].entries[i])
                   : i \in DOMAIN es[e].file[g].entries}
                  : g \in Named(es[e])} : e \in DOMAIN es}

CidrRules(c) ==
  {r \in FileRules(4, c.geoip)
         \cup (UNION {{Rule(<<2, e, 0, i>>, c.ip[e].tag, c.ip[e].cidrs[i])
                        : i \in DOMAIN c.ip[e].cidrs} : e \in DOMAIN c.ip})
     : r.val.prefix <= Width}

NameRules(c) ==
  (UNION {{Rule(<<1, e, 0, 1>>, c.domain[e].tag, v) : v \in c.domain[e].rules}
            : e \in DOMAIN c.domain})
  \cup {r \in FileRules(3, c.geosite) : r.val \notin Regexes}

RegexRules(c) ==
  (UNION {{Rule(<<1, e, 0, 1>>, c.domain[e].tag, v) : v \in c.domain[e].regex}
            : e \in DOMAIN c.domain})
  \cup {r \in FileRules(3, c.geosite) : r.val \in Regexes}

(* The entries that mention an outbound with rules for names. *)
Mentions(c) ==
  UNION {{Rule(<<s, e, 0, 1>>, Sections(c)[s][e].tag, {})
            : e \in {x \in DOMAIN Sections(c)[s] : Sections(c)[s][x].rules # {}}} : s \in {1, 3}}

Hits(rules, name) == {r \in rules : name \in Covers[r.val]}
Tags(rules)       == {r.tag : r \in rules}

(* For an IP address the rules with the longest CIDR, the last of them.    *)
LongestLast(rules, n) ==
  LET hits == {r \in rules : Top(r.val.ip, r.val.prefix) = Top(n, r.val.prefix)}
  IN  {r \in hits : \A x \in hits : \/ x.val.prefix < r.val.prefix
                                    \/ x.val.prefix = r.val.prefix /\ ~Before(r.at, x.at)}

(* Among some tags the one mentioned first. *)
FirstMentioned(c, tags) ==
  {t \in tags : \E m \in Mentions(c) :
     m.tag = t /\ \A x \in Mentions(c) : x.tag \in tags \ {t} => Before(m.at, x.at)}

(* The outbounds that the rules allow for an address: for an IP address    *)
(* that of the longest CIDR, the last such; for a name that of the tag     *)
(* mentioned first among those with a rule for it, else any with a regular *)
(* expression for it; else the default.                                    *)
ByRules(c, addr) ==
  LET cidrs   == LongestLast(CidrRules(c), IpVal[addr.host])
      names   == Hits(NameRules(c), addr.host)
      regexes == Hits(RegexRules(c), addr.host)
      default == {DefaultOutbound(c)}
  IN  IF addr.type = "ip" THEN IF cidrs = {} THEN default ELSE Tags(cidrs)
      ELSE IF names # {} THEN FirstMentioned(c, Tags(names))
      ELSE IF regexes # {} THEN Tags(regexes)
      ELSE default

(* Where build_router does something else: with a CIDR of length 0 in the  *)
(* rules or among the entries they name, and with a geosite file whose     *)
(* tags are not in capitals.                                               *)
WholeRange(c) == \E r \in CidrRules(c) : r.val.prefix = 0
LowerSite(c) ==
  \E e \in ToSet(c.geosite) : \E g \in Named(e) : e.file[g].tag # Upper(e.file[g].tag)

(* The tags the rules use. *)
RuleTags(c) == UNION {Tags(ToSet(Sections(c)[s])) : s \in 1 .. 4}

-----------------------------------------------------------------------------
(* What the builder has made of the rules that come before a place: its    *)
(* matchers hold them, in the order of the first mentions, and its table   *)
(* has the last tag for every block.                                       *)
Done(rules, place) == {r \in rules : Before(r.at, place)}

Pairs(m)       == UNION {{<<m[i].key, v>> : v \in m[i].vals} : i \in DOMAIN m}
PairsOf(rules) == {<<r.tag, r.val>> : r \in rules}

InOrder(m, mentions) ==
  \A i \in DOMAIN m : \E x \in mentions :
    /\ x.tag = m[i].key
    /\ \A j \in DOMAIN m, y \in mentions : i < j /\ y.tag = m[j].key => Before(x.at, y.at)

NamesKept(c, domain, regex, place) ==
  /\ Pairs(domain) = PairsOf(Done(NameRules(c), place))
  /\ Pairs(regex) = PairsOf(Done(RegexRules(c), place))
  /\ Keys(domain) = Tags(Done(Mentions(c), place))
  /\ InOrder(domain, Done(Mentions(c), place))

CidrsKept(c, table, place) ==
  LET rules == Done(CidrRules(c), place)
  IN  /\ DOMAIN table = {Block(x.val) : x \in rules}
      /\ \A b \in DOMAIN table : \E x \in rules :
           /\ Block(x.val) = b /\ x.tag = table[b]
           /\ \A y \in rules : Block(y.val) = b => ~Before(x.at, y.at)

LastPlace == <<5, 1, 0, 1>>

(* The place is one that the loops reach, and skip says within a group     *)
(* that the entry does not name it.                                        *)
PlaceInv ==
  /\ DOMAIN router = DOMAIN NewBuilder /\ router.skip \in BOOLEAN
  /\ router.place \in (0 .. 5) \X Nat \X Nat \X Nat /\ router.place[2] > 0
  /\ router.place[1] \in {0, 5} => router.place[2] = 1
  /\ router.place[3] > 0 => (In(3) \/ In(4)) /\ More
  /\ router.place[3] = 0 => router.place[4] > 0
  /\ (~In(2) \/ ~More) /\ router.place[3] = 0 => router.place[4] = 1
  /\ InGroup /\ Item > 0 /\ (In(3) => ~LowerSite(cfg)) =>
       (router.skip <=> router.place[3] \notin Named(CurEntry))

Listed(m) == m \in Seq({m[i] : i \in DOMAIN m})

RulesKept(c, r, place) ==
  /\ Listed(r.domain) /\ Listed(r.regex)
  /\ LowerSite(c) \/ NamesKept(c, r.domain, r.regex, place)
  /\ WholeRange(c) \/ CidrsKept(c, r.ip, place)

RouterInv ==
  /\ IsConfig(cfg)
  /\ at = "config" => PlaceInv /\ RulesKept(cfg, router, router.place)
  /\ at \notin {"config", "stopped"} =>
       RulesKept(cfg, router, LastPlace) /\ router.default = DefaultOutbound(cfg)
=============================================================================
