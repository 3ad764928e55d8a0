---------------------------- MODULE DesyncGroups ----------------------------
(***************************************************************************)
(* How the ByeDPI worker chooses the desync group of a connection          *)
(* (extend.c).  The operators work on the strategy                         *)
(*                                                                         *)
(*   s.head   the first group (params.dp)                                  *)
(*   s.grp    the groups, each with its links next and prev (0 is NULL)    *)
(*   s.cache  what was learnt per address (params.mempool): None, or Some  *)
(*            of [mask, detect, dp, age]                                   *)
(*                                                                         *)
(* and on the fields mask, detect, dp, sq, recv and rrecv of a connection. *)
(* A mask is the set of groups whose bit is set.  Addresses are            *)
(* [ip, port, fam]; a request is [kind, host, at, len]: what the parsers   *)
(* of packets.c find in the bytes.  Cached networks (-/) are left out: an  *)
(* entry stands for one address.                                           *)
(***************************************************************************)
EXTENDS ByeOptions

Ids(s) == DOMAIN s.grp

\* Group g with its links.
Listed(g, next, prev) ==
  [x \in DOMAIN g \cup {"next", "prev"} |->
     CASE x = "next" -> next [] x = "prev" -> prev [] OTHER -> g[x]]

\* The list that parse_args links, and the empty cache.
NewStrategy(p, addrs) ==
  [head  |-> 1,
   grp   |-> [g \in 1..Len(p.groups) |->
                Listed(p.groups[g], IF g = Len(p.groups) THEN 0 ELSE g + 1, g - 1)],
   cache |-> [a \in addrs |-> None]]

\* The groups met on the way from g to the end of the list.
ListFrom(s, g) ==
  LET n == Cardinality(Ids(s))
      at[i \in 1..n] == IF i = 1 THEN g
                        ELSE IF at[i - 1] = 0 THEN 0 ELSE s.grp[at[i - 1]].next
  IN SubSeq(at, 1, Cardinality({i \in 1..n : at[i] /= 0}))

Groups(s) == ListFrom(s, s.head)

\* The least of a set of indexes, 0 if it is empty.
Least(set) == IF set = {} THEN 0 ELSE CHOOSE i \in set : \A j \in set : i <= j

\* The first index of seq that satisfies Test, 0 if none does.
FirstIndex(seq, Test(_)) == Least({i \in 1..Len(seq) : Test(i)})

-----------------------------------------------------------------------------
(* Filters *)

CheckIp(ipset, dst) == dst.ip \in ipset

CheckHost(hosts, req) == req.kind \in {"tls", "http"} /\ req.host \in hosts

CheckProtoTcp(proto, req) ==
  \/ proto \subseteq {"ipv4"}
  \/ "http" \in proto /\ req.kind = "http"
  \/ "https" \in proto /\ req.kind = "tls"

\* Address, port and transport.  Ports are compared as they lie in memory.
CheckL34(g, sock, dst) ==
  /\ "udp" \in g.proto => sock = "dgram"
  /\ "tcp" \in g.proto => sock = "stream"
  /\ "ipv4" \in g.proto => dst.fam \in {"v4", "mapped"}
  /\ g.pf[1] /= 0 => Htons(dst.port) >= g.pf[1] /\ Htons(dst.port) <= g.pf[2]
  /\ g.ipset /= None => CheckIp(g.ipset[1], dst)

CheckRound(nr, r) == (nr[2] = 0 /\ r <= 1) \/ (r >= nr[1] /\ r <= nr[2])

\* A mutant of Suits: the groups ruled out are forgotten.
SuitsAgain(s, c, g, buff, dst) ==
  /\ c.dp = Some(g) \/ s.grp[g].detect = {} \/ c.detect \cap s.grp[g].detect /= {}
  /\ CheckL34(s.grp[g], "stream", dst)

\* A mutant of Suits: a group is not tied to its triggers.
SuitsAnyTrigger(s, c, g, buff, dst) ==
  /\ g \notin c.mask
  /\ CheckL34(s.grp[g], "stream", dst)

\* Whether find_dp takes group g for connection c; buff is None before the
\* request is known.
Suits(s, c, g, buff, dst) ==
  LET d == s.grp[g] IN
  /\ g \notin c.mask
  /\ c.dp = Some(g) \/ d.detect = {} \/ c.detect \cap d.detect /= {}
  /\ CheckL34(d, "stream", dst)
  /\ d.proto = {} \/ buff = None \/ CheckProtoTcp(d.proto, buff[1])
  /\ d.hosts = None \/ buff = None \/ CheckHost(d.hosts[1], buff[1])

\* The group at place i of the order searched; the ones before it are masked.
FoundAt(s, c, order, i) ==
  IF i = 0 THEN [dp |-> None, mask |-> c.mask \cup Ids(s)]
  ELSE [dp |-> Some(order[i]), mask |-> c.mask \cup {order[k] : k \in 1..(i - 1)}]

FindIn(s, c, order, buff, dst) ==
  FoundAt(s, c, order, FirstIndex(order, LAMBDA k : Suits(s, c, order[k], buff, dst)))

\* find_dp: the first group that suits, from the connection's own group to
\* the end and then from the start.
FindDp(s, c, buff, dst) ==
  FindIn(s, c, ListFrom(s, IF c.dp = None THEN s.head ELSE c.dp[1]) \o Groups(s), buff, dst)

\* udp_hook: the first group without triggers whose filters pass.
UdpDp(s, dst) ==
  LET order == Groups(s)
      Passes(g) == s.grp[g].detect = {} /\ CheckL34(s.grp[g], "dgram", dst)
      k == FirstIndex(order, LAMBDA j : Passes(order[j]))
  IN IF k = 0 THEN None ELSE Some(order[k])

-----------------------------------------------------------------------------
(* The cache *)

Expired(s, e) == s.grp[e.dp].cacheTtl /= 0 /\ e.age > s.grp[e.dp].cacheTtl

\* The entries whose key agrees with that of a on the bits that cache_get
\* hands to mem_delete: the length of the key in bytes, taken for bits.
SameStart(s, a) ==
  {b \in DOMAIN s.cache :
     /\ s.cache[b] /= None
     /\ (b.fam = "v4") = (a.fam = "v4")
     /\ a.fam = "v4" \/ b.port \div 4096 = a.port \div 4096}

\* cache_get: the entry found, and the caches it may leave.  An expired
\* entry makes one of the entries that start alike disappear.
CacheGet(s, a) ==
  IF s.cache[a] = None THEN {[found |-> None, cache |-> s.cache]}
  ELSE IF Expired(s, s.cache[a][1])
  THEN {[found |-> None, cache |-> [s.cache EXCEPT ![b] = None]] : b \in SameStart(s, a)}
  ELSE {[found |-> s.cache[a], cache |-> s.cache]}

\* cache_add: the entry of the address, dated now; a new one is zeroed.
CacheAdd(s, a) ==
  IF s.cache[a] = None THEN [mask |-> {}, detect |-> {}, dp |-> 0, age |-> 0]
  ELSE [s.cache[a][1] EXCEPT !.age = 0]

\* A mutant of DumpCache: every file is given every entry.
DumpCacheWhole(s, g) ==
  {[addr |-> a, age |-> s.cache[a][1].age] : a \in {b \in DOMAIN s.cache : s.cache[b] /= None}}

\* dump_cache: the addresses that were last assigned group g.
DumpCache(s, g) ==
  {[addr |-> a, age |-> s.cache[a][1].age] :
     a \in {b \in DOMAIN s.cache : s.cache[b] /= None /\ s.cache[b][1].dp = g}}

\* The places in the list of the groups that keep their entries in file f.
Writers(s, f) == {k \in DOMAIN Groups(s) : s.grp[Groups(s)[k]].file = Some(f)}

\* dump_all_cache: every group of the list writes its file anew.
DumpAllCache(s, disk) ==
  [f \in DOMAIN disk |->
     IF Writers(s, f) = {} THEN disk[f] ELSE DumpCache(s, Groups(s)[Max(Writers(s, f))])]

\* load_cache, for the groups in the order of the command line: an address
\* is assigned the last group that names it, without mask or trigger.
LoadCache(s, disk) ==
  LET Names(g, a) == s.grp[g].file /= None
                       /\ \E e \in disk[s.grp[g].file[1]] : e.addr = a
      Entry(a) ==
        LET gs == {g \in Ids(s) : Names(g, a)}
            g == CHOOSE x \in gs : \A y \in gs : y <= x
        IN IF gs = {} THEN None
           ELSE Some([mask |-> {}, detect |-> {}, dp |-> g,
                      age |-> (CHOOSE e \in disk[s.grp[g].file[1]] : e.addr = a).age])
  IN [s EXCEPT !.cache = [a \in DOMAIN s.cache |-> Entry(a)]]

-----------------------------------------------------------------------------
(* Triggers *)

\* Pointer field of group g; there is none to set at the end of the list.
Link(grp, g, field, v) == IF g = 0 THEN grp ELSE [grp EXCEPT ![g][field] = v]

\* The pointers to the two groups, which stand at the places at and to.
Linked(grp, c, n, at, to) ==
  LET outer == Link(Link(grp, at.prev, "next", n), to.next, "prev", c)
  IN IF at.next /= n THEN Link(Link(outer, at.next, "prev", n), to.prev, "next", c)
     ELSE Link(Link(outer, c, "prev", n), n, "next", c)

\* Group g at the place of group h: detect and auto_level stay with the place.
InPlaceOf(g, h) ==
  [g EXCEPT !.next = h.next, !.prev = h.prev, !.detect = h.detect, !.level = h.level]

\* swop_groups: c and n trade places in the list.
Swop(s, c, n) ==
  LET moved == [s.grp EXCEPT ![c] = InPlaceOf(@, s.grp[n]), ![n] = InPlaceOf(@, s.grp[c])]
  IN [s EXCEPT !.grp = Linked(moved, c, n, s.grp[c], s.grp[n]),
               !.head = IF @ = c THEN n ELSE @]

\* Whether the client can be served again from the start.
CanReconn(c, alive) ==
  (c.sq /= None \/ (c.recv = 0 /\ c.rrecv = 0)) /\ alive

\* The loop of on_trigger ends at group order[i] without taking it.
WalkStops(s, mask, order, i) ==
  mask \subseteq {order[j] : j \in 1..(i - 1)} /\ s.grp[order[i]].detect = {}

\* The group to try next (0 if there is none) and the groups passed, when
\* the loop ends at place i (0: at the end of the list).
WalkEnd(s, mask, order, i) ==
  [next   |-> IF i = 0 \/ WalkStops(s, mask, order, i) THEN 0 ELSE order[i],
   passed |-> IF i = 0 THEN Range(order) ELSE {order[j] : j \in 1..(i - 1)}]

\* The walk of on_trigger for a connection whose mask is mask.
WalkIn(s, mask, type, can, order) ==
  LET Takes(d) == (d.detect = {} \/ d.detect \cap type /= {}) /\ ("o" \in d.level => can)
  IN WalkEnd(s, mask, order,
             FirstIndex(order, LAMBDA k : \/ WalkStops(s, mask, order, k)
                                          \/ order[k] \notin mask /\ Takes(s.grp[order[k]])))

Walk(s, mask, type, can) == WalkIn(s, mask, type, can, Groups(s))

\* A mutant of Sorts: the place of the failed group is not looked at.
SortsAlways(s, cur, w, mask) == w.next /= 0 /\ "s" \in s.grp[w.next].level

\* Whether the group that failed gives its place to the next one.
Sorts(s, cur, w, mask) ==
  /\ w.next /= 0
  /\ "s" \in s.grp[w.next].level
  /\ s.grp[cur].pri > s.grp[w.next].pri
  /\ cur \notin mask \ w.passed

\* The order and the ratings after a trigger; w is what the walk came to.
Rated(s, cur, old, w, mask) ==
  IF cur \in old THEN s
  ELSE [(IF Sorts(s, cur, w, mask) THEN Swop(s, cur, w.next) ELSE s)
          EXCEPT !.grp[cur].pri = @ + 1]

\* The end of on_trigger: the cache entry, and whether to connect again.
Learnt(rated, known, a, type, can, w, mask) ==
  LET entry == IF w.next = 0
               THEN [known EXCEPT !.mask = {}, !.detect = {}, !.dp = rated.head]
               ELSE [known EXCEPT !.mask = @ \cup mask \cup w.passed, !.detect = type,
                                  !.dp = w.next]
  IN [s |-> [rated EXCEPT !.cache[a] = Some(entry)],
      mask |-> mask \cup w.passed,
      retry |-> w.next /= 0 /\ "n" \notin rated.grp[w.next].level /\ can]

TriggerWalked(s, cur, known, a, type, can, mask, w) ==
  Learnt(Rated(s, cur, known.mask, w, mask), known, a, type, can, w, mask)

\* on_trigger, up to the decision to reconnect: the new strategy, the new
\* mask of the connection and whether it is served again.
Trigger(s, c, a, type, alive) ==
  LET mask == c.mask \cup {c.dp[1]}
      can == CanReconn(c, alive)
  IN TriggerWalked(s, c.dp[1], CacheAdd(s, a), a, type, can, mask, Walk(s, mask, type, can))
=============================================================================
