--------------------------- MODULE StrategyProofs ---------------------------
(***************************************************************************)
(* What every command line promises of the groups and of the cache of      *)
(* addresses in Tunnel, for every destination, request, fault and number   *)
(* of connections: the list of groups stays whole; a new address finds a   *)
(* group; an orderly restart remembers the group of every address whose    *)
(* group has a file of its own.  All rest on StrategyInv: the groups are   *)
(* those of the options but for the triggers and levels that swop_groups   *)
(* leaves with the place, the list runs through all of them, and the cache *)
(* assigns one of them.                                                    *)
(***************************************************************************)
EXTENDS Tunnel, DesyncGroupsProofs

-----------------------------------------------------------------------------
(* The groups of the command line, and the cache *)

\* What a group keeps of the options it was made of; its triggers and its
\* level belong to its place in the list.
Alike(g, h) ==
  Fields \subseteq DOMAIN g /\ \A f \in Fields \ {"detect", "level"} : g[f] = h[f]

\* The groups grp are those of the options gs.
Stands(grp, gs) == DOMAIN grp = 1..Len(gs) /\ \A g \in 1..Len(gs) : Alike(grp[g], gs[g])

\* No group asks to be sorted (-L s).
Unsorted(gs) == \A g \in 1..Len(gs) : "s" \notin gs[g].level

\* Each group is at its first place.
Unmoved(grp, gs) ==
  \A g \in 1..Len(gs) : grp[g].detect = gs[g].detect /\ grp[g].level = gs[g].level

\* A cache for the addresses addrs that assigns groups 1..n.
CacheOk(cache, addrs, n) ==
  /\ DOMAIN cache = addrs
  /\ \A a \in addrs : cache[a] = None
                        \/ \E e : cache[a] = Some(e) /\ "dp" \in DOMAIN e /\ e.dp \in 1..n

\* A strategy that comes of the options gs.
StrategyOf(st, gs, addrs) ==
  /\ ListOk(st) /\ "cache" \in DOMAIN st
  /\ Stands(st.grp, gs) /\ (Unsorted(gs) => Unmoved(st.grp, gs))
  /\ CacheOk(st.cache, addrs, Len(gs))

\* A group is set anew to one that is alike.
LEMMA StandsSet ==
  ASSUME NEW gs, NEW grp, Stands(grp, gs), NEW g, NEW v, g \in 1..Len(gs) => Alike(v, gs[g])
  PROVE  Stands([grp EXCEPT ![g] = v], gs)
BY DEF Stands

\* A link is none of the options.
LEMMA LinkStands ==
  ASSUME NEW gs, NEW grp, Stands(grp, gs), NEW g, NEW field \in {"next", "prev"}, NEW v
  PROVE  Stands(Link(grp, g, field, v), gs)
<1>1. CASE g = 0
  BY <1>1, Zenon DEF Link
<1>2. CASE g /= 0
  <2> DEFINE w == [grp[g] EXCEPT ![field] = v]
  <2>1. g \in 1..Len(gs) => Alike(w, gs[g])
    BY Zenon DEF Stands, Alike, Fields
  <2>2. Link(grp, g, field, v) = [grp EXCEPT ![g] = w]
    BY <1>2 DEF Link
  <2> HIDE DEF w
  <2>3. Stands([grp EXCEPT ![g] = w], gs)
    BY <2>1, StandsSet
  <2> QED BY <2>2, <2>3
<1> QED BY <1>1, <1>2

\* A group in the place of another keeps its options but the triggers and the level.
LEMMA InPlaceAlike == \A g, h, o : Alike(g, o) => Alike(InPlaceOf(g, h), o)
BY DEF Alike, InPlaceOf, Fields

\* swop_groups changes no other option.
LEMMA SwopStands ==
  ASSUME NEW gs, NEW st, {"grp", "head"} \subseteq DOMAIN st, Stands(st.grp, gs), NEW c, NEW m
  PROVE  LET r == Swop(st, c, m) IN Stands(r.grp, gs) /\ DOMAIN r = DOMAIN st
                                      /\ ("cache" \in DOMAIN st => r.cache = st.cache)
<1> DEFINE g1 == [st.grp EXCEPT ![c] = InPlaceOf(st.grp[c], st.grp[m])]
           g2 == [g1 EXCEPT ![m] = InPlaceOf(g1[m], st.grp[c])]
           r == Swop(st, c, m)
<1>1. Stands(g1, gs)
  <2>1. c \in 1..Len(gs) => Alike(InPlaceOf(st.grp[c], st.grp[m]), gs[c])
    BY InPlaceAlike, Zenon DEF Stands
  <2> QED BY <2>1, StandsSet, Zenon
<1>2. Stands(g2, gs)
  <2>1. m \in 1..Len(gs) => Alike(InPlaceOf(g1[m], st.grp[c]), gs[m])
    <3> HIDE DEF g1
    <3> QED BY <1>1, InPlaceAlike, Zenon DEF Stands
  <2> HIDE DEF g1
  <2> QED BY <1>1, <2>1, StandsSet, Zenon
<1>3. r.grp = Linked(g2, c, m, st.grp[c], st.grp[m]) /\ DOMAIN r = DOMAIN st
       /\ ("cache" \in DOMAIN st => r.cache = st.cache)
  BY DEF Swop
<1> HIDE DEF g1, g2, r
<1>4. \A grp, at, to : Stands(grp, gs) => Stands(Linked(grp, c, m, at, to), gs)
  <2> SUFFICES ASSUME NEW grp, NEW at, NEW to, Stands(grp, gs)
               PROVE  Stands(Linked(grp, c, m, at, to), gs)
    OBVIOUS
  <2>1. \A h, g, v : Stands(h, gs) => Stands(Link(h, g, "next", v), gs) /\ Stands(Link(h, g, "prev", v), gs)
    BY LinkStands
  <2> QED BY <2>1, Zenon DEF Linked
<1> QED BY <1>2, <1>3, <1>4, Zenon DEF r

\* A rating is none of the options either.
LEMMA RatingStands ==
  ASSUME NEW gs, NEW st, "grp" \in DOMAIN st, Stands(st.grp, gs), NEW g
  PROVE  LET r == [st EXCEPT !.grp[g].pri = @ + 1]
         IN Stands(r.grp, gs) /\ (Unmoved(st.grp, gs) => Unmoved(r.grp, gs))
<1> DEFINE w == [st.grp[g] EXCEPT !.pri = @ + 1]
           new == [st.grp EXCEPT ![g] = w]
           r == [st EXCEPT !.grp[g].pri = @ + 1]
<1>1. r.grp = new
  OBVIOUS
<1>2. g \in 1..Len(gs) => Alike(w, gs[g]) /\ w.detect = st.grp[g].detect /\ w.level = st.grp[g].level
  BY DEF Stands, Alike, Fields
<1> HIDE DEF w
<1>3. Stands(new, gs)
  BY <1>2, StandsSet
<1>4. Unmoved(st.grp, gs) => Unmoved(new, gs)
  BY <1>2, Zenon DEF Unmoved, Stands
<1> HIDE DEF r, new
<1> QED BY <1>1, <1>3, <1>4 DEF r

\* What on_trigger does, step by step, to a strategy of the command line.
LEMMA MovesOf ==
  ASSUME NEW gs, NEW addrs, NEW st, StrategyOf(st, gs, addrs), NEW n, NEW ord, Chain(st, n, ord),
         NEW m, Moves(st, n, ord, m)
  PROVE  StrategyOf(m, gs, addrs)
<1>1. CASE m = st
  BY <1>1, Zenon
<1>2. ASSUME NEW i \in 1..n, NEW j \in 1..n, i < j, "s" \in st.grp[ord[j]].level,
             m = Swop(st, ord[i], ord[j])
      PROVE  StrategyOf(m, gs, addrs)
  <2>1. ListOk(m)
    BY <1>2, SwopChain, Zenon DEF ListOk
  <2>2. {"grp", "head"} \subseteq DOMAIN st /\ DOMAIN st.grp = 1..n /\ ord[j] \in 1..n
    BY DEF Chain, Linkable, Order
  <2>3. Stands(m.grp, gs) /\ DOMAIN m = DOMAIN st /\ m.cache = st.cache
    BY <1>2, <2>2, SwopStands DEF StrategyOf
  <2>4. ~Unsorted(gs)
    BY <1>2, <2>2, Zenon DEF StrategyOf, Stands, Unsorted, Unmoved
  <2> QED BY <2>1, <2>3, <2>4, Zenon DEF StrategyOf
<1> QED BY <1>1, <1>2, Zenon DEF Moves

\* Rating a group leaves a strategy of the command line.
LEMMA RatesOf ==
  ASSUME NEW gs, NEW addrs, NEW m, StrategyOf(m, gs, addrs), NEW rated, Rates(m, rated)
  PROVE  StrategyOf(rated, gs, addrs)
<1>1. CASE rated = m
  BY <1>1, Zenon
<1>2. ASSUME NEW g, rated = [m EXCEPT !.grp[g].pri = @ + 1] PROVE StrategyOf(rated, gs, addrs)
  <2>1. ListOk(m) /\ {"grp", "cache"} \subseteq DOMAIN m
    BY Zenon DEF StrategyOf, ListOk, Chain
  <2>2. ListOk(rated)
    BY <1>2, <2>1, RatingKeepsList, Zenon
  <2>3. Stands(rated.grp, gs) /\ (Unmoved(m.grp, gs) => Unmoved(rated.grp, gs))
    BY <1>2, <2>1, RatingStands, Zenon DEF StrategyOf
  <2>4. DOMAIN rated = DOMAIN m /\ rated.cache = m.cache
    BY <1>2, <2>1, Zenon
  <2> QED BY <2>1, <2>2, <2>3, <2>4, Zenon DEF StrategyOf
<1> QED BY <1>1, <1>2, Zenon DEF Rates

\* So does a change of the cache.
LEMMA CacheOf ==
  ASSUME NEW gs, NEW addrs, NEW st, StrategyOf(st, gs, addrs), NEW cache,
         CacheOk(cache, addrs, Len(gs))
  PROVE  StrategyOf([st EXCEPT !.cache = cache], gs, addrs)
<1> DEFINE r == [st EXCEPT !.cache = cache]
<1>1. ListOk(r)
  BY CacheKeepsList, Zenon DEF StrategyOf
<1>2. DOMAIN r = DOMAIN st /\ r.cache = cache /\ ("grp" \in DOMAIN st => r.grp = st.grp)
  BY Zenon DEF StrategyOf
<1>3. "grp" \in DOMAIN st
  BY DEF StrategyOf, ListOk, Chain
<1> HIDE DEF r
<1>4. StrategyOf(r, gs, addrs)
  BY <1>1, <1>2, <1>3, Zenon DEF StrategyOf
<1> QED BY <1>4 DEF r

\* A cache in which one entry is set or deleted.
LEMMA CacheSet ==
  ASSUME NEW n, NEW addrs, NEW cache, CacheOk(cache, addrs, n), NEW a, NEW v,
         v = None \/ \E e : v = Some(e) /\ "dp" \in DOMAIN e /\ e.dp \in 1..n
  PROVE  CacheOk([cache EXCEPT ![a] = v], addrs, n)
<1> DEFINE Good(x) == x = None \/ \E e : x = Some(e) /\ "dp" \in DOMAIN e /\ e.dp \in 1..n
<1>1. \A b \in addrs : Good(cache[b])
  BY Zenon DEF CacheOk
<1>2. Good(v)
  OBVIOUS
<1> HIDE DEF Good
<1>3. \A b \in addrs : Good([cache EXCEPT ![a] = v][b])
  BY <1>1, <1>2 DEF CacheOk
<1> QED BY <1>3, Zenon DEF CacheOk, Good

\* cache_add gives an entry that can be assigned a group.
LEMMA CacheAddHas ==
  ASSUME NEW gs, NEW addrs, NEW st, StrategyOf(st, gs, addrs), NEW a \in addrs
  PROVE  "dp" \in DOMAIN CacheAdd(st, a)
<1>1. CASE st.cache[a] = None
  BY <1>1, Zenon DEF CacheAdd
<1>2. CASE st.cache[a] /= None
  <2>1. PICK e : st.cache[a] = Some(e) /\ "dp" \in DOMAIN e
    BY <1>2, Zenon DEF StrategyOf, CacheOk
  <2>2. st.cache[a][1] = e
    BY <2>1 DEF Some
  <2>3. CacheAdd(st, a) = [e EXCEPT !.age = 0]
    BY <1>2, <2>2, Zenon DEF CacheAdd
  <2> QED BY <2>1, <2>3, Zenon
<1> QED BY <1>1, <1>2, Zenon

\* The first group of a list is one of them.
LEMMA HeadOf ==
  ASSUME NEW gs, NEW addrs, NEW st, StrategyOf(st, gs, addrs)
  PROVE  st.head \in 1..Len(gs)
<1>1. PICK n, ord : Chain(st, n, ord)
  BY Zenon DEF StrategyOf, ListOk
<1>2. DOMAIN st.grp = 1..n /\ n \in Nat \ {0} /\ st.head = ord[1] /\ Order(ord, n)
  BY <1>1 DEF Chain, Linkable
<1>3. 1..n = 1..Len(gs)
  BY <1>2, Zenon DEF StrategyOf, Stands
<1>4. 1 \in 1..n /\ ord[1] \in 1..n
  BY <1>2 DEF Order
<1> QED BY <1>2, <1>3, <1>4, Zenon

\* on_trigger leaves a strategy of the command line.
LEMMA TriggerOf ==
  ASSUME NEW gs, NEW addrs, NEW st, StrategyOf(st, gs, addrs), NEW c, NEW a, NEW type, NEW alive
  PROVE  StrategyOf(Trigger(st, c, a, type, alive).s, gs, addrs)
<1>1. PICK n, ord : Chain(st, n, ord)
  BY DEF StrategyOf, ListOk
<1> DEFINE r == Trigger(st, c, a, type, alive).s
<1>2. PICK m, rated : Moves(st, n, ord, m) /\ Rates(m, rated) /\ Assigns(st, n, a, rated, r)
  BY <1>1, TriggerForm, Zenon
<1> HIDE DEF r
<1>3. StrategyOf(rated, gs, addrs)
  <2>1. StrategyOf(m, gs, addrs)
    BY <1>1, <1>2, MovesOf, Zenon
  <2> QED BY <1>2, <2>1, RatesOf, Zenon
<1>4. PICK e : /\ r = [rated EXCEPT !.cache[a] = Some(e)]
               /\ a \in addrs => "dp" \in DOMAIN e /\ (e.dp = rated.head \/ e.dp \in 1..n)
  BY <1>2, CacheAddHas, Zenon DEF Assigns
<1>5. 1..n = 1..Len(gs)
  BY <1>1, Zenon DEF Chain, Linkable, StrategyOf, Stands
<1>6. a \in addrs => e.dp \in 1..Len(gs)
  BY <1>3, <1>4, <1>5, HeadOf, Zenon
<1> DEFINE cache == [rated.cache EXCEPT ![a] = Some(e)]
<1>7. CacheOk(cache, addrs, Len(gs))
  <2>1. CacheOk(rated.cache, addrs, Len(gs))
    BY <1>3, Zenon DEF StrategyOf
  <2>2. CASE a \in addrs
    BY <1>4, <1>6, <2>1, <2>2, CacheSet, Zenon
  <2>3. CASE a \notin addrs
    <3>1. DOMAIN cache = addrs /\ \A b \in addrs : cache[b] = rated.cache[b]
      BY <2>1, <2>3, Zenon DEF CacheOk
    <3> HIDE DEF cache
    <3> QED BY <2>1, <3>1, Zenon DEF CacheOk
  <2> QED BY <2>2, <2>3, Zenon
<1>8. r = [rated EXCEPT !.cache = cache]
  BY <1>4, Zenon
<1> HIDE DEF cache
<1>9. StrategyOf(r, gs, addrs)
  BY <1>3, <1>7, <1>8, CacheOf, Zenon
<1> QED BY <1>9, Zenon DEF r

\* cache_get finds what the cache has, and leaves a cache.
LEMMA CacheGetOf ==
  ASSUME NEW gs, NEW addrs, NEW st, StrategyOf(st, gs, addrs), NEW a, NEW e \in CacheGet(st, a)
  PROVE  CacheOk(e.cache, addrs, Len(gs)) /\ (e.found = None \/ e.found = st.cache[a])
<1>1. CASE e = [found |-> None, cache |-> st.cache] \/ e = [found |-> st.cache[a], cache |-> st.cache]
  BY <1>1 DEF StrategyOf
<1>2. ASSUME NEW b, e = [found |-> None, cache |-> [st.cache EXCEPT ![b] = None]]
      PROVE  CacheOk(e.cache, addrs, Len(gs)) /\ e.found = None
  <2>1. CacheOk([st.cache EXCEPT ![b] = None], addrs, Len(gs))
    BY CacheSet, Zenon DEF StrategyOf
  <2> QED BY <1>2, <2>1, Zenon
<1> QED BY <1>1, <1>2, Zenon DEF CacheGet

-----------------------------------------------------------------------------
(* Start, end and files *)

\* The first strategy.
LEMMA NewStrategyOf ==
  ASSUME NEW q, GroupList(q.groups), NEW addrs
  PROVE  LET st == NewStrategy(q, addrs)
         IN /\ StrategyOf(st, q.groups, addrs) /\ Ids(st) = 1..Len(q.groups)
            /\ \A g \in Ids(st) : st.grp[g].file = q.groups[g].file
<1> DEFINE gs == q.groups
           n == Len(gs)
           st == NewStrategy(q, addrs)
           Next1(g) == IF g = n THEN 0 ELSE g + 1
<1>1. /\ "cache" \in DOMAIN st /\ DOMAIN st.grp = 1..n
      /\ \A g \in 1..n : st.grp[g] = Listed(gs[g], Next1(g), g - 1)
      /\ DOMAIN st.cache = addrs /\ \A a \in addrs : st.cache[a] = None
  BY Zenon DEF NewStrategy
<1>2. ASSUME NEW g, NEW x, NEW y, Fields \subseteq DOMAIN g
      PROVE  LET l == Listed(g, x, y) IN Fields \subseteq DOMAIN l /\ \A f \in Fields : l[f] = g[f]
  BY <1>2 DEF Listed, Fields
<1>3. \A g \in 1..n : Fields \subseteq DOMAIN gs[g]
  BY Zenon DEF GroupList, Group
<1>4. ListOk(st)
  BY NewStrategyList
<1> HIDE DEF st, n, Next1
<1>5. \A g \in 1..n : Fields \subseteq DOMAIN st.grp[g] /\ \A f \in Fields : st.grp[g][f] = gs[g][f]
  BY <1>1, <1>2, <1>3
<1>6. Stands(st.grp, gs) /\ Unmoved(st.grp, gs) /\ \A g \in 1..n : st.grp[g].file = gs[g].file
  BY <1>1, <1>5, Zenon DEF Stands, Alike, Unmoved, Fields, n
<1>7. CacheOk(st.cache, addrs, n)
  BY <1>1, Zenon DEF CacheOk
<1>8. StrategyOf(st, gs, addrs)
  BY <1>1, <1>4, <1>6, <1>7, Zenon DEF StrategyOf, n
<1> QED BY <1>1, <1>6, <1>8, Zenon DEF st, n, Ids

\* The groups whose files name address a, after load_cache has read files.
Naming(st, files, a) ==
  {g \in Ids(st) : st.grp[g].file /= None /\ \E e \in files[st.grp[g].file[1]] : e.addr = a}

\* load_cache assigns an address one of the groups whose files name it.
LEMMA LoadCacheAssigns ==
  ASSUME NEW st, {"cache", "grp"} \subseteq DOMAIN st, NEW n \in Nat, Ids(st) = 1..n, NEW files
  PROVE  LET r == LoadCache(st, files)
         IN /\ DOMAIN r.cache = DOMAIN st.cache
            /\ \A a \in DOMAIN st.cache :
                 IF Naming(st, files, a) = {} THEN r.cache[a] = None
                 ELSE \E e : r.cache[a] = Some(e) /\ "dp" \in DOMAIN e /\ e.dp \in Naming(st, files, a)
<1> DEFINE Pick(T) == CHOOSE x \in T : \A y \in T : y <= x
           Aged(g, a) == (CHOOSE e \in files[st.grp[g].file[1]] : e.addr = a).age
           Entry(a) ==
             IF Naming(st, files, a) = {} THEN None
             ELSE Some([mask |-> {}, detect |-> {}, dp |-> Pick(Naming(st, files, a)),
                        age |-> Aged(Pick(Naming(st, files, a)), a)])
           r == LoadCache(st, files)
<1>1. r = [st EXCEPT !.cache = [a \in DOMAIN st.cache |-> Entry(a)]]
  BY Zenon DEF LoadCache, Naming
<1>2. ASSUME NEW T \in SUBSET (1..n), T /= {} PROVE Pick(T) \in T
  <2>1. Max(T) \in T /\ \A y \in T : y <= Max(T)
    BY <1>2, MaxIn, Zenon
  <2> HIDE DEF Max
  <2>2. \E x \in T : \A y \in T : y <= x
    BY <2>1
  <2> QED BY <2>2, Zenon
<1> HIDE DEF Pick, Aged
<1>3. \A a : Naming(st, files, a) \in SUBSET (1..n)
  BY Zenon DEF Naming
<1>4. DOMAIN r.cache = DOMAIN st.cache /\ \A a \in DOMAIN st.cache : r.cache[a] = Entry(a)
  BY <1>1, Zenon
<1> HIDE DEF r
<1>5. ASSUME NEW a \in DOMAIN st.cache, Naming(st, files, a) /= {}
      PROVE  \E e : r.cache[a] = Some(e) /\ "dp" \in DOMAIN e /\ e.dp \in Naming(st, files, a)
  <2> DEFINE T == Naming(st, files, a)
             e == [mask |-> {}, detect |-> {}, dp |-> Pick(T), age |-> Aged(Pick(T), a)]
  <2>1. r.cache[a] = Some(e)
    BY <1>4, <1>5, Zenon
  <2>2. "dp" \in DOMAIN e /\ e.dp = Pick(T)
    OBVIOUS
  <2>3. Pick(T) \in T
    BY <1>2, <1>3, <1>5
  <2> HIDE DEF e, T
  <2> QED BY <2>1, <2>2, <2>3 DEF T
<1> QED BY <1>4, <1>5, Zenon DEF r

\* The strategy of a worker that starts again.
LEMMA LoadCacheOf ==
  ASSUME NEW q, GroupList(q.groups), NEW addrs, NEW files
  PROVE  StrategyOf(LoadCache(NewStrategy(q, addrs), files), q.groups, addrs)
<1> DEFINE st == NewStrategy(q, addrs)
           r == LoadCache(st, files)
           n == Len(q.groups)
<1>1. StrategyOf(st, q.groups, addrs) /\ Ids(st) = 1..n /\ n \in Nat
  BY NewStrategyOf DEF GroupList
<1>2. {"cache", "grp"} \subseteq DOMAIN st /\ DOMAIN st.cache = addrs
  BY Zenon DEF NewStrategy
<1>3. \E cache : r = [st EXCEPT !.cache = cache]
  BY DEF LoadCache
<1> HIDE DEF st, n
<1>4. /\ DOMAIN r.cache = DOMAIN st.cache
      /\ \A a \in DOMAIN st.cache :
           IF Naming(st, files, a) = {} THEN r.cache[a] = None
           ELSE \E e : r.cache[a] = Some(e) /\ "dp" \in DOMAIN e /\ e.dp \in Naming(st, files, a)
  BY <1>1, <1>2, LoadCacheAssigns
<1>5. \A a : Naming(st, files, a) \subseteq 1..n
  BY <1>1, Zenon DEF Naming
<1> HIDE DEF r
<1>6. CacheOk(r.cache, addrs, n)
  BY <1>2, <1>4, <1>5, Zenon DEF CacheOk
<1>7. r = [st EXCEPT !.cache = r.cache]
  BY <1>2, <1>3, Zenon
<1>8. StrategyOf(r, q.groups, addrs)
  BY <1>1, <1>6, <1>7, CacheOf DEF n
<1> QED BY <1>8, Zenon DEF r, st

\* Of the groups that keep a file, one writes it.
LEMMA OneWrites ==
  ASSUME NEW gs, GroupList(gs), NEW addrs, NEW st, StrategyOf(st, gs, addrs), NEW f,
         NEW g \in 1..Len(gs), gs[g].file = Some(f)
  PROVE  /\ Writers(st, f) /= {}
         /\ LET w == Groups(st)[Max(Writers(st, f))] IN w \in 1..Len(gs) /\ gs[w].file = Some(f)
<1>1. PICK n, ord : Chain(st, n, ord)
  BY Zenon DEF StrategyOf, ListOk
<1>2. Groups(st) = ord
  BY <1>1, GroupsAre
<1>3. n \in Nat /\ 1..n = 1..Len(gs) /\ DOMAIN ord = 1..n /\ Order(ord, n)
  BY <1>1, Zenon DEF Chain, Linkable, Order, StrategyOf, Stands
<1>4. \A h \in 1..n : st.grp[h].file = gs[h].file
  BY <1>3, Zenon DEF StrategyOf, Stands, Alike, Fields
<1>5. /\ Writers(st, f) = {k \in 1..n : st.grp[ord[k]].file = Some(f)}
      /\ \A k \in 1..n : ord[k] \in 1..n
  BY <1>2, <1>3, Zenon DEF Writers, Order
<1>6. PICK k \in 1..n : ord[k] = g
  BY <1>3, Zenon DEF Order
<1>7. Writers(st, f) /= {} /\ Writers(st, f) \in SUBSET (1..n)
  BY <1>3, <1>4, <1>5, <1>6, Zenon
<1>8. Max(Writers(st, f)) \in Writers(st, f)
  BY <1>3, <1>7, MaxIn, Zenon
<1> HIDE DEF Max
<1> QED BY <1>2, <1>3, <1>4, <1>5, <1>7, <1>8

\* The group that the cache of a strategy assigns to an address, 0 if none.
Assigned(st, a) == IF st.cache[a] = None THEN 0 ELSE st.cache[a][1].dp

\* What a restart may make of the group old: new, if it has a file of its own
\* the same, and if it shares the file none or one it shares it with.
Remembered(st, old, new) ==
  LET sharing == {g \in Ids(st) : st.grp[g].file = st.grp[old].file}
  IN IF old = 0 \/ st.grp[old].file = None THEN new = 0
     ELSE IF sharing = {old} THEN new = old
     ELSE new \in {0} \cup sharing

\* What a worker that is told to end and starts again knows about an address.
LEMMA EndRemembers ==
  ASSUME NEW q, GroupList(q.groups), NEW addrs, NEW st, StrategyOf(st, q.groups, addrs), NEW files,
         \A g \in 1..Len(q.groups) : q.groups[g].file /= None => q.groups[g].file[1] \in DOMAIN files,
         NEW a \in addrs
  PROVE  Remembered(st, Assigned(st, a),
                    Assigned(LoadCache(NewStrategy(q, addrs), DumpAllCache(st, files)), a))
<1> DEFINE gs == q.groups
           n == Len(gs)
           old == Assigned(st, a)
           fresh == NewStrategy(q, addrs)
           dumped == DumpAllCache(st, files)
           r == LoadCache(fresh, dumped)
           new == Assigned(r, a)
           sharing == {g \in Ids(st) : st.grp[g].file = st.grp[old].file}
           naming == Naming(fresh, dumped, a)
           Writer(f) == Groups(st)[Max(Writers(st, f))]
<1>1. /\ n \in Nat /\ Ids(fresh) = 1..n /\ {"cache", "grp"} \subseteq DOMAIN fresh
      /\ DOMAIN fresh.cache = addrs
      /\ \A g \in 1..n : fresh.grp[g].file = gs[g].file
  <2>1. n \in Nat
    BY DEF GroupList
  <2>2. {"cache", "grp"} \subseteq DOMAIN fresh /\ DOMAIN fresh.cache = addrs
    BY Zenon DEF NewStrategy
  <2> QED BY <2>1, <2>2, NewStrategyOf, Zenon
<1>2. Ids(st) = 1..n /\ \A g \in 1..n : st.grp[g].file = gs[g].file
  BY Zenon DEF StrategyOf, Stands, Alike, Fields, Ids
<1>3. IF naming = {} THEN r.cache[a] = None
      ELSE \E e : r.cache[a] = Some(e) /\ "dp" \in DOMAIN e /\ e.dp \in naming
  <2> HIDE DEF fresh, dumped, n, gs
  <2> QED BY <1>1, LoadCacheAssigns, Zenon DEF r, naming
<1>4. IF naming = {} THEN new = 0 ELSE new \in naming
  <2> HIDE DEF naming, r
  <2>1. None /= Some(1) /\ \A e : Some(e) /= None /\ Some(e)[1] = e
    BY Zenon DEF None, Some
  <2> QED BY <1>3, <2>1, Zenon DEF Assigned
<1>5. old = 0 \/ (st.cache[a] /= None /\ old \in 1..n /\ old = st.cache[a][1].dp)
  <2>1. st.cache[a] = None \/ \E e : st.cache[a] = Some(e) /\ e.dp \in 1..n
    BY Zenon DEF StrategyOf, CacheOk
  <2>2. \A e : Some(e)[1] = e
    BY Zenon DEF Some
  <2> QED BY <2>1, <2>2, Zenon DEF Assigned
<1>6. ASSUME NEW g \in 1..n, NEW f, gs[g].file = Some(f)
      PROVE  /\ g \in naming <=> (old /= 0 /\ old = Writer(f))
             /\ Writer(f) \in 1..n /\ gs[Writer(f)].file = Some(f)
  <2>1. Writers(st, f) /= {} /\ Writer(f) \in 1..n /\ gs[Writer(f)].file = Some(f)
    BY <1>6, OneWrites
  <2> HIDE DEF Writer
  <2>2. Some(f)[1] = f /\ Some(f) /= None
    BY Zenon DEF Some, None
  <2>3. f \in DOMAIN files
    BY <1>6, <2>2, Zenon
  <2>4. dumped[f] = DumpCache(st, Writer(f))
    BY <2>1, <2>3, Zenon DEF DumpAllCache, Writer
  <2>5. (\E e \in DumpCache(st, Writer(f)) : e.addr = a)
          <=> (st.cache[a] /= None /\ st.cache[a][1].dp = Writer(f))
    <3>1. DOMAIN st.cache = addrs
      BY Zenon DEF StrategyOf, CacheOk
    <3>2. \A e : e \in DumpCache(st, Writer(f)) <=>
            \E b \in addrs : /\ st.cache[b] /= None /\ st.cache[b][1].dp = Writer(f)
                             /\ e = [addr |-> b, age |-> st.cache[b][1].age]
      BY <3>1, Zenon DEF DumpCache
    <3>3. \A b, x : [addr |-> b, age |-> x].addr = b
      OBVIOUS
    <3>4. ASSUME NEW e \in DumpCache(st, Writer(f)), e.addr = a
          PROVE  st.cache[a] /= None /\ st.cache[a][1].dp = Writer(f)
      <4>1. PICK b \in addrs : /\ st.cache[b] /= None /\ st.cache[b][1].dp = Writer(f)
                               /\ e = [addr |-> b, age |-> st.cache[b][1].age]
        BY <3>2, Zenon
      <4>2. b = a
        BY <3>4, <4>1, Zenon
      <4> QED BY <4>1, <4>2, Zenon
    <3>5. ASSUME st.cache[a] /= None, st.cache[a][1].dp = Writer(f)
          PROVE  \E e \in DumpCache(st, Writer(f)) : e.addr = a
      BY <3>2, <3>3, <3>5, Zenon
    <3> QED BY <3>4, <3>5, Zenon
  <2>6. g \in naming <=> \E e \in dumped[f] : e.addr = a
    <3> HIDE DEF fresh, dumped
    <3> QED BY <1>1, <1>6, <2>2, Zenon DEF Naming
  <2>7. Writer(f) /= 0
    BY <1>1, <2>1
  <2> HIDE DEF naming, dumped, n, gs
  <2> QED BY <1>5, <2>1, <2>4, <2>5, <2>6, <2>7, Zenon DEF Assigned
<1>7. \A g \in naming : g \in 1..n /\ gs[g].file /= None
  <2> HIDE DEF fresh, dumped
  <2> QED BY <1>1, Zenon DEF Naming
<1>8. \A g \in 1..n : gs[g].file = None \/ \E f : gs[g].file = Some(f)
  BY Zenon DEF GroupList, Group
<1> HIDE DEF naming, new, old, Writer, gs, n
<1>9. ASSUME NEW g \in naming
      PROVE  g \in sharing /\ old \in 1..n /\ gs[old].file /= None
  <2>1. PICK f : gs[g].file = Some(f) /\ g \in 1..n
    BY <1>7, <1>8, Zenon
  <2>2. old \in 1..n /\ gs[old].file = Some(f)
    BY <1>5, <1>6, <2>1, Zenon
  <2> QED BY <1>2, <1>7, <2>1, <2>2, Zenon
<1>10. ASSUME old \in 1..n, gs[old].file /= None, sharing = {old} PROVE naming = {old}
  <2>1. PICK f : gs[old].file = Some(f)
    BY <1>8, <1>10, Zenon
  <2>2. Writer(f) \in sharing
    BY <1>2, <1>6, <1>10, <2>1, Zenon
  <2>3. old \in naming
    <3>1. old /= 0
      BY <1>1, <1>10
    <3> QED BY <1>6, <1>10, <2>1, <2>2, <3>1, Zenon
  <2> QED BY <1>9, <1>10, <2>3, Zenon
<1>11. IF old = 0 \/ st.grp[old].file = None THEN new = 0
       ELSE IF sharing = {old} THEN new = old
       ELSE new \in {0} \cup sharing
  <2>1. CASE old = 0 \/ st.grp[old].file = None
    <3>1. naming = {}
      <4>1. old = 0 => old \notin 1..n
        BY <1>1
      <4> QED BY <1>2, <1>9, <2>1, <4>1, Zenon
    <3> QED BY <1>4, <2>1, <3>1, Zenon
  <2>2. CASE ~(old = 0 \/ st.grp[old].file = None)
    <3>1. old \in 1..n /\ gs[old].file /= None
      BY <1>2, <1>5, <2>2, Zenon
    <3> QED BY <1>4, <1>9, <1>10, <2>2, <3>1, Zenon
  <2> QED BY <2>1, <2>2, Zenon
<1> QED BY <1>11, Zenon DEF Remembered, new, old, gs

\* A group that takes whatever comes takes a connection of which nothing is
\* known, and datagrams.
LEMMA OpenFound ==
  ASSUME NEW st, NEW n, NEW ord, Chain(st, n, ord), NEW k \in 1..n, Unlimited(st.grp[k]),
         NEW c, c.dp = None, c.mask = {}, NEW buff, NEW dst
  PROVE  FindDp(st, c, buff, dst).dp /= None /\ UdpDp(st, dst) /= None
<1>1. Groups(st) = ord /\ n \in Nat /\ ord \in Seq(1..n) /\ Len(ord) = n
  <2>1. n \in Nat /\ ord \in [1..n -> 1..n]
    BY Zenon DEF Chain, Order
  <2>2. ord \in Seq(1..n)
    BY <2>1
  <2> QED BY <2>1, <2>2, GroupsAre
<1>2. PICK j \in 1..n : ord[j] = k
  BY Zenon DEF Chain, Order
<1>3. \A T \in SUBSET Nat : T /= {} => Least(T) \in T
  BY LeastIn, Zenon
<1>4. \A g : Some(g) /= None
  BY Zenon DEF Some, None
<1>5. FindDp(st, c, buff, dst).dp /= None
  <2> DEFINE order == ord \o ord
             good == {i \in 1..Len(order) : Suits(st, c, order[i], buff, dst)}
             i == Least(good)
  <2>1. FindDp(st, c, buff, dst) = FoundAt(st, c, order, i)
    BY <1>1, Zenon DEF FindDp, FindIn, FirstIndex, Groups
  <2>2. j \in 1..Len(order) /\ order[j] = k
    BY <1>1, <1>2
  <2>3. Suits(st, c, k, buff, dst)
    BY Zenon DEF Suits, Unlimited, CheckL34
  <2>4. j \in good /\ good \in SUBSET Nat /\ 0 \notin good
    BY <2>2, <2>3
  <2> HIDE DEF good, order
  <2>5. i /= 0
    BY <1>3, <2>4, Zenon
  <2> HIDE DEF i
  <2> QED BY <1>4, <2>1, <2>5 DEF FoundAt
<1>6. UdpDp(st, dst) /= None
  <2> DEFINE good == {i \in 1..Len(ord) : /\ st.grp[ord[i]].detect = {}
                                          /\ CheckL34(st.grp[ord[i]], "dgram", dst)}
             i == Least(good)
  <2>1. UdpDp(st, dst) = IF i = 0 THEN None ELSE Some(ord[i])
    BY <1>1, Zenon DEF UdpDp, FirstIndex
  <2>2. CheckL34(st.grp[k], "dgram", dst) /\ st.grp[k].detect = {}
    BY Zenon DEF Unlimited, CheckL34
  <2>3. j \in good /\ good \in SUBSET Nat /\ 0 \notin good
    BY <1>1, <1>2, <2>2
  <2> HIDE DEF good
  <2>4. i /= 0
    BY <1>3, <2>3
  <2> HIDE DEF i
  <2> QED BY <1>4, <2>1, <2>4, Zenon
<1> QED BY <1>5, <1>6, Zenon

\* As long as nothing is sorted, one of the groups of the command line does.
LEMMA FreshFound ==
  ASSUME NEW gs, OpenBefore(gs, Len(gs)), Unsorted(gs), NEW addrs, NEW st, StrategyOf(st, gs, addrs),
         NEW c, c.dp = None, c.mask = {}, NEW buff, NEW dst
  PROVE  FindDp(st, c, buff, dst).dp /= None /\ UdpDp(st, dst) /= None
<1>1. PICK n, ord : Chain(st, n, ord)
  BY Zenon DEF StrategyOf, ListOk
<1>2. 1..n = 1..Len(gs)
  BY <1>1, Zenon DEF Chain, Linkable, StrategyOf, Stands
<1>3. PICK k \in 1..n : Unlimited(gs[k])
  BY <1>2, Zenon DEF OpenBefore
<1>4. Unlimited(st.grp[k])
  <2>1. Alike(st.grp[k], gs[k]) /\ st.grp[k].detect = gs[k].detect
    BY <1>2, Zenon DEF StrategyOf, Stands, Unmoved
  <2>2. \A f \in {"proto", "hosts", "ipset", "pf"} : st.grp[k][f] = gs[k][f]
    BY <2>1, Zenon DEF Alike, Fields
  <2> QED BY <1>3, <2>1, <2>2, Zenon DEF Unlimited
<1> QED BY <1>1, <1>4, OpenFound, Zenon

-----------------------------------------------------------------------------
(* The handlers *)

\* A strategy of this run of the worker.
Good(st) == StrategyOf(st, p.groups, Addrs)

\* The strategies that a handler may leave, all of them good.
Lists(R) == \A r \in R : "s" \in DOMAIN r /\ Good(r.s)

\* connect_hook changes the cache only.
LEMMA ConnectHookList ==
  ASSUME NEW i, NEW st, Good(st), NEW c PROVE Lists(ConnectHook(i, st, c))
<1> SUFFICES ASSUME NEW r \in ConnectHook(i, st, c) PROVE "s" \in DOMAIN r /\ Good(r.s)
  BY Zenon DEF Lists
<1>1. PICK e \in Lookup(st, c, Dst(i)), full \in NoSlot :
        r = ConnectFrom(i, [st EXCEPT !.cache = e.cache], Recall(c, e.found), full)
  BY DEF ConnectHook
<1> DEFINE st2 == [st EXCEPT !.cache = e.cache]
           d == Recall(c, e.found)
           f == FindDp(st2, d, IF d.buf = None THEN None ELSE Some(Req(i)), Dst(i))
<1>2. Good(st2)
  <2>1. CacheOk(e.cache, Addrs, Len(p.groups))
    <3>1. CASE e \in CacheGet(st, Dst(i))
      BY <3>1, CacheGetOf, Zenon DEF Good
    <3>2. CASE e = [found |-> None, cache |-> st.cache]
      BY <3>2, Zenon DEF Good, StrategyOf
    <3> QED BY <3>1, <3>2, Zenon DEF Lookup
  <2> QED BY <2>1, CacheOf DEF Good
<1>3. r = ConnectBy(st2, d, f, full)
  BY <1>1, Zenon DEF ConnectFrom
<1> HIDE DEF st2, d, f
<1>4. "s" \in DOMAIN r /\ r.s = st2
  BY <1>3 DEF ConnectBy
<1> QED BY <1>2, <1>4, Zenon

\* A connection that is closed leaves the list alone.
LEMMA SettleList == ASSUME NEW R, Lists(R) PROVE Lists(Settle(R))
<1> SUFFICES ASSUME NEW r \in Settle(R) PROVE "s" \in DOMAIN r /\ Good(r.s)
  BY Zenon DEF Lists
<1>1. PICK q \in R : r = IF q.why = "" THEN q ELSE [q EXCEPT !.c = Close(q.c, q.why)]
  BY DEF Settle
<1>2. "s" \in DOMAIN q /\ Good(q.s)
  BY Zenon DEF Lists
<1>3. "s" \in DOMAIN r /\ r.s = q.s
  BY <1>1, <1>2
<1> QED BY <1>2, <1>3, Zenon

\* on_trigger and reconnect.
LEMMA OnTriggerList ==
  ASSUME Good(s), NEW i, NEW c, NEW type, NEW alive PROVE Lists(OnTrigger(i, c, type, alive))
<1> DEFINE t == Trigger(s, c, Dst(i), type, alive)
           hit == [c EXCEPT !.mask = t.mask, !.detect = type]
           q == Replay([hit EXCEPT !.failed = @ \cup {c.dp[1]}])
           done == [s |-> t.s, c |-> hit, why |-> "trigger"]
<1>1. Good(t.s)
  BY TriggerOf, Zenon DEF Good
<1>2. OnTrigger(i, c, type, alive) = IF t.retry THEN ConnectHook(i, t.s, q) ELSE {done}
  BY Zenon DEF OnTrigger, Triggered
<1>3. "s" \in DOMAIN done /\ done.s = t.s
  OBVIOUS
<1> HIDE DEF t, q, done
<1>4. Lists(ConnectHook(i, t.s, q))
  BY <1>1, ConnectHookList, Zenon
<1>5. Lists({done})
  BY <1>1, <1>3, Zenon DEF Lists
<1> QED BY <1>2, <1>4, <1>5, Zenon

\* on_torst is a trigger.
LEMMA OnTorstList == ASSUME Good(s), NEW i, NEW c PROVE Lists(OnTorst(i, c))
BY OnTriggerList, SettleList, Zenon DEF OnTorst

\* A handler that leaves the list as it is.
LEMMA SameLists == ASSUME Good(s), NEW c PROVE Lists({[s |-> s, c |-> c]})
<1> DEFINE r == [s |-> s, c |-> c]
<1>1. "s" \in DOMAIN r /\ r.s = s
  OBVIOUS
<1> HIDE DEF r
<1> QED BY <1>1, Zenon DEF Lists, r

\* on_fin is a trigger or closes.
LEMMA OnFinList == ASSUME Good(s), NEW i, NEW c, NEW byClient PROVE Lists(OnFin(i, c, byClient))
<1>1. Lists(Settle(OnTrigger(i, c, {"tlserr"}, ~byClient)))
  BY OnTriggerList, SettleList, Zenon
<1>2. Lists({[s |-> s, c |-> Close(c, "end")]})
  BY SameLists, Zenon
<1> QED BY <1>1, <1>2 DEF OnFin

\* on_tunnel: what it sends does not concern the list.
LEMMA FlushList == ASSUME Good(s), NEW i, NEW c, NEW fresh PROVE Lists(Flush(i, c, fresh))
<1> DEFINE d == SetupConn(i, c, c.buf[1].data)
           b == c.buf[1]
<1> SUFFICES ASSUME NEW r \in FlushBuf(i, d, b, fresh) PROVE "s" \in DOMAIN r /\ Good(r.s)
  BY Zenon DEF Lists, Flush
<1> HIDE DEF d, b
<1>1. \E e : r = [s |-> s, c |-> e]
  BY Zenon DEF FlushBuf
<1> QED BY <1>1

\* A send that fails is a reset (on_torst).
LEMMA SendFailsList == ASSUME Good(s), NEW i, NEW c, NEW data PROVE Lists(SendFails(i, c, data))
<1> SUFFICES ASSUME NEW r \in SendFails(i, c, data) PROVE "s" \in DOMAIN r /\ Good(r.s)
  BY Zenon DEF Lists
<1>1. PICK q \in OnTorst(i, c) : r = q \/ r = [q EXCEPT !.c = CutReplay(q.c, data)]
  BY DEF SendFails
<1>2. "s" \in DOMAIN q /\ Good(q.s)
  BY OnTorstList, Zenon DEF Lists
<1>3. "s" \in DOMAIN r /\ r.s = q.s
  BY <1>1, <1>2, Zenon
<1> QED BY <1>2, <1>3, Zenon

\* on_tunnel, for data just received.
LEMMA SendOnList == ASSUME Good(s), NEW i, NEW c, NEW data PROVE Lists(SendOn(i, c, data))
<1> SUFFICES ASSUME NEW r \in SendOn(i, c, data) PROVE "s" \in DOMAIN r /\ Good(r.s)
  BY DEF Lists
<1>1. CASE \E e : r = [s |-> s, c |-> e]
  BY <1>1
<1>2. CASE \E d, x : r \in SendFails(i, d, x)
  BY <1>2, SendFailsList, Zenon DEF Lists
<1>3. ASSUME NEW d, r \in SendData(i, d, data)
      PROVE  \/ \E e : r = [s |-> s, c |-> e]
             \/ \E x : r \in SendFails(i, d, x)
  <2>1. PICK q : r \in {[s |-> s, c |-> PassedOn(d, q)]} \cup SendFails(i, d, q.data)
    BY <1>3, Zenon DEF SendData
  <2> QED BY <2>1, Zenon
<1>4. r = [s |-> s, c |-> c] \/ \E d : r \in SendData(i, d, data)
  BY Zenon DEF SendOn
<1> QED BY <1>1, <1>2, <1>3, <1>4, Zenon

\* on_response.
LEMMA OnResponseList == ASSUME Good(s), NEW i, NEW c, NEW k PROVE Lists(OnResponse(i, c, k))
<1> DEFINE mask == c.mask \cup {c.dp[1]}
           d == [c EXCEPT !.mask = mask]
           waiting == SelectSeq(Groups(s), LAMBDA g : g \notin mask /\ Detects(s.grp[g], Req(i), k))
<1> SUFFICES ASSUME NEW r \in ResponseIn(i, d, waiting) PROVE "s" \in DOMAIN r /\ Good(r.s)
  BY DEF Lists, OnResponse
<1> HIDE DEF d, waiting
<1>1. ASSUME NEW e, NEW q \in Forward(e) PROVE "s" \in DOMAIN q /\ q.s = s
  BY <1>1 DEF Forward
<1>2. CASE waiting = <<>>
  BY <1>1, <1>2, Zenon DEF ResponseIn
<1>3. CASE waiting /= <<>>
  <2>1. PICK t \in OnTrigger(i, d, s.grp[waiting[1]].detect, TRUE) : r \in Responded(d, t)
    BY <1>3, Zenon DEF ResponseIn
  <2>2. "s" \in DOMAIN t /\ Good(t.s)
    BY OnTriggerList, Zenon DEF Lists
  <2>3. r = t \/ \E e : r \in {[q EXCEPT !.s = t.s] : q \in Forward(e)}
    BY <2>1 DEF Responded
  <2>4. ASSUME NEW e, NEW q \in Forward(e), r = [q EXCEPT !.s = t.s]
        PROVE  "s" \in DOMAIN r /\ r.s = t.s
    BY <1>1, <2>4
  <2> QED BY <2>2, <2>3, <2>4, Zenon
<1> QED BY <1>2, <1>3, Zenon

\* An event of the connection i.
Handles(i) ==
  \/ Connect(i) \/ DelayedRequest(i) \/ SocksStep(i) \/ Connected(i)
  \/ ConnectFails(i) \/ ClientData(i) \/ RemoteWritable(i) \/ Timer(i)
  \/ \E k \in Answers : Answer(i, k)
  \/ ClientWritable(i) \/ RemoteEnd(i) \/ RemoteReset(i) \/ ClientEnd(i)

\* A step is an event of a connection, time that passes or a restart.
LEMMA NextIs ==
  Next => (\E i \in Conns : Handles(i)) \/ Age \/ (\E signal \in BOOLEAN : Restart(signal))
BY Zenon DEF Next, Handles

\* Every handler ends with Put.
LEMMA HandlerList ==
  ASSUME Good(s), NEW i, Handles(i) PROVE Good(s')
<1>1. ASSUME NEW R, Lists(R), \E r \in R : Put(i, r) PROVE Good(s')
  BY <1>1, Zenon DEF Lists, Put
<1>2. ASSUME NEW c, Put(i, [s |-> s, c |-> c]) PROVE Good(s')
  BY <1>2, Zenon DEF Put
<1>3. ASSUME NEW c, \E r \in Settle(ConnectHook(i, s, c)) : Put(i, r) PROVE Good(s')
  BY <1>1, <1>3, ConnectHookList, SettleList, Zenon
<1>4. CASE Connect(i) \/ DelayedRequest(i)
  BY <1>3, <1>4, Zenon DEF Connect, DelayedRequest
<1>5. CASE SocksStep(i) \/ ClientWritable(i)
  BY <1>2, <1>5, Zenon DEF SocksStep, ClientWritable
<1>6. CASE Connected(i)
  <2>1. PICK c : \E r \in (IF c.buf = None THEN {[s |-> s, c |-> c]} ELSE Flush(i, c, TRUE)) : Put(i, r)
    BY <1>6, Zenon DEF Connected
  <2> QED BY <1>1, <2>1, SameLists, FlushList, Zenon
<1>7. CASE ConnectFails(i)
  <2>1. Lists(Settle(OnTrigger(i, conn[i], {"connect"}, TRUE)))
    BY OnTriggerList, SettleList, Zenon
  <2> QED BY <1>1, <1>2, <1>7, <2>1, Zenon DEF ConnectFails
<1>8. CASE ClientData(i)
  BY <1>1, <1>8, FlushList, SendOnList, Zenon DEF ClientData
<1>9. CASE RemoteWritable(i) \/ RemoteReset(i)
  BY <1>1, <1>9, FlushList, OnTorstList, Zenon DEF RemoteWritable, RemoteReset
<1>10. CASE Timer(i)
  BY <1>1, <1>2, <1>10, FlushList, OnTorstList, Zenon DEF Timer
<1>11. CASE \E k \in Answers : Answer(i, k)
  <2>1. PICK c, k : \E r \in (IF c.sq /= None THEN OnResponse(i, c, k) ELSE Forward(c)) : Put(i, r)
    BY <1>11, Zenon DEF Answer
  <2>2. Lists(Forward(c))
    BY DEF Lists, Forward
  <2> QED BY <1>1, <2>1, <2>2, OnResponseList, Zenon
<1>12. CASE RemoteEnd(i) \/ ClientEnd(i)
  BY <1>1, <1>2, <1>12, OnFinList, Zenon DEF RemoteEnd, ClientEnd
<1> QED BY <1>4, <1>5, <1>6, <1>7, <1>8, <1>9, <1>10, <1>11, <1>12, Zenon DEF Handles

\* And Put leaves the command line and the files alone.
LEMMA HandlerLeaves ==
  ASSUME NEW i, Handles(i) PROVE UNCHANGED <<sc, p, disk>>
<1>1. ASSUME NEW r, Put(i, r) PROVE UNCHANGED <<sc, p, disk>>
  BY <1>1, Zenon DEF Put
<1>2. CASE Connect(i) \/ DelayedRequest(i) \/ SocksStep(i)
  BY <1>1, <1>2, Zenon DEF Connect, DelayedRequest, SocksStep
<1>3. CASE Connected(i) \/ ConnectFails(i)
  BY <1>1, <1>3, Zenon DEF Connected, ConnectFails
<1>4. CASE ClientData(i) \/ RemoteWritable(i) \/ Timer(i)
  BY <1>1, <1>4, Zenon DEF ClientData, RemoteWritable, Timer
<1>5. CASE (\E k \in Answers : Answer(i, k)) \/ ClientWritable(i)
  BY <1>1, <1>5, Zenon DEF Answer, ClientWritable
<1>6. CASE RemoteEnd(i) \/ RemoteReset(i) \/ ClientEnd(i)
  BY <1>1, <1>6, Zenon DEF RemoteEnd, RemoteReset, ClientEnd
<1> QED BY <1>2, <1>3, <1>4, <1>5, <1>6, Zenon DEF Handles

\* A list in this sense is whole.
LEMMA ListOkWhole == ListOk(s) => ListWhole
<1> SUFFICES ASSUME NEW n, NEW ord, Chain(s, n, ord) PROVE ListWhole
  BY Zenon DEF ListOk
<1>1. Groups(s) = ord /\ Ids(s) = 1..n
  BY GroupsAre
<1>2. IsInjective(ord) /\ Range(ord) = 1..n
  <2>1. /\ DOMAIN ord = 1..n /\ \A i \in 1..n : ord[i] \in 1..n
        /\ \A i, j \in 1..n : ord[i] = ord[j] => i = j
        /\ \A g \in 1..n : \E i \in 1..n : ord[i] = g
    BY Zenon DEF Chain, Order
  <2> QED BY <2>1 DEF IsInjective, Range
<1>3. s.grp[s.head].prev = 0
  BY DEF Chain, Follows
<1>4. ASSUME NEW g \in 1..n, s.grp[g].next /= 0 PROVE s.grp[s.grp[g].next].prev = g
  <2>1. PICK i \in 1..n : ord[i] = g
    BY Zenon DEF Chain, Order
  <2>2. i /= n /\ s.grp[g].next = ord[i + 1]
    BY <1>4, <2>1, Zenon DEF Chain, Follows
  <2>3. i + 1 \in 1..n /\ i + 1 /= 1 /\ (i + 1) - 1 = i
    BY <2>2 DEF Chain
  <2> QED BY <2>1, <2>2, <2>3, Zenon DEF Chain, Follows
<1> QED BY <1>1, <1>2, <1>3, <1>4, Zenon DEF ListWhole

\* What the worker keeps of its command line: the groups, one of which takes
\* whatever comes, their files, and where the connections go.
Setup ==
  /\ GroupList(p.groups) /\ OpenBefore(p.groups, Len(p.groups))
  /\ \A g \in 1..Len(p.groups) : p.groups[g].file /= None => p.groups[g].file[1] \in DOMAIN disk
  /\ "target" \in DOMAIN sc

\* The strategy is one of the command line, in whatever order.
StrategyInv == Setup /\ Good(s)

\* The first strategy is that of the command line.
LEMMA StrategyInit == Init => StrategyInv
<1> SUFFICES ASSUME Init PROVE StrategyInv
  OBVIOUS
<1>1. Len(sc.args) \in Nat /\ DOMAIN sc.args = 1..Len(sc.args) /\ "target" \in DOMAIN sc
  BY ArgsAreSequences, TargetsAreGiven, Zenon DEF Init
<1>2. GroupList(p.groups) /\ OpenBefore(p.groups, Len(p.groups))
  BY <1>1, ParsedGroups, Zenon DEF Init
<1>3. Good(s)
  BY <1>2, NewStrategyOf, Zenon DEF Init, Good
<1>4. ASSUME NEW g \in 1..Len(p.groups), p.groups[g].file /= None
      PROVE  p.groups[g].file[1] \in DOMAIN disk
  <2>1. DOMAIN p.groups = 1..Len(p.groups)
    BY <1>2 DEF GroupList
  <2>2. p.groups[g] \in {h \in Range(p.groups) : h.file /= None}
    BY <1>4, <2>1, Zenon DEF Range
  <2>3. DOMAIN disk = {h.file[1] : h \in {x \in Range(p.groups) : x.file /= None}}
    BY Zenon DEF Init
  <2> QED BY <2>2, <2>3, Zenon
<1> QED BY <1>1, <1>2, <1>3, <1>4, Zenon DEF StrategyInv, Setup

\* The parameters of a step that leaves the command line and the files alone.
LEMMA SetupStays ==
  ASSUME StrategyInv, UNCHANGED <<sc, p, disk>>, Good(s') PROVE StrategyInv'
<1>1. Setup'
  BY Zenon DEF StrategyInv, Setup
<1>2. Addrs' = Addrs
  BY Zenon DEF Addrs
<1>3. Good(s)'
  BY <1>2 DEF Good
<1> QED BY <1>1, <1>3 DEF StrategyInv

\* The entries of the cache grow older.
LEMMA AgeKeeps == ASSUME StrategyInv, Age PROVE StrategyInv'
<1> DEFINE cache == [a \in Addrs |-> Older(s.cache[a])]
<1>1. s' = [s EXCEPT !.cache = cache] /\ UNCHANGED <<sc, p, disk>>
  BY Zenon DEF Age
<1> DEFINE Holds(v) == v = None \/ \E e : v = Some(e) /\ "dp" \in DOMAIN e /\ e.dp \in 1..Len(p.groups)
<1>2. \A a \in Addrs : Holds(s.cache[a])
  BY Zenon DEF StrategyInv, Good, StrategyOf, CacheOk
<1>3. ASSUME NEW v, Holds(v) PROVE Holds(Older(v))
  <2>1. CASE Older(v) = v
    BY <1>3, <2>1, Zenon
  <2>2. CASE Older(v) /= v
    <3>1. PICK e : v = Some(e) /\ "dp" \in DOMAIN e /\ e.dp \in 1..Len(p.groups)
      BY <1>3, <2>2, Zenon DEF Older
    <3>2. v[1] = e
      BY <3>1, Zenon DEF Some
    <3>3. Older(v) = Some([e EXCEPT !.age = @ + 1])
      BY <2>2, <3>2, Zenon DEF Older
    <3>4. LET f == [e EXCEPT !.age = @ + 1] IN "dp" \in DOMAIN f /\ f.dp = e.dp
      BY <3>1, Zenon
    <3> QED BY <3>1, <3>3, <3>4, Zenon
  <2> QED BY <2>1, <2>2, Zenon
<1>4. DOMAIN cache = Addrs /\ \A a \in Addrs : Holds(cache[a])
  BY <1>2, <1>3, Zenon
<1> HIDE DEF cache
<1>5. CacheOk(cache, Addrs, Len(p.groups))
  BY <1>4, Zenon DEF CacheOk
<1>6. Good(s')
  BY <1>1, <1>5, CacheOf, Zenon DEF Good, StrategyInv
<1> QED BY <1>1, <1>6, SetupStays, Zenon

\* A worker that starts again reads its files.
LEMMA RestartStrategy == ASSUME StrategyInv, NEW signal, Restart(signal) PROVE StrategyInv'
<1>1. /\ sc' = [sc EXCEPT !.restarts = @ - 1] /\ p' = p
      /\ s' = LoadCache(NewStrategy(p, Addrs), disk')
      /\ disk' = DumpAllCache(s, disk) \/ disk' = disk
  BY Zenon DEF Restart
<1>2. DOMAIN sc' = DOMAIN sc /\ sc'.target = sc.target
  BY <1>1 DEF StrategyInv, Setup
<1>3. Addrs' = Addrs
  BY <1>2, Zenon DEF Addrs
<1>4. DOMAIN disk' = DOMAIN disk
  BY <1>1, Zenon DEF DumpAllCache
<1>5. Setup'
  BY <1>1, <1>2, <1>4, Zenon DEF StrategyInv, Setup
<1>6. StrategyOf(s', p.groups, Addrs)
  BY <1>1, LoadCacheOf, Zenon DEF StrategyInv, Setup
<1>7. Good(s)'
  BY <1>1, <1>3, <1>6, Zenon DEF Good
<1> QED BY <1>5, <1>7, Zenon DEF StrategyInv

\* Every step leaves a strategy of the command line.
LEMMA StrategyStep == StrategyInv /\ [Next]_vars => StrategyInv'
<1> SUFFICES ASSUME StrategyInv, [Next]_vars PROVE StrategyInv'
  OBVIOUS
<1>1. CASE UNCHANGED vars
  BY <1>1, SetupStays, Zenon DEF vars, StrategyInv
<1>2. ASSUME NEW i \in Conns, Handles(i) PROVE StrategyInv'
  <2>1. Good(s')
    BY <1>2, HandlerList, Zenon DEF StrategyInv
  <2>2. UNCHANGED <<sc, p, disk>>
    BY <1>2, HandlerLeaves, Zenon
  <2> QED BY <2>1, <2>2, SetupStays, Zenon
<1>3. CASE Age
  BY <1>3, AgeKeeps, Zenon
<1>4. CASE \E signal \in BOOLEAN : Restart(signal)
  BY <1>4, RestartStrategy, Zenon
<1> QED BY <1>1, <1>2, <1>3, <1>4, NextIs, Zenon

-----------------------------------------------------------------------------
(* Theorems *)

\* The groups in use are those of the command line, but for triggers and
\* levels that sorting moved, and the cache assigns no other: the inductive
\* invariant the theorems below rest on.
THEOREM StrategyKept == Spec => []StrategyInv
<1> QED BY StrategyInit, StrategyStep, PTL DEF Spec

\* However often -L s sorts the groups and the worker is restarted, the list
\* stays whole: swop_groups is only called for a group that stands before
\* the one on_trigger has come to, next to it or not, first in the list or not.
THEOREM GroupsStayListed == Spec => []ListWhole
<1>1. StrategyInv => ListWhole
  BY ListOkWhole, Zenon DEF StrategyInv, Good, StrategyOf
<1> QED BY <1>1, StrategyKept, PTL

\* As long as no group asks to be sorted (-L s), an address nothing is known
\* about is served: parse_args adds a group that takes whatever comes unless
\* there is one, no connection changes it, and find_dp and udp_hook come to it.
THEOREM NewcomersServed == Spec => [](Unsorted(p.groups) => FreshServed)
<1>1. StrategyInv => (Unsorted(p.groups) => FreshServed)
  <2> SUFFICES ASSUME StrategyInv, Unsorted(p.groups), NEW i \in Conns
               PROVE  /\ FindDp(s, NewConn, Some(Req(i)), Dst(i)).dp /= None
                      /\ UdpDp(s, Dst(i)) /= None
    BY Zenon DEF FreshServed
  <2>1. NewConn.dp = None /\ NewConn.mask = {}
    BY Zenon DEF NewConn
  <2> QED BY <2>1, FreshFound, Zenon DEF StrategyInv, Setup, Good
<1> QED BY <1>1, StrategyKept, PTL

\* A worker that was asked to end and starts again knows the group of every
\* address whose group has a file of its own, and of the others no group of
\* another file: the entry is in the file that the last group with that file
\* wrote, and load_cache reads every file for every group that names it.
THEOREM CacheSurvives == Spec => RestartRemembers
<1>1. StrategyInv /\ [Next]_vars =>
        [(sc' /= sc /\ disk' /= disk) =>
           \A a \in Addrs :
             LET old == IF s.cache[a] = None THEN 0 ELSE s.cache[a][1].dp
                 new == IF s'.cache[a] = None THEN 0 ELSE s'.cache[a][1].dp
                 sharing == {g \in Ids(s) : s.grp[g].file = s.grp[old].file}
             IN IF old = 0 \/ s.grp[old].file = None THEN new = 0
                ELSE IF sharing = {old} THEN new = old
                ELSE new \in {0} \cup sharing]_vars
  <2> SUFFICES ASSUME StrategyInv, [Next]_vars, sc' /= sc, disk' /= disk, NEW a \in Addrs
               PROVE  Remembered(s, Assigned(s, a), Assigned(s', a))
    BY DEF Assigned, Remembered
  <2>1. \E signal \in BOOLEAN : Restart(signal)
    <3>1. ASSUME NEW i \in Conns, Handles(i) PROVE sc' = sc
      BY <3>1, HandlerLeaves, Zenon
    <3>2. UNCHANGED vars \/ Age => sc' = sc
      BY Zenon DEF vars, Age
    <3> QED BY <3>1, <3>2, NextIs, Zenon
  <2>2. s' = LoadCache(NewStrategy(p, Addrs), DumpAllCache(s, disk))
    BY <2>1, Zenon DEF Restart
  <2>3. GroupList(p.groups) /\ StrategyOf(s, p.groups, Addrs)
    BY Zenon DEF StrategyInv, Setup, Good
  <2>4. \A g \in 1..Len(p.groups) : p.groups[g].file /= None => p.groups[g].file[1] \in DOMAIN disk
    BY Zenon DEF StrategyInv, Setup
  <2>5. Remembered(s, Assigned(s, a),
                   Assigned(LoadCache(NewStrategy(p, Addrs), DumpAllCache(s, disk)), a))
    BY <2>3, <2>4, EndRemembers, ZenonT(60)
  <2> QED BY <2>2, <2>5, Zenon
<1> QED BY <1>1, StrategyKept, PTL DEF Spec, RestartRemembers
=============================================================================
