---------------------------- MODULE ConnPoolOps -----------------------------
(***************************************************************************)
(* The invariant of ConnPool, Sound, for a pool of any size and any number *)
(* of connections, reports and deadlines, and what the operations of       *)
(* conev.c make of it: add_event, mod_etype, set_timer, remove_timer and   *)
(* del_event, which breaks the groups it closes and leaves all others      *)
(* whole.                                                                  *)
(***************************************************************************)
EXTENDS ConnPool, TLAPS, FiniteSetTheorems

-----------------------------------------------------------------------------
(* Induction over the natural numbers, for sets.                           *)

\* A set of natural numbers has a least element.
LEMMA LeastElement ==
  ASSUME NEW T, T \subseteq Nat, T # {}
  PROVE \E x \in T : \A y \in T : x <= y
<1> DEFINE Upto(x) == {y \in T : y <= x}
           F == {Upto(x) : x \in T}
<1>1. F \subseteq FiniteSubsetsOf(Nat)
  <2> SUFFICES ASSUME NEW x \in T PROVE Upto(x) \in FiniteSubsetsOf(Nat)
    OBVIOUS
  <2>1. IsFiniteSet(Upto(x))
    <3>1. Upto(x) \in SUBSET Nat /\ x \in Nat /\ \A s \in Upto(x) : s <= x
      BY Zenon
    <3> HIDE DEF Upto
    <3> QED BY <3>1, FS_BoundedSetOfNaturals, Zenon
  <2> QED BY <2>1, Zenon DEF FiniteSubsetsOf
<1>2. PICK U \in F : \A V \in F : ~ (<<V, U>> \in StrictSubsetOrdering(Nat))
  <2>1. F # {}
    BY Zenon
  <2> HIDE DEF F
  <2> QED BY <1>1, <2>1, FS_StrictSubsetOrderingWellFounded, WFMin
<1>3. PICK x \in T : U = Upto(x)
  BY <1>2
<1>4. ASSUME NEW y \in T, y < x PROVE FALSE
  <2>1. Upto(y) \subseteq Upto(x) /\ x \in Upto(x) /\ x \notin Upto(y)
    <3>1. x \in Nat /\ y \in Nat /\ \A z \in T : z \in Nat
      OBVIOUS
    <3>2. \A z \in T : z <= y => z <= x
      BY <1>4, <3>1
    <3>3. x <= x /\ ~ (x <= y)
      BY <1>4, <3>1
    <3> HIDE DEF F
    <3> QED BY <3>2, <3>3, Zenon
  <2>2. <<Upto(y), Upto(x)>> \in StrictSubsetOrdering(Nat)
    BY <2>1, Zenon DEF StrictSubsetOrdering
  <2> QED BY <1>2, <1>3, <2>2, Zenon
<1> QED BY <1>4

\* A set that has 0 and the successor of each of its members has all numbers.
LEMMA SetInduction ==
  ASSUME NEW S, 0 \in S, \A n \in Nat : n \in S => n + 1 \in S
  PROVE \A n \in Nat : n \in S
<1> DEFINE T == Nat \ S
<1> SUFFICES ASSUME T # {} PROVE FALSE
  OBVIOUS
<1>1. PICK x \in T : \A y \in T : x <= y
  BY LeastElement, Zenon
<1>2. x - 1 \in Nat /\ x - 1 \notin T
  BY <1>1
<1> QED BY <1>2

\* A bounded set of slots has a greatest element, which Max returns.
LEMMA Greatest ==
  ASSUME NEW n \in Int, NEW S, S \subseteq 0 .. n, S # {}
  PROVE Max(S) \in S /\ \A i \in S : i <= Max(S)
<1> DEFINE T == {n - i : i \in S}
<1>0. \A i \in S : i \in Int /\ n - i \in Nat
  OBVIOUS
<1>1. T \subseteq Nat /\ T # {}
  BY <1>0, Zenon
<1>2. PICK x \in T : \A y \in T : x <= y
  <2> HIDE DEF T
  <2> QED BY <1>1, LeastElement, Zenon
<1>3. PICK m \in S : x = n - m
  BY <1>2
<1>4. ASSUME NEW i \in S PROVE m >= i
  <2>1. n - m <= n - i
    BY <1>2, <1>3
  <2> HIDE DEF T
  <2>2. i \in Int /\ m \in Int
    BY <1>0
  <2> QED BY <2>1, <2>2
<1>5. \E k \in S : \A i \in S : k >= i
  BY <1>4
<1>6. Max(S) \in S /\ \A i \in S : Max(S) >= i
  BY <1>5, Zenon DEF Max
<1> QED BY <1>6
-----------------------------------------------------------------------------
(* The invariant.                                                          *)

\* A struct eval pointer, an event mask, a struct pollfd and the callbacks.
Refs == Items \cup {NULL}
Masks == {"none", "in", "out"}
Record == [fd : Nat, ev : Masks, rev : BOOLEAN]
Kinds == {"none", "accept", "request", "waiting", "connecting", "tunnel", "udp"}

\* The type of a pool.
PoolType ==
    [links : [Slots -> Items], pfd : [Slots -> Record], fd : [Items -> Nat],
     index : [Items -> Slots], fresh : [Items -> BOOLEAN], kind : [Items -> Kinds],
     conn : [Items -> BOOLEAN], keeps : [Items -> BOOLEAN], pair : [Items -> Refs],
     tv : [Items -> Nat], tvn : [Items -> Refs], tvp : [Items -> Refs],
     start : Refs, end : Refs, count : 0 .. Size, opened : Nat, owed : SUBSET Nat]

\* links is a permutation that has the open connections first, and index and
\* pfd follow it; no two connections share a socket.
Arrays(p) ==
    /\ \A i, j \in Slots : p.links[i] = p.links[j] => i = j
    /\ \A v \in Items : \E i \in Slots : p.links[i] = v
    /\ \A i \in Slots : p.fd[p.links[i]] # 0 <=> i < p.count
    /\ \A i \in Slots : i < p.count => p.index[p.links[i]] = i /\ p.pfd[i].fd = p.fd[p.links[i]]
    /\ \A v, w \in Items : p.fd[v] = p.fd[w] /\ p.fd[v] # 0 => v = w
    /\ \A v \in Items : p.fd[v] <= p.opened

\* v, its pair and the pair of that are the three of a UDP association.
Ring(p, v) ==
    LET e == p.pair[v] w == p.pair[e]
    IN  /\ Alive(p, e) /\ Alive(p, w) /\ p.pair[w] = v
        /\ e # v /\ w # v /\ w # e

\* What v, whose pair is e and whose pair's pair is w, is tied to by its
\* callback.
Tied(p, v, e, w) ==
    LET k == p.kind[v]
    IN  /\ k # "none"
        /\ k \in {"accept", "request"} => e = NULL /\ ~ p.conn[v]
        /\ k = "connecting" => Alive(p, e) /\ p.kind[e] = "waiting" /\ w = v /\ p.conn[v]
        /\ k = "tunnel" =>
              Alive(p, e) /\ p.kind[e] = "tunnel" /\ w = v /\ p.conn[e] = ~ p.conn[v]
        /\ k = "udp" => Ring(p, v)
        /\ k = "waiting" =>
              /\ Alive(p, e) /\ ~ p.conn[v]
              /\ (p.kind[e] = "connecting" /\ w = v) \/ Ring(p, v)

\* v and those it is tied to are open.
Whole(p, v) == Tied(p, v, p.pair[v], p.pair[p.pair[v]])

\* Every open connection but those of X is tied to open ones.
Groups(p, X) == \A v \in Items \ X : p.fd[v] # 0 => Whole(p, v)

\* A connect that is under way is waited for.
Watched(p) ==
    \A v \in Items : p.fd[v] # 0 /\ p.kind[v] = "connecting" => p.pfd[p.index[v]].ev = "out"

\* The connections with a timer.
Armed(p) == {v \in Items : p.tv[v] # 0}

\* Timers belong to remotes of tunnels.
Timers(p) ==
    \A v \in Armed(p) : p.fd[v] # 0 /\ p.kind[v] = "tunnel" /\ p.conn[v]

\* The timers form a list in both directions, earliest first, and it ends:
\* ranks fall along tv_prev.
Linked(p) ==
    /\ (p.start = NULL) <=> (Armed(p) = {})
    /\ (p.end = NULL) <=> (Armed(p) = {})
    /\ p.start # NULL => p.start \in Armed(p) /\ p.tvp[p.start] = NULL
    /\ p.end # NULL => p.end \in Armed(p) /\ p.tvn[p.end] = NULL
    /\ \A v \in Items :
          /\ v \notin Armed(p) => p.tvn[v] = NULL /\ p.tvp[v] = NULL
          /\ v \in Armed(p) /\ p.tvn[v] = NULL => v = p.end
          /\ v \in Armed(p) /\ p.tvp[v] = NULL => v = p.start
          /\ p.tvn[v] # NULL => /\ p.tvn[v] \in Armed(p) /\ p.tvp[p.tvn[v]] = v
                                /\ p.tv[v] <= p.tv[p.tvn[v]]
          /\ p.tvp[v] # NULL => p.tvp[v] \in Armed(p) /\ p.tvn[p.tvp[v]] = v
    /\ \E n \in Nat : \E r \in [Items -> 0 .. n] :
          \A v \in Items : p.tvp[v] # NULL => r[p.tvp[v]] < r[v]

\* The reports the scan will deliver if it gets that far.
Reported(p) == {i \in Slots : p.pfd[i].rev /\ ~ p.fresh[p.links[i]]}

\* The scan has no report left above slot o.
Below(p, o) == \A i \in Reported(p) : i <= o

\* A report the scan will deliver is of an open connection and still owed,
\* and no report that is owed is lost.
Reports(p) ==
    /\ \A i \in Reported(p) : i < p.count /\ p.pfd[i].fd \in p.owed
    /\ \A x \in p.owed : \E i \in Reported(p) : p.pfd[i].fd = x

\* What holds of the pool at every call of conev.c, in a group or between.
Body(p) ==
    /\ p \in PoolType /\ Arrays(p) /\ Watched(p) /\ Timers(p) /\ Linked(p) /\ Reports(p)

\* And between callbacks, when X is empty, the groups are whole as well.
Sound(p, X) == Body(p) /\ Groups(p, X)

\* The inductive invariant.
Inv ==
    /\ Sound(pool, {})
    /\ offs \in -1 .. Size - 1 /\ brk \in {"no", "set", "gone"}
    /\ Below(pool, offs)
    /\ brk = "no" /\ Reported(pool) = {} => \A i \in Slots : ~ pool.pfd[i].rev
-----------------------------------------------------------------------------
(* Types.                                                                  *)

\* The pool has a slot.
LEMMA SizeNat == Size \in Nat /\ Size > 0
BY PoolAssumption

\* Slots and items are numbered alike, and NULL is no item.
LEMMA Sizes ==
  /\ Size \in Nat /\ Size > 0 /\ NULL \notin Items /\ NULL \in Refs
  /\ Slots = Items /\ \A v \in Refs : v # NULL => v \in Items
BY PoolAssumption DEF NULL, Items, Slots, Refs

\* The type of each field.
LEMMA Fields ==
  ASSUME NEW p \in PoolType
  PROVE /\ p.links \in [Slots -> Items] /\ p.pfd \in [Slots -> Record]
        /\ p.fd \in [Items -> Nat] /\ p.index \in [Items -> Slots]
        /\ p.fresh \in [Items -> BOOLEAN] /\ p.kind \in [Items -> Kinds]
        /\ p.conn \in [Items -> BOOLEAN] /\ p.keeps \in [Items -> BOOLEAN]
        /\ p.pair \in [Items -> Refs] /\ p.tv \in [Items -> Nat]
        /\ p.tvn \in [Items -> Refs] /\ p.tvp \in [Items -> Refs]
        /\ p.start \in Refs /\ p.end \in Refs /\ p.count \in 0 .. Size
        /\ p.opened \in Nat /\ p.owed \in SUBSET Nat
BY DEF PoolType

\* In a pool that is not full the next slot is one of the array's.
LEMMA FreeSlot ==
  ASSUME NEW p \in PoolType, ~ Full(p)
  PROVE p.count \in Slots /\ p.links[p.count] \in Items /\ p.count + 1 \in 0 .. Size
<1>1. p.count \in 0 .. Size /\ p.links \in [Slots -> Items]
  BY Fields
<1> QED BY <1>1, SizeNat DEF Full, Slots

-----------------------------------------------------------------------------
(* add_event                                                               *)

\* q is p with one more connection, in item v.
Added(p, q, v, k, e) ==
    /\ q \in PoolType /\ v = p.links[p.count] /\ Newest(q) = v
    /\ q.fd = [p.fd EXCEPT ![v] = p.opened + 1]
    /\ q.index = [p.index EXCEPT ![v] = p.count]
    /\ q.fresh = [p.fresh EXCEPT ![v] = TRUE]
    /\ q.kind = [p.kind EXCEPT ![v] = k]
    /\ q.conn = [p.conn EXCEPT ![v] = FALSE]
    /\ q.pair = [p.pair EXCEPT ![v] = NULL]
    /\ q.tv = [p.tv EXCEPT ![v] = 0]
    /\ q.tvn = [p.tvn EXCEPT ![v] = NULL]
    /\ q.tvp = [p.tvp EXCEPT ![v] = NULL]
    /\ q.pfd = [p.pfd EXCEPT ![p.count] = [fd |-> p.opened + 1, ev |-> e, rev |-> FALSE]]
    /\ q.count = p.count + 1 /\ q.opened = p.opened + 1
    /\ q.links = p.links /\ q.start = p.start /\ q.end = p.end /\ q.owed = p.owed

\* Well-typed values for the fields that remove_timer sets keep the type.
LEMMA TimerType ==
  ASSUME NEW p \in PoolType, NEW tvn1 \in [Items -> Refs], NEW tvp1 \in [Items -> Refs],
         NEW start1 \in Refs, NEW end1 \in Refs, NEW tv1 \in [Items -> Nat]
  PROVE [p EXCEPT !.tvn = tvn1, !.tvp = tvp1, !.start = start1, !.end = end1, !.tv = tv1] \in PoolType
BY Zenon DEF PoolType

\* add_event does what Added says.
LEMMA AddEventAdds ==
  ASSUME NEW p \in PoolType, NEW k \in Kinds, NEW e \in Masks, ~ Full(p)
  PROVE Added(p, AddEvent(p, k, e), p.links[p.count], k, e)
<1> DEFINE q == AddEvent(p, k, e)
<1>1. p.opened + 1 \in Nat /\ p.count \in Int
  BY Fields, SizeNat
<1>2. q \in PoolType
  <2> DEFINE v == p.links[p.count]
  <2>1. v \in Items /\ p.count \in Slots /\ p.count + 1 \in 0 .. Size /\ NULL \in Refs
    BY FreeSlot, Sizes
  <2> HIDE DEF v
  <2> DEFINE fd1 == [p.fd EXCEPT ![v] = p.opened + 1] index1 == [p.index EXCEPT ![v] = p.count]
             fresh1 == [p.fresh EXCEPT ![v] = TRUE] kind1 == [p.kind EXCEPT ![v] = k]
             conn1 == [p.conn EXCEPT ![v] = FALSE] keeps1 == [p.keeps EXCEPT ![v] = TRUE]
             pair1 == [p.pair EXCEPT ![v] = NULL] tv1 == [p.tv EXCEPT ![v] = 0]
             tvn1 == [p.tvn EXCEPT ![v] = NULL] tvp1 == [p.tvp EXCEPT ![v] = NULL]
             pfd1 == [p.pfd EXCEPT ![p.count] = [fd |-> p.opened + 1, ev |-> e, rev |-> FALSE]]
             z == [p EXCEPT !.fd = fd1, !.index = index1, !.fresh = fresh1, !.kind = kind1,
                            !.conn = conn1, !.keeps = keeps1, !.pair = pair1, !.tv = tv1,
                            !.tvn = tvn1, !.tvp = tvp1, !.pfd = pfd1, !.count = p.count + 1,
                            !.opened = p.opened + 1]
  <2>2. /\ fd1 \in [Items -> Nat] /\ index1 \in [Items -> Slots] /\ fresh1 \in [Items -> BOOLEAN]
        /\ kind1 \in [Items -> Kinds] /\ conn1 \in [Items -> BOOLEAN] /\ keeps1 \in [Items -> BOOLEAN]
    BY <1>1, <2>1, Fields
  <2>3. /\ pair1 \in [Items -> Refs] /\ tv1 \in [Items -> Nat] /\ tvn1 \in [Items -> Refs]
        /\ tvp1 \in [Items -> Refs]
    BY <2>1, Fields
  <2>4. pfd1 \in [Slots -> Record]
    BY <1>1, <2>1, Fields DEF Record
  <2>5. q = z
    BY Zenon DEF AddEvent, v
  <2> HIDE DEF fd1, index1, fresh1, kind1, conn1, keeps1, pair1, tv1, tvn1, tvp1, pfd1, q
  <2>6. z \in PoolType
    BY <1>1, <2>1, <2>2, <2>3, <2>4, Zenon DEF PoolType
  <2> HIDE DEF z
  <2> QED BY <2>5, <2>6
<1>3. q.count = p.count + 1 /\ q.links = p.links
  BY DEF AddEvent, PoolType
<1>4. Newest(q) = p.links[p.count]
  <2> HIDE DEF q
  <2> QED BY <1>1, <1>3 DEF Newest
<1> QED BY <1>2, <1>4 DEF AddEvent, PoolType, Added

\* add_event keeps the arrays, the timers and the reports in order.
LEMMA AddedBody ==
  ASSUME NEW p, NEW q, Body(p), ~ Full(p), NEW v, NEW k \in Kinds, NEW e \in Masks,
         k = "connecting" => e = "out", Added(p, q, v, k, e)
  PROVE Body(q)
<1>0. p \in PoolType /\ v \in Items /\ p.count \in Slots /\ v = p.links[p.count] /\ q \in PoolType
  BY FreeSlot DEF Body, Added
<1>t. p.fd[v] = 0 /\ v \notin Armed(p)
  BY <1>0, SizeNat DEF Body, Arrays, Timers, Slots
<1>h. /\ p.opened \in Nat /\ p.count \in Nat /\ p.fd \in [Items -> Nat] /\ p.links \in [Slots -> Items]
      /\ p.index \in [Items -> Slots]
  BY <1>0, Fields, SizeNat DEF Slots
<1>f. /\ \A i \in Slots : i # p.count => q.pfd[i] = p.pfd[i]
      /\ q.pfd[p.count] = [fd |-> p.opened + 1, ev |-> e, rev |-> FALSE]
      /\ \A u \in Items : u # v => /\ q.fd[u] = p.fd[u] /\ q.index[u] = p.index[u]
                                   /\ q.fresh[u] = p.fresh[u] /\ q.kind[u] = p.kind[u]
                                   /\ q.conn[u] = p.conn[u]
      /\ q.fd[v] = p.opened + 1 /\ q.index[v] = p.count /\ q.fresh[v] /\ q.kind[v] = k
      /\ q.count = p.count + 1 /\ q.opened = p.opened + 1 /\ q.links = p.links
      /\ q.owed = p.owed
  BY <1>0, Fields DEF Added
<1>g. q.tv = p.tv /\ q.tvn = p.tvn /\ q.tvp = p.tvp /\ q.start = p.start /\ q.end = p.end
  <2>1. p.tv[v] = 0 /\ p.tvn[v] = NULL /\ p.tvp[v] = NULL
    BY <1>0, <1>t DEF Body, Linked, Armed
  <2>2. p.tv \in [Items -> Nat] /\ p.tvn \in [Items -> Refs] /\ p.tvp \in [Items -> Refs]
    BY <1>0, Fields
  <2> QED BY <1>0, <2>1, <2>2 DEF Added
<1>1. Arrays(q)
  <2>1. \A u \in Items : u # v => q.fd[u] = p.fd[u] /\ p.fd[u] <= p.opened
    BY <1>f DEF Body, Arrays
  <2>2. \A i \in Slots : p.links[i] = v <=> i = p.count
    BY <1>0 DEF Body, Arrays
  <2>3. \A u \in Items : q.fd[u] <= q.opened /\ (u # v => q.fd[u] # q.fd[v])
    BY <1>f, <1>h, <2>1
  <2>4. \A i \in Slots : i < q.count <=> i < p.count \/ i = p.count
    BY <1>h, <1>f DEF Slots
  <2>5. \A i \in Slots : q.fd[q.links[i]] # 0 <=> i < q.count
    BY <1>0, <1>f, <1>h, <2>2, <2>4 DEF Body, Arrays
  <2>6. \A i \in Slots : i < q.count => q.index[q.links[i]] = i /\ q.pfd[i].fd = q.fd[q.links[i]]
    BY <1>0, <1>f, <1>h, <2>2, <2>4 DEF Body, Arrays
  <2> QED BY <1>0, <1>f, <1>t, <2>3, <2>5, <2>6 DEF Body, Arrays
<1>2. Watched(q)
  <2>1. \A u \in Items : u # v /\ p.fd[u] # 0 => p.index[u] # p.count
    <3> SUFFICES ASSUME NEW u \in Items, u # v, p.fd[u] # 0 PROVE p.index[u] # p.count
      OBVIOUS
    <3>1. PICK i \in Slots : p.links[i] = u
      BY DEF Body, Arrays
    <3>2. i < p.count /\ p.index[u] = i
      BY <3>1 DEF Body, Arrays
    <3> QED BY <3>2, <1>h
  <2> QED BY <1>0, <1>f, <1>h, <2>1 DEF Body, Watched
<1>3. Timers(q)
  BY <1>f, <1>g, <1>t DEF Body, Timers, Armed
<1>4. Linked(q)
  BY <1>g DEF Body, Linked, Armed
<1>5. Reports(q)
  <2>1. \A i \in Slots : p.links[i] = v => i = p.count
    BY <1>0 DEF Body, Arrays
  <2>2. Reported(q) = Reported(p)
    BY <1>0, <1>f, <1>h, <2>1 DEF Body, Reports, Reported
  <2>3. \A i \in Reported(p) : i < q.count /\ q.pfd[i].fd = p.pfd[i].fd
    <3>1. \A i \in Reported(p) : i \in Slots /\ i < p.count
      BY DEF Body, Reports, Reported
    <3>2. \A i \in Slots : i < p.count => i < p.count + 1 /\ i # p.count
      BY <1>h DEF Slots
    <3> QED BY <1>f, <3>1, <3>2
  <2> QED BY <1>f, <2>2, <2>3 DEF Body, Reports
<1> QED BY <1>0, <1>1, <1>2, <1>3, <1>4, <1>5 DEF Body
-----------------------------------------------------------------------------
(* What the operations leave alone.                                        *)

\* What an operation on masks or on timers keeps: the groups, the arrays, the
\* timers.
SameGroups(p, q) == q.fd = p.fd /\ q.kind = p.kind /\ q.conn = p.conn /\ q.pair = p.pair

SameArrays(p, q) ==
    /\ q.links = p.links /\ q.index = p.index /\ q.fresh = p.fresh
    /\ q.count = p.count /\ q.opened = p.opened /\ q.owed = p.owed

SameTimers(p, q) ==
    /\ q.tv = p.tv /\ q.tvn = p.tvn /\ q.tvp = p.tvp
    /\ q.start = p.start /\ q.end = p.end

\* Groups does not depend on the rest of the pool.
LEMMA GroupsSame ==
  ASSUME NEW p, NEW q, NEW X, SameGroups(p, q), Groups(p, X)
  PROVE Groups(q, X)
BY DEF SameGroups, Groups, Whole, Tied, Ring, Alive

\* Nor do the parts of Body depend on more than they name.
LEMMA LinkedSame ==
  ASSUME NEW p, NEW q, SameTimers(p, q), Linked(p)
  PROVE Linked(q) /\ Armed(q) = Armed(p)
<1>1. Armed(q) = Armed(p)
  BY DEF SameTimers, Armed
<1> QED BY <1>1 DEF SameTimers, Linked

\* Timers, of unchanged groups.
LEMMA TimersSame ==
  ASSUME NEW p, NEW q, SameTimers(p, q), SameGroups(p, q), Body(p)
  PROVE Timers(q) /\ Linked(q)
<1>1. Linked(q) /\ Armed(q) = Armed(p) /\ Timers(p)
  BY LinkedSame DEF Body
<1> QED BY <1>1 DEF Timers, SameGroups

\* The arrays and the reports.
LEMMA ArraysSame ==
  ASSUME NEW p, NEW q, SameArrays(p, q), q.fd = p.fd, q.pfd = p.pfd, Arrays(p), Reports(p)
  PROVE Arrays(q) /\ Reports(q)
<1>1. Reported(q) = Reported(p)
  BY DEF SameArrays, Reported
<1>2. Reports(q)
  BY <1>1 DEF SameArrays, Reports
<1>3. Arrays(q)
  BY DEF SameArrays, Arrays
<1> QED BY <1>2, <1>3

\* A live connection's index leads to its slot.
LEMMA LiveSlot ==
  ASSUME NEW p, Body(p), NEW v \in Items, p.fd[v] # 0
  PROVE /\ p.index[v] \in Slots /\ p.index[v] < p.count /\ p.links[p.index[v]] = v
        /\ p.pfd[p.index[v]].fd = p.fd[v]
<1>1. PICK i \in Slots : p.links[i] = v
  BY DEF Body, Arrays
<1>2. i < p.count /\ p.index[v] = i /\ p.pfd[i].fd = p.fd[v]
  BY <1>1 DEF Body, Arrays
<1> QED BY <1>1, <1>2

-----------------------------------------------------------------------------
(* mod_etype                                                               *)

\* mod_etype changes one mask.
LEMMA ModEtypeFields ==
  ASSUME NEW p \in PoolType, NEW v \in Items, NEW e \in Masks
  PROVE LET q == ModEtype(p, v, e)
        IN  /\ q \in PoolType /\ q.pfd = [p.pfd EXCEPT ![p.index[v]].ev = e]
            /\ SameGroups(p, q) /\ SameArrays(p, q) /\ SameTimers(p, q) /\ q.keeps = p.keeps
<1>1. p.index[v] \in Slots /\ p.pfd[p.index[v]] \in Record
  BY Fields
<1> QED BY <1>1, Zenon DEF ModEtype, PoolType, Record, SameGroups, SameArrays, SameTimers

\* Through its own index, a connection that is not connecting may set any
\* mask; through a stale one only POLLOUT is harmless.
LEMMA ModEtypeBody ==
  ASSUME NEW p, Body(p), NEW v \in Items, NEW e \in Masks,
         e = "out" \/ (p.fd[v] # 0 /\ p.kind[v] # "connecting")
  PROVE LET q == ModEtype(p, v, e)
        IN  /\ Body(q) /\ SameGroups(p, q) /\ q.keeps = p.keeps /\ q.index = p.index
            /\ \A o \in Int : Below(p, o) => Below(q, o)
<1> DEFINE q == ModEtype(p, v, e)
<1>1. /\ p \in PoolType /\ q \in PoolType /\ q.pfd = [p.pfd EXCEPT ![p.index[v]].ev = e]
      /\ SameGroups(p, q) /\ SameArrays(p, q) /\ SameTimers(p, q) /\ q.keeps = p.keeps
  BY ModEtypeFields DEF Body
<1> HIDE DEF q
<1>2. /\ p.index[v] \in Slots /\ p.pfd \in [Slots -> Record]
      /\ \A u \in Items : p.index[u] \in Slots
  BY <1>1, Fields
<1>3. /\ \A i \in Slots : q.pfd[i].fd = p.pfd[i].fd /\ q.pfd[i].rev = p.pfd[i].rev
      /\ \A i \in Slots : i # p.index[v] => q.pfd[i].ev = p.pfd[i].ev
      /\ q.pfd[p.index[v]].ev = e
  BY <1>1, <1>2 DEF Record
<1>4. Arrays(q)
  BY <1>1, <1>3 DEF Body, Arrays, SameGroups, SameArrays
<1>5. Watched(q)
  <2> SUFFICES ASSUME NEW u \in Items, p.fd[u] # 0, p.kind[u] = "connecting"
               PROVE q.pfd[p.index[u]].ev = "out"
    BY <1>1 DEF Watched, SameGroups, SameArrays
  <2>1. p.pfd[p.index[u]].ev = "out"
    BY DEF Body, Watched
  <2>2. CASE p.index[u] = p.index[v]
    <3>1. u = v \/ p.fd[v] = 0
      BY <2>2, LiveSlot
    <3> QED BY <1>3, <2>2, <3>1
  <2> QED BY <1>2, <1>3, <2>1, <2>2
<1>6. Timers(q) /\ Linked(q)
  BY <1>1, TimersSame
<1>7. Reports(q) /\ \A o \in Int : Below(p, o) => Below(q, o)
  <2>1. Reported(q) = Reported(p)
    BY <1>1, <1>3 DEF Reported, SameArrays
  <2>2. \A i \in Reported(p) : q.pfd[i].fd = p.pfd[i].fd
    BY <1>3 DEF Reported
  <2> QED BY <1>1, <2>1, <2>2 DEF Body, Reports, SameArrays, Below
<1> QED BY <1>1, <1>4, <1>5, <1>6, <1>7 DEF Body, q, SameArrays

-----------------------------------------------------------------------------
(* Timers                                                                  *)

\* A change of timers only.
LEMMA TimersBody ==
  ASSUME NEW p, NEW q \in PoolType, Body(p), SameGroups(p, q), SameArrays(p, q), q.pfd = p.pfd,
         Timers(q), Linked(q)
  PROVE Body(q)
<1>1. Arrays(q) /\ Reports(q)
  BY ArraysSame DEF Body, SameGroups
<1>2. Watched(q)
  BY DEF Body, Watched, SameGroups, SameArrays
<1> QED BY <1>1, <1>2 DEF Body

\* q is p without a timer of v.
Disarmed(p, q, v) ==
    LET n == p.tvn[v] b == p.tvp[v]
    IN  /\ q.tvn = (IF b # NULL THEN [p.tvn EXCEPT ![b] = n, ![v] = NULL]
                                ELSE [p.tvn EXCEPT ![v] = NULL])
        /\ q.tvp = (IF n # NULL THEN [p.tvp EXCEPT ![n] = b, ![v] = NULL]
                                ELSE [p.tvp EXCEPT ![v] = NULL])
        /\ q.start = (IF p.start = v THEN n ELSE p.start)
        /\ q.end = (IF p.end = v THEN b ELSE p.end)
        /\ q.tv = [p.tv EXCEPT ![v] = 0]

\* remove_timer does what Disarmed says.
LEMMA RemoveTimerFields ==
  ASSUME NEW p \in PoolType, NEW v \in Items
  PROVE LET q == RemoveTimer(p, v)
        IN  /\ q \in PoolType /\ SameGroups(p, q) /\ SameArrays(p, q)
            /\ q.pfd = p.pfd /\ q.keeps = p.keeps /\ Disarmed(p, q, v)
<1>1. p.tvn[v] \in Refs /\ p.tvp[v] \in Refs /\ p.tvn \in [Items -> Refs] /\ p.tvp \in [Items -> Refs]
      /\ NULL \in Refs
  BY Fields, Sizes
<1>2. /\ [p.tvn EXCEPT ![v] = NULL] \in [Items -> Refs]
      /\ [p.tvn EXCEPT ![p.tvp[v]] = p.tvn[v], ![v] = NULL] \in [Items -> Refs]
      /\ [p.tvp EXCEPT ![v] = NULL] \in [Items -> Refs]
      /\ [p.tvp EXCEPT ![p.tvn[v]] = p.tvp[v], ![v] = NULL] \in [Items -> Refs]
  BY <1>1
<1>3. RemoveTimer(p, v) \in PoolType
  <2>1. [p.tv EXCEPT ![v] = 0] \in [Items -> Nat] /\ p.start \in Refs /\ p.end \in Refs
    BY Fields
  <2> DEFINE tvn1 == IF p.tvp[v] # NULL THEN [p.tvn EXCEPT ![p.tvp[v]] = p.tvn[v], ![v] = NULL]
                     ELSE [p.tvn EXCEPT ![v] = NULL]
             tvp1 == IF p.tvn[v] # NULL THEN [p.tvp EXCEPT ![p.tvn[v]] = p.tvp[v], ![v] = NULL]
                     ELSE [p.tvp EXCEPT ![v] = NULL]
             start1 == IF p.start = v THEN p.tvn[v] ELSE p.start
             end1 == IF p.end = v THEN p.tvp[v] ELSE p.end
             tv1 == [p.tv EXCEPT ![v] = 0]
             z == [p EXCEPT !.tvn = tvn1, !.tvp = tvp1, !.start = start1, !.end = end1, !.tv = tv1]
  <2>2. tvn1 \in [Items -> Refs] /\ tvp1 \in [Items -> Refs] /\ start1 \in Refs /\ end1 \in Refs
    BY <1>1, <1>2, <2>1, Zenon
  <2>3. RemoveTimer(p, v) = z
    BY Zenon DEF RemoveTimer
  <2>4. tv1 \in [Items -> Nat]
    BY <2>1
  <2> HIDE DEF tvn1, tvp1, start1, end1, tv1
  <2>5. z \in PoolType
    BY <2>2, <2>4, TimerType, Zenon
  <2> HIDE DEF z
  <2> QED BY <2>3, <2>5
<1>4. SameGroups(p, RemoveTimer(p, v)) /\ SameArrays(p, RemoveTimer(p, v))
  BY DEF RemoveTimer, PoolType, SameGroups, SameArrays
<1>5. RemoveTimer(p, v).pfd = p.pfd /\ RemoveTimer(p, v).keeps = p.keeps
  BY DEF RemoveTimer, PoolType
<1>6. Disarmed(p, RemoveTimer(p, v), v)
  BY DEF RemoveTimer, PoolType, Disarmed
<1> QED BY <1>3, <1>4, <1>5, <1>6

\* Taking a timer out leaves a sorted list without it.
LEMMA DisarmedLinked ==
  ASSUME NEW p \in PoolType, NEW q \in PoolType, NEW v \in Items, Linked(p), Disarmed(p, q, v)
  PROVE Linked(q) /\ Armed(q) = Armed(p) \ {v} /\ q.tv[v] = 0
<1>0. /\ p.tv \in [Items -> Nat] /\ p.tvn \in [Items -> Refs] /\ p.tvp \in [Items -> Refs]
      /\ p.start \in Refs /\ p.end \in Refs /\ NULL \notin Items
      /\ \A x \in Refs : x # NULL => x \in Items
  BY Fields, Sizes
<1>a. /\ Armed(q) = Armed(p) \ {v} /\ q.tv[v] = 0
      /\ \A u \in Items : u # v => q.tv[u] = p.tv[u]
  BY <1>0 DEF Armed, Disarmed
<1> DEFINE n == p.tvn[v] b == p.tvp[v]
<1>b. /\ n \in Refs /\ b \in Refs
      /\ \A u \in Items : u # v /\ u # b => q.tvn[u] = p.tvn[u]
      /\ \A u \in Items : u # v /\ u # n => q.tvp[u] = p.tvp[u]
      /\ q.tvn[v] = NULL /\ q.tvp[v] = NULL
      /\ b # NULL /\ b # v => q.tvn[b] = n
      /\ n # NULL /\ n # v => q.tvp[n] = b
      /\ q.start = (IF p.start = v THEN n ELSE p.start)
      /\ q.end = (IF p.end = v THEN b ELSE p.end)
  BY <1>0 DEF Disarmed
<1>m. PICK m \in Nat : \E r \in [Items -> 0 .. m] :
        \A u \in Items : p.tvp[u] # NULL => r[p.tvp[u]] < r[u]
  BY DEF Linked
<1>c. PICK r \in [Items -> 0 .. m] :
        \A u \in Items : p.tvp[u] # NULL => r[p.tvp[u]] < r[u]
  BY <1>m
<1>d. \A u \in Items : r[u] \in Nat
  BY <1>c
<1>e. n # v /\ b # v /\ (n # NULL => n # b)
  BY <1>0, <1>c, <1>d DEF Linked
<1>s. v \in Armed(p) /\ n = NULL /\ b = NULL => Armed(p) = {v}
  <2> SUFFICES ASSUME v \in Armed(p), n = NULL, b = NULL, Armed(p) \ {v} # {} PROVE FALSE
    BY <1>0
  <2> DEFINE R == {r[u] : u \in Armed(p) \ {v}}
  <2>1. R \subseteq Nat /\ R # {}
    BY <1>d DEF Armed
  <2>2. PICK x \in R : \A y \in R : x <= y
    <3> HIDE DEF R
    <3> QED BY <2>1, LeastElement, Zenon
  <2>3. PICK u \in Armed(p) \ {v} : \A w \in Armed(p) \ {v} : r[u] <= r[w]
    BY <2>2
  <2>4. u \in Items /\ p.tvp[u] # NULL
    BY DEF Linked, Armed
  <2>5. p.tvp[u] \in Armed(p) /\ p.tvn[p.tvp[u]] = u /\ r[p.tvp[u]] < r[u]
    BY <2>4, <1>c DEF Linked
  <2>6. p.tvp[u] # v
    BY <2>4, <2>5, <1>0
  <2>7. r[p.tvp[u]] \in Nat /\ r[u] \in Nat
    BY <2>4, <2>5, <1>d DEF Armed
  <2> QED BY <2>3, <2>5, <2>6, <2>7
<1>1. /\ (q.start = NULL) <=> (Armed(q) = {})
      /\ q.start # NULL => q.start \in Armed(q) /\ q.tvp[q.start] = NULL
  <2>1. CASE p.start = v
    BY <1>0, <1>a, <1>b, <1>e, <1>s, <2>1 DEF Linked
  <2>2. CASE p.start # v
    BY <1>0, <1>a, <1>b, <1>e, <2>2 DEF Linked
  <2> QED BY <2>1, <2>2
<1>2. /\ (q.end = NULL) <=> (Armed(q) = {})
      /\ q.end # NULL => q.end \in Armed(q) /\ q.tvn[q.end] = NULL
  <2>1. CASE p.end = v
    BY <1>0, <1>a, <1>b, <1>e, <1>s, <2>1 DEF Linked
  <2>2. CASE p.end # v
    BY <1>0, <1>a, <1>b, <1>e, <2>2 DEF Linked
  <2> QED BY <2>1, <2>2
<1>3. ASSUME NEW u \in Items
      PROVE /\ u \notin Armed(q) => q.tvn[u] = NULL /\ q.tvp[u] = NULL
            /\ u \in Armed(q) /\ q.tvn[u] = NULL => u = q.end
            /\ u \in Armed(q) /\ q.tvp[u] = NULL => u = q.start
  BY <1>0, <1>a, <1>b, <1>e DEF Linked
<1>4. ASSUME NEW u \in Items, q.tvn[u] # NULL
      PROVE q.tvn[u] \in Armed(q) /\ q.tvp[q.tvn[u]] = u /\ q.tv[u] <= q.tv[q.tvn[u]]
  BY <1>0, <1>a, <1>b, <1>e, <1>4 DEF Linked
<1>5. ASSUME NEW u \in Items, q.tvp[u] # NULL
      PROVE q.tvp[u] \in Armed(q) /\ q.tvn[q.tvp[u]] = u
  BY <1>0, <1>a, <1>b, <1>e, <1>5 DEF Linked
<1>6. \A u \in Items : q.tvp[u] # NULL => r[q.tvp[u]] < r[u]
  BY <1>0, <1>b, <1>c, <1>d, <1>e DEF Linked
<1> QED BY <1>1, <1>2, <1>3, <1>4, <1>5, <1>6, <1>a DEF Linked

\* remove_timer keeps the pool in order, also for a connection without timer.
LEMMA RemoveTimerBody ==
  ASSUME NEW p, Body(p), NEW v \in Items
  PROVE LET q == RemoveTimer(p, v)
        IN  /\ Body(q) /\ SameGroups(p, q) /\ SameArrays(p, q) /\ q.pfd = p.pfd
            /\ q.keeps = p.keeps /\ Armed(q) = Armed(p) \ {v} /\ q.tv[v] = 0
<1> DEFINE q == RemoveTimer(p, v)
<1>1. /\ p \in PoolType /\ q \in PoolType /\ SameGroups(p, q) /\ SameArrays(p, q)
      /\ q.pfd = p.pfd /\ q.keeps = p.keeps /\ Disarmed(p, q, v)
  BY RemoveTimerFields DEF Body
<1> HIDE DEF q
<1>2. Linked(q) /\ Armed(q) = Armed(p) \ {v} /\ q.tv[v] = 0
  BY <1>1, DisarmedLinked DEF Body
<1>3. Timers(q)
  BY <1>1, <1>2 DEF Timers, Body, SameGroups
<1>4. Body(q)
  BY <1>1, <1>2, <1>3, TimersBody
<1> QED BY <1>1, <1>2, <1>4 DEF q
\* The loop v := nx[v], which runs while v is in Go, goes down a rank.
Descends(S, Go, nx, n, r) ==
    /\ nx \in [S -> S] /\ n \in Nat /\ r \in [S -> 0 .. n]
    /\ \A v \in S : v \in Go => r[nx[v]] < r[v]

\* f is what it computes.
Computes(f, S, Go, nx) ==
    f \in [S -> S] /\ \A v \in S : f[v] = IF v \in Go THEN f[nx[v]] ELSE v

\* Such a loop computes a function.  By induction on the rank.
LEMMA LoopFunction ==
  ASSUME NEW S, NEW Go, NEW nx, NEW n, NEW r, Descends(S, Go, nx, n, r)
  PROVE \E f : Computes(f, S, Go, nx)
<1> USE DEF Descends
<1> DEFINE Step(f) == [v \in S |-> IF v \in Go THEN f[nx[v]] ELSE v]
           K == {k \in Nat : \E f \in [S -> S] : \A v \in S : r[v] < k => f[v] = Step(f)[v]}
<1>0. \A v \in S : r[v] \in Nat /\ r[v] <= n /\ nx[v] \in S
  OBVIOUS
<1>1. 0 \in K
  <2>1. [v \in S |-> v] \in [S -> S] /\ \A v \in S : ~ (r[v] < 0)
    BY <1>0
  <2> QED BY <2>1
<1>2. ASSUME NEW k \in Nat, k \in K PROVE k + 1 \in K
  <2>1. PICK f \in [S -> S] : \A v \in S : r[v] < k => f[v] = Step(f)[v]
    BY <1>2
  <2>2. Step(f) \in [S -> S]
    BY <1>0
  <2>3. ASSUME NEW v \in S, r[v] < k + 1, v \in Go PROVE f[nx[v]] = Step(f)[nx[v]]
    BY <1>0, <2>1, <2>3
  <2>4. \A v \in S : r[v] < k + 1 => Step(f)[v] = Step(Step(f))[v]
    BY <2>3, <1>0, Zenon
  <2> DEFINE g == Step(f)
  <2>5. g \in [S -> S] /\ k + 1 \in Nat /\ \A v \in S : r[v] < k + 1 => g[v] = Step(g)[v]
    BY <2>2, <2>4
  <2> HIDE DEF g, Step
  <2> QED BY <2>5
<1>3. n + 1 \in K
  <2> HIDE DEF K
  <2> QED BY <1>1, <1>2, SetInduction
<1>4. PICK f \in [S -> S] : \A v \in S : r[v] < n + 1 => f[v] = Step(f)[v]
  BY <1>3
<1>5. \A v \in S : r[v] < n + 1
  BY <1>0
<1> QED BY <1>4, <1>5 DEF Computes

\* A timer for t belongs after that of b, and before that of n.
Place(p, t, b) ==
    LET n == IF b = NULL THEN p.start ELSE p.tvn[b]
    IN  /\ b \in Refs /\ n \in Refs
        /\ b # NULL => b \in Armed(p) /\ p.tv[b] < t
        /\ n # NULL => n \in Armed(p) /\ p.tv[n] >= t

\* The search of set_timer ends at the place for the deadline t.
LEMMA BeforeFinds ==
  ASSUME NEW p \in PoolType, Linked(p), NEW t \in Nat \ {0}
  PROVE Place(p, t, Before(p, t))
<1>0. /\ p.tv \in [Items -> Nat] /\ p.tvn \in [Items -> Refs] /\ p.tvp \in [Items -> Refs]
      /\ p.start \in Refs /\ p.end \in Refs /\ NULL \notin Items /\ NULL \in Refs
      /\ \A x \in Refs : x # NULL => x \in Items
  BY Fields, Sizes
<1>m. PICK m \in Nat : \E r \in [Items -> 0 .. m] :
        \A u \in Items : p.tvp[u] # NULL => r[p.tvp[u]] < r[u]
  BY DEF Linked
<1>c. PICK r \in [Items -> 0 .. m] :
        \A u \in Items : p.tvp[u] # NULL => r[p.tvp[u]] < r[u]
  BY <1>m
<1> DEFINE Go == {v \in Items : p.tv[v] >= t}
           nx == [v \in Refs |-> IF v \in Items THEN p.tvp[v] ELSE v]
           rk == [v \in Refs |-> IF v \in Items THEN r[v] + 1 ELSE 0]
           from == CHOOSE f : f = [v \in Items \cup {NULL} |->
                        IF v # NULL /\ p.tv[v] >= t THEN f[p.tvp[v]] ELSE v]
<1>1. nx \in [Refs -> Refs] /\ rk \in [Refs -> 0 .. m + 1]
  BY <1>0, <1>c
<1>2. \A v \in Refs : v \in Go => rk[nx[v]] < rk[v]
  BY <1>0, <1>c
<1>3. PICK g : Computes(g, Refs, Go, nx)
  <2>1. m + 1 \in Nat
    OBVIOUS
  <2>2. Descends(Refs, Go, nx, m + 1, rk)
    <3> HIDE DEF Go, nx, rk
    <3> QED BY <1>1, <1>2, <2>1 DEF Descends
  <2> HIDE DEF Go, nx, rk
  <2> QED BY <2>2, LoopFunction
<1>4. g = [v \in Items \cup {NULL} |-> IF v # NULL /\ p.tv[v] >= t THEN g[p.tvp[v]] ELSE v]
  BY <1>0, <1>3 DEF Refs, Computes
<1>5. from = [v \in Items \cup {NULL} |-> IF v # NULL /\ p.tv[v] >= t THEN from[p.tvp[v]] ELSE v]
  BY <1>4, Zenon
<1>6. Before(p, t) = from[p.end]
  BY DEF Before
<1> HIDE DEF from
<1> DEFINE Next_(x) == IF x = NULL THEN p.start ELSE p.tvn[x]
           Here(x) == /\ x # NULL => x \in Armed(p)
                      /\ Next_(x) # NULL => p.tv[Next_(x)] >= t
           Found(x) == x \in Refs /\ Here(x) /\ (x # NULL => p.tv[x] < t)
           K == {k \in Nat : \A x \in Refs : Here(x) /\ rk[x] < k => Found(from[x])}
<1>7. \A x \in Refs : rk[x] \in Nat /\ rk[x] <= m + 1
  BY <1>1
<1>8. 0 \in K
  BY <1>7
<1>9. ASSUME NEW k \in Nat, k \in K PROVE k + 1 \in K
  <2> SUFFICES ASSUME NEW x \in Refs, Here(x), rk[x] < k + 1 PROVE Found(from[x])
    OBVIOUS
  <2>1. CASE x \in Go
    <3>1. from[x] = from[p.tvp[x]] /\ p.tvp[x] \in Refs /\ rk[p.tvp[x]] < rk[x] /\ x \in Items
      BY <2>1, <1>0, <1>2, <1>5 DEF Refs
    <3>2. x \in Armed(p)
      BY <2>1, <1>0 DEF Armed
    <3>3. Next_(p.tvp[x]) = x
      BY <3>1, <3>2 DEF Linked
    <3>4. Here(p.tvp[x])
      BY <2>1, <3>1, <3>3 DEF Linked
    <3>5. rk[p.tvp[x]] < k
      BY <3>1, <1>7
    <3> QED BY <1>9, <3>1, <3>4, <3>5
  <2>2. CASE x \notin Go
    <3>1. from[x] = x
      BY <2>2, <1>0, <1>5 DEF Refs
    <3>2. x # NULL => p.tv[x] < t
      BY <2>2, <1>0
    <3> QED BY <3>1, <3>2
  <2> QED BY <2>1, <2>2
<1>10. \A k \in Nat : k \in K
  <2> HIDE DEF K
  <2> QED BY <1>8, <1>9, SetInduction
<1>11. Here(p.end)
  BY <1>0 DEF Linked
<1>12. Found(from[p.end])
  <2>1. m + 2 \in K /\ rk[p.end] < m + 2
    BY <1>0, <1>7, <1>10
  <2> QED BY <1>0, <1>11, <2>1
<1>13. \A x \in Refs : Found(x) => /\ Next_(x) \in Refs
                                   /\ Next_(x) # NULL => Next_(x) \in Armed(p)
  BY <1>0 DEF Linked
<1> QED BY <1>6, <1>12, <1>13 DEF Place
\* q is p with a timer of v for t after that of b.
Inserted(p, q, v, t, b) ==
    LET n == IF b = NULL THEN p.start ELSE p.tvn[b]
    IN  /\ q.tv = [p.tv EXCEPT ![v] = t]
        /\ q.tvn = (IF b # NULL THEN [p.tvn EXCEPT ![b] = v, ![v] = n]
                                ELSE [p.tvn EXCEPT ![v] = n])
        /\ q.tvp = (IF n # NULL THEN [p.tvp EXCEPT ![n] = v, ![v] = b]
                                ELSE [p.tvp EXCEPT ![v] = b])
        /\ q.start = (IF p.start = NULL \/ n = p.start THEN v ELSE p.start)
        /\ q.end = (IF p.end = NULL \/ b = p.end THEN v ELSE p.end)

\* set_timer does what Inserted says, when v has no timer.
LEMMA SetTimerFields ==
  ASSUME NEW p \in PoolType, NEW v \in Items, p.tv[v] = 0, NEW t \in Nat \ {0}, Linked(p)
  PROVE LET q == SetTimer(p, v, t)
        IN  /\ q \in PoolType /\ SameGroups(p, q) /\ SameArrays(p, q)
            /\ q.pfd = p.pfd /\ q.keeps = p.keeps /\ Inserted(p, q, v, t, Before(p, t))
<1> DEFINE b == Before(p, t) n == IF b = NULL THEN p.start ELSE p.tvn[b] q == SetTimer(p, v, t)
<1>1. /\ b \in Refs /\ n \in Refs /\ v \in Refs /\ t \in Nat
      /\ p.tvn \in [Items -> Refs] /\ p.tvp \in [Items -> Refs] /\ p.start \in Refs /\ p.end \in Refs
  BY Fields, BeforeFinds, Zenon DEF Refs, Place
<1>2. q = [p EXCEPT !.tv = [p.tv EXCEPT ![v] = t],
                    !.tvn = IF b # NULL THEN [p.tvn EXCEPT ![b] = v, ![v] = n]
                                        ELSE [p.tvn EXCEPT ![v] = n],
                    !.tvp = IF n # NULL THEN [p.tvp EXCEPT ![n] = v, ![v] = b]
                                        ELSE [p.tvp EXCEPT ![v] = b],
                    !.start = IF p.start = NULL \/ n = p.start THEN v ELSE p.start,
                    !.end = IF p.end = NULL \/ b = p.end THEN v ELSE p.end]
  BY DEF SetTimer
<1> HIDE DEF b, q
<1>3. Inserted(p, q, v, t, b)
  BY <1>2 DEF Inserted, PoolType
<1> HIDE DEF n
<1>4. SameGroups(p, q) /\ SameArrays(p, q) /\ q.pfd = p.pfd /\ q.keeps = p.keeps
  BY <1>2 DEF PoolType, SameGroups, SameArrays
<1>5. /\ [p.tvn EXCEPT ![v] = n] \in [Items -> Refs]
      /\ [p.tvn EXCEPT ![b] = v, ![v] = n] \in [Items -> Refs]
      /\ [p.tvp EXCEPT ![v] = b] \in [Items -> Refs]
      /\ [p.tvp EXCEPT ![n] = v, ![v] = b] \in [Items -> Refs]
  BY <1>1
<1>6. q \in PoolType
  <2> DEFINE tvn == IF b # NULL THEN [p.tvn EXCEPT ![b] = v, ![v] = n] ELSE [p.tvn EXCEPT ![v] = n]
             tvp == IF n # NULL THEN [p.tvp EXCEPT ![n] = v, ![v] = b] ELSE [p.tvp EXCEPT ![v] = b]
             st == IF p.start = NULL \/ n = p.start THEN v ELSE p.start
             en == IF p.end = NULL \/ b = p.end THEN v ELSE p.end
  <2>1. tvn \in [Items -> Refs] /\ tvp \in [Items -> Refs] /\ st \in Refs /\ en \in Refs
    BY <1>1, <1>5
  <2>2. [p.tv EXCEPT ![v] = t] \in [Items -> Nat]
    BY <1>1, Fields
  <2>3. q = [p EXCEPT !.tv = [p.tv EXCEPT ![v] = t], !.tvn = tvn, !.tvp = tvp, !.start = st, !.end = en]
    BY <1>2
  <2> HIDE DEF tvn, tvp, st, en
  <2> QED BY <2>1, <2>2, <2>3, Zenon DEF PoolType
<1> QED BY <1>3, <1>4, <1>6 DEF q, b

\* A timer put in at its place leaves the list sorted.
LEMMA InsertedLinked ==
  ASSUME NEW p \in PoolType, NEW q \in PoolType, NEW v \in Items, NEW t \in Nat \ {0}, NEW b,
         Linked(p), p.tv[v] = 0, Inserted(p, q, v, t, b),
         Place(p, t, b)
  PROVE Linked(q) /\ Armed(q) = Armed(p) \cup {v}
<1> DEFINE n == IF b = NULL THEN p.start ELSE p.tvn[b]
<1>0. /\ p.tv \in [Items -> Nat] /\ p.tvn \in [Items -> Refs] /\ p.tvp \in [Items -> Refs]
      /\ p.start \in Refs /\ p.end \in Refs /\ NULL \notin Items
      /\ \A x \in Refs : x # NULL => x \in Items
  BY Fields, Sizes
<1>1. /\ b \in Refs /\ (b # NULL => b \in Armed(p) /\ p.tv[b] < t)
      /\ n \in Refs /\ (n # NULL => n \in Armed(p) /\ p.tv[n] >= t)
  BY DEF Place
<1>2. v \notin Armed(p) /\ b # v /\ n # v
  BY <1>0, <1>1 DEF Armed
<1>3. n # NULL => p.tvp[n] = b
  BY <1>0, <1>1 DEF Linked, Armed
<1>4. n = NULL => b = p.end
  BY <1>0, <1>1 DEF Linked, Armed
<1>5. b = NULL => n = p.start
  OBVIOUS
<1>6. (n # NULL => n # b) /\ (b = p.end => n = NULL) /\ (n = p.start => b = NULL)
  BY <1>0, <1>1, <1>3 DEF Linked, Armed
<1>a. /\ Armed(q) = Armed(p) \cup {v} /\ q.tv[v] = t
      /\ \A u \in Items : u # v => q.tv[u] = p.tv[u]
  BY <1>0 DEF Armed, Inserted
<1>b. /\ \A u \in Items : u # v /\ u # b => q.tvn[u] = p.tvn[u]
      /\ \A u \in Items : u # v /\ u # n => q.tvp[u] = p.tvp[u]
      /\ q.tvn[v] = n /\ q.tvp[v] = b
      /\ b # NULL => q.tvn[b] = v
      /\ n # NULL => q.tvp[n] = v
      /\ q.start = (IF p.start = NULL \/ n = p.start THEN v ELSE p.start)
      /\ q.end = (IF p.end = NULL \/ b = p.end THEN v ELSE p.end)
  BY <1>0, <1>1, <1>2 DEF Inserted
<1> HIDE DEF n
<1>c. Armed(p) \subseteq Items
  BY DEF Armed
<1>7. q.start # NULL /\ q.start \in Armed(q) /\ q.tvp[q.start] = NULL
  BY <1>0, <1>1, <1>2, <1>4, <1>5, <1>6, <1>a, <1>b, <1>c DEF Linked
<1>8. q.end # NULL /\ q.end \in Armed(q) /\ q.tvn[q.end] = NULL
  BY <1>0, <1>1, <1>2, <1>4, <1>5, <1>6, <1>a, <1>b, <1>c DEF Linked
<1>9. ASSUME NEW u \in Items
      PROVE /\ u \notin Armed(q) => q.tvn[u] = NULL /\ q.tvp[u] = NULL
            /\ u \in Armed(q) /\ q.tvn[u] = NULL => u = q.end
            /\ u \in Armed(q) /\ q.tvp[u] = NULL => u = q.start
  BY <1>0, <1>1, <1>2, <1>3, <1>4, <1>5, <1>6, <1>a, <1>b, <1>c DEF Linked
<1>10. ASSUME NEW u \in Items, q.tvn[u] # NULL
       PROVE q.tvn[u] \in Armed(q) /\ q.tvp[q.tvn[u]] = u /\ q.tv[u] <= q.tv[q.tvn[u]]
  <2>1. CASE u = v
    BY <1>0, <1>1, <1>2, <1>a, <1>b, <1>c, <1>10, <2>1
  <2>2. CASE u = b /\ u # v
    <3>1. p.tv[b] \in Nat /\ p.tv[b] < t
      BY <1>0, <1>1, <2>2
    <3> QED BY <1>0, <1>2, <1>a, <1>b, <2>2, <3>1
  <2>3. CASE u # b /\ u # v
    BY <1>0, <1>2, <1>3, <1>a, <1>b, <1>c, <1>10, <2>3 DEF Linked
  <2> QED BY <2>1, <2>2, <2>3
<1>11. ASSUME NEW u \in Items, q.tvp[u] # NULL
       PROVE q.tvp[u] \in Armed(q) /\ q.tvn[q.tvp[u]] = u
  BY <1>0, <1>1, <1>2, <1>3, <1>a, <1>b, <1>c, <1>11 DEF Linked, n
<1>12. \E k \in Nat : \E r \in [Items -> 0 .. k] :
          \A u \in Items : q.tvp[u] # NULL => r[q.tvp[u]] < r[u]
  <2>m. PICK m \in Nat : \E r \in [Items -> 0 .. m] :
          \A u \in Items : p.tvp[u] # NULL => r[p.tvp[u]] < r[u]
    BY DEF Linked
  <2>c. PICK r \in [Items -> 0 .. m] :
          \A u \in Items : p.tvp[u] # NULL => r[p.tvp[u]] < r[u]
    BY <2>m
  <2> DEFINE s == [u \in Items |-> IF u # v THEN 2 * r[u] + 2
                                   ELSE IF b = NULL THEN 1 ELSE 2 * r[b] + 3]
  <2>1. \A u \in Items : r[u] \in Nat /\ r[u] <= m
    BY <2>c
  <2>2. 2 * m + 3 \in Nat /\ s \in [Items -> 0 .. 2 * m + 3]
    BY <1>0, <1>1, <2>1
  <2>3. /\ \A u \in Items : u # v => s[u] = 2 * r[u] + 2
        /\ s[v] = IF b = NULL THEN 1 ELSE 2 * r[b] + 3
    OBVIOUS
  <2> HIDE DEF s
  <2>4. ASSUME NEW u \in Items, q.tvp[u] # NULL PROVE s[q.tvp[u]] < s[u]
    <3>1. CASE u = v
      BY <1>0, <1>1, <1>2, <1>b, <2>1, <2>3, <2>4, <3>1
    <3>2. CASE u = n
      <4>1. u \in Items /\ u # v /\ q.tvp[u] = v /\ p.tvp[u] = b
        BY <1>0, <1>1, <1>2, <1>3, <1>b, <3>2
      <4>2. b # NULL => r[b] < r[u] /\ b \in Items
        BY <1>0, <1>1, <2>c, <4>1
      <4> QED BY <2>1, <2>3, <4>1, <4>2
    <3>3. CASE u # v /\ u # n
      <4>1. q.tvp[u] = p.tvp[u] /\ p.tvp[u] \in Items /\ p.tvp[u] # v /\ r[p.tvp[u]] < r[u]
        BY <1>0, <1>2, <1>b, <1>c, <2>c, <2>4, <3>3 DEF Linked
      <4> QED BY <2>1, <2>3, <3>3, <4>1
    <3> QED BY <3>1, <3>2, <3>3
  <2> QED BY <2>2, <2>4, Zenon
<1>13. Armed(q) # {}
  BY <1>a
<1> QED BY <1>7, <1>8, <1>9, <1>10, <1>11, <1>12, <1>13, <1>a DEF Linked

\* set_timer keeps the pool in order, armed already or not.
LEMMA SetTimerBody ==
  ASSUME NEW p, Body(p), NEW v \in Items, NEW t \in Times,
         p.fd[v] # 0, p.kind[v] = "tunnel", p.conn[v]
  PROVE LET q == SetTimer(p, v, t)
        IN  Body(q) /\ SameGroups(p, q) /\ SameArrays(p, q) /\ q.pfd = p.pfd /\ q.keeps = p.keeps
<1> DEFINE q == SetTimer(p, v, t)
<1>t. t \in Nat \ {0}
  BY PoolAssumption
<1>1. CASE p.tv[v] # 0
  BY <1>1 DEF SetTimer, SameGroups, SameArrays
<1>2. CASE p.tv[v] = 0
  <2>1. /\ p \in PoolType /\ q \in PoolType /\ SameGroups(p, q) /\ SameArrays(p, q)
        /\ q.pfd = p.pfd /\ q.keeps = p.keeps /\ Inserted(p, q, v, t, Before(p, t))
    BY <1>t, <1>2, SetTimerFields DEF Body
  <2> HIDE DEF q
  <2>2. Linked(q) /\ Armed(q) = Armed(p) \cup {v}
    BY <1>t, <1>2, <2>1, BeforeFinds, InsertedLinked DEF Body
  <2>3. Timers(q)
    BY <2>1, <2>2 DEF Timers, Body, SameGroups
  <2>4. Body(q)
    BY <2>1, <2>2, <2>3, TimersBody
  <2> QED BY <2>1, <2>4 DEF q
<1> QED BY <1>1, <1>2

-----------------------------------------------------------------------------
(* del_event                                                               *)

\* q is p without v: its slot is taken over by the last connection.
Unlinked(p, q, v) ==
    LET c == p.count - 1 i == p.index[v] ev == p.links[c]
    IN  /\ q.fd = [p.fd EXCEPT ![v] = 0] /\ q.fresh = [p.fresh EXCEPT ![v] = TRUE]
        /\ q.kind = [p.kind EXCEPT ![v] = "none"] /\ q.conn = [p.conn EXCEPT ![v] = FALSE]
        /\ q.owed = p.owed \ {p.fd[v]} /\ q.count = c /\ q.opened = p.opened
        /\ q.links = [p.links EXCEPT ![i] = ev, ![c] = v]
        /\ q.pfd = [p.pfd EXCEPT ![i] = p.pfd[c]]
        /\ q.index = [p.index EXCEPT ![ev] = i]

\* Well-typed values for the fields that Unlink sets keep the type.
LEMMA ItemType ==
  ASSUME NEW m \in PoolType, NEW fd1 \in [Items -> Nat], NEW fresh1 \in [Items -> BOOLEAN],
         NEW kind1 \in [Items -> Kinds], NEW conn1 \in [Items -> BOOLEAN],
         NEW keeps1 \in [Items -> BOOLEAN]
  PROVE [m EXCEPT !.fd = fd1, !.fresh = fresh1, !.kind = kind1, !.conn = conn1, !.keeps = keeps1]
        \in PoolType
BY Zenon DEF PoolType

\* And with other slots.
LEMMA SlotType ==
  ASSUME NEW m \in PoolType, NEW owed1 \in SUBSET Nat, NEW c \in 0 .. Size,
         NEW links1 \in [Slots -> Items], NEW pfd1 \in [Slots -> Record],
         NEW index1 \in [Items -> Slots]
  PROVE [m EXCEPT !.owed = owed1, !.count = c, !.links = links1, !.pfd = pfd1, !.index = index1]
        \in PoolType
BY Zenon DEF PoolType

\* What Unlink does to the fields.
LEMMA UnlinkFields ==
  ASSUME NEW p \in PoolType, NEW v \in Items, p.count - 1 \in Slots, p.count - 1 \in 0 .. Size
  PROVE LET q == Unlink(p, v)
        IN  /\ q \in PoolType /\ Unlinked(p, q, v) /\ SameTimers(RemoveTimer(p, v), q)
            /\ q.pair = p.pair
<1> DEFINE m == RemoveTimer(p, v) q == Unlink(p, v)
           c == p.count - 1 i == p.index[v] ev == p.links[c]
<1>1. /\ m \in PoolType /\ SameGroups(p, m) /\ SameArrays(p, m) /\ m.pfd = p.pfd
  BY RemoveTimerFields
<1>2. i \in Slots /\ c \in Slots /\ ev \in Items /\ p.fd[v] \in Nat
  BY Fields
<1>3. q = [m EXCEPT !.fd = [p.fd EXCEPT ![v] = 0], !.fresh = [p.fresh EXCEPT ![v] = TRUE],
                    !.kind = [p.kind EXCEPT ![v] = "none"], !.conn = [p.conn EXCEPT ![v] = FALSE],
                    !.keeps = [p.keeps EXCEPT ![v] = FALSE], !.owed = p.owed \ {p.fd[v]},
                    !.count = c, !.links = [p.links EXCEPT ![i] = ev, ![c] = v],
                    !.pfd = [p.pfd EXCEPT ![i] = p.pfd[c]],
                    !.index = [p.index EXCEPT ![ev] = i]]
  BY DEF Unlink
<1> HIDE DEF m, q, c, i, ev
<1>4. /\ [p.fd EXCEPT ![v] = 0] \in [Items -> Nat] /\ [p.fresh EXCEPT ![v] = TRUE] \in [Items -> BOOLEAN]
      /\ [p.kind EXCEPT ![v] = "none"] \in [Items -> Kinds]
      /\ [p.conn EXCEPT ![v] = FALSE] \in [Items -> BOOLEAN]
      /\ [p.keeps EXCEPT ![v] = FALSE] \in [Items -> BOOLEAN]
      /\ p.owed \ {p.fd[v]} \in SUBSET Nat /\ c \in 0 .. Size
      /\ [p.links EXCEPT ![i] = ev, ![c] = v] \in [Slots -> Items]
      /\ [p.pfd EXCEPT ![i] = p.pfd[c]] \in [Slots -> Record]
      /\ [p.index EXCEPT ![ev] = i] \in [Items -> Slots]
  BY <1>2, Fields DEF Kinds, c
<1>5. q \in PoolType
  <2> DEFINE fd1 == [p.fd EXCEPT ![v] = 0] fresh1 == [p.fresh EXCEPT ![v] = TRUE]
             kind1 == [p.kind EXCEPT ![v] = "none"] conn1 == [p.conn EXCEPT ![v] = FALSE]
             keeps1 == [p.keeps EXCEPT ![v] = FALSE] owed1 == p.owed \ {p.fd[v]}
             links1 == [p.links EXCEPT ![i] = ev, ![c] = v]
             pfd1 == [p.pfd EXCEPT ![i] = p.pfd[c]] index1 == [p.index EXCEPT ![ev] = i]
             m1 == [m EXCEPT !.fd = fd1, !.fresh = fresh1, !.kind = kind1, !.conn = conn1,
                             !.keeps = keeps1]
  <2>1. q = [m1 EXCEPT !.owed = owed1, !.count = c, !.links = links1, !.pfd = pfd1, !.index = index1]
    BY <1>1, <1>3 DEF PoolType
  <2>2. /\ fd1 \in [Items -> Nat] /\ fresh1 \in [Items -> BOOLEAN] /\ kind1 \in [Items -> Kinds]
        /\ conn1 \in [Items -> BOOLEAN] /\ keeps1 \in [Items -> BOOLEAN] /\ owed1 \in SUBSET Nat
        /\ c \in 0 .. Size /\ links1 \in [Slots -> Items] /\ pfd1 \in [Slots -> Record]
        /\ index1 \in [Items -> Slots]
    BY <1>4
  <2> HIDE DEF fd1, fresh1, kind1, conn1, keeps1, owed1, links1, pfd1, index1
  <2>3. m1 \in PoolType
    BY <1>1, <2>2, ItemType, Zenon
  <2> HIDE DEF m1
  <2>4. [m1 EXCEPT !.owed = owed1, !.count = c, !.links = links1, !.pfd = pfd1, !.index = index1] \in PoolType
    BY <2>2, <2>3, SlotType, Zenon
  <2> QED BY <2>1, <2>4
<1>6. SameTimers(m, q) /\ q.pair = p.pair /\ q.opened = p.opened
  BY <1>1, <1>3 DEF PoolType, SameTimers, SameGroups, SameArrays
<1>7. Unlinked(p, q, v)
  <2>1. /\ q.fd = [p.fd EXCEPT ![v] = 0] /\ q.fresh = [p.fresh EXCEPT ![v] = TRUE]
        /\ q.kind = [p.kind EXCEPT ![v] = "none"] /\ q.conn = [p.conn EXCEPT ![v] = FALSE]
        /\ q.owed = p.owed \ {p.fd[v]} /\ q.count = c
        /\ q.links = [p.links EXCEPT ![i] = ev, ![c] = v]
        /\ q.pfd = [p.pfd EXCEPT ![i] = p.pfd[c]]
        /\ q.index = [p.index EXCEPT ![ev] = i]
    BY <1>1, <1>3 DEF PoolType
  <2> QED BY <1>6, <2>1 DEF Unlinked, c, i, ev
<1> QED BY <1>5, <1>6, <1>7 DEF q, m

\* The slots after an Unlink: the swap keeps arrays, masks and reports with
\* the connections they belong to, and no report moves up.
LEMMA UnlinkedArrays ==
  ASSUME NEW p, Body(p), NEW q \in PoolType, NEW v \in Items, p.fd[v] # 0, Unlinked(p, q, v)
  PROVE /\ Arrays(q) /\ Watched(q) /\ Reports(q)
        /\ \A o \in Int : Below(p, o) => Below(q, o)
<1> DEFINE c == p.count - 1 i == p.index[v] ev == p.links[c]
<1>0. /\ p \in PoolType /\ p.count \in Nat /\ p.count <= Size /\ Size \in Nat
      /\ i \in Slots /\ i < p.count /\ p.links[i] = v /\ p.pfd[i].fd = p.fd[v] /\ i \in Nat
  BY LiveSlot, Fields, SizeNat DEF Body, Slots
<1>1. c \in Slots /\ c \in Nat /\ c < p.count /\ i <= c
  BY <1>0 DEF Slots
<1>2. ev \in Items /\ p.links \in [Slots -> Items] /\ p.index \in [Items -> Slots] /\ p.pfd \in [Slots -> Record]
      /\ p.fd \in [Items -> Nat]
  BY <1>0, <1>1, Fields
<1>3. Arrays(p) /\ Watched(p) /\ Reports(p)
  BY DEF Body
<1>4. p.index[ev] = c /\ p.pfd[c].fd = p.fd[ev] /\ p.fd[ev] # 0 /\ (ev = v <=> i = c)
  BY <1>0, <1>1, <1>3 DEF Arrays
<1>5. /\ q.count = c /\ q.owed = p.owed \ {p.fd[v]} /\ q.opened = p.opened
      /\ q.fd[v] = 0 /\ q.fresh[v] = TRUE /\ q.links[c] = v
      /\ i # c => q.links[i] = ev /\ q.index[ev] = i
      /\ q.pfd[i] = p.pfd[c]
      /\ \A j \in Slots : j # i /\ j # c => q.links[j] = p.links[j]
      /\ \A j \in Slots : j # i => q.pfd[j] = p.pfd[j]
      /\ \A u \in Items : u # v => q.fd[u] = p.fd[u] /\ q.fresh[u] = p.fresh[u] /\ q.kind[u] = p.kind[u]
      /\ \A u \in Items : u # ev => q.index[u] = p.index[u]
  BY <1>0, <1>1, <1>2, Fields DEF Unlinked
<1>s. \A j \in Slots : j \in Int
  BY SizeNat DEF Slots
<1> HIDE DEF c, i, ev
<1>6. Arrays(q)
  <2>1. \A j, k \in Slots : q.links[j] = q.links[k] => j = k
    BY <1>0, <1>1, <1>3, <1>4, <1>5 DEF Arrays, ev
  <2>2. \A u \in Items : \E j \in Slots : q.links[j] = u
    <3> SUFFICES ASSUME NEW u \in Items PROVE \E j \in Slots : q.links[j] = u
      OBVIOUS
    <3>1. PICK j \in Slots : p.links[j] = u
      BY <1>3 DEF Arrays
    <3> QED BY <1>0, <1>1, <1>4, <1>5, <3>1 DEF ev
  <2>3. \A j \in Slots : q.fd[q.links[j]] # 0 <=> j < q.count
    <3> SUFFICES ASSUME NEW j \in Slots PROVE q.fd[q.links[j]] # 0 <=> j < q.count
      OBVIOUS
    <3>1. CASE j = c
      BY <1>1, <1>5, <3>1
    <3>2. CASE j = i /\ j # c
      BY <1>0, <1>1, <1>2, <1>4, <1>5, <3>2
    <3>3. CASE j # i /\ j # c
      <4>1. p.links[j] # v /\ p.links[j] \in Items
        BY <1>0, <1>2, <1>3, <3>3 DEF Arrays
      <4>2. j < p.count <=> j < c
        BY <1>0, <1>s, <3>3 DEF c
      <4> QED BY <1>3, <1>5, <3>3, <4>1, <4>2 DEF Arrays
    <3> QED BY <3>1, <3>2, <3>3
  <2>4. \A j \in Slots : j < q.count => q.index[q.links[j]] = j /\ q.pfd[j].fd = q.fd[q.links[j]]
    <3> SUFFICES ASSUME NEW j \in Slots, j < c
                 PROVE q.index[q.links[j]] = j /\ q.pfd[j].fd = q.fd[q.links[j]]
      BY <1>5
    <3>0. j # c /\ j < p.count
      <4>1. j \in Int
        BY <1>s
      <4> QED BY <1>0, <1>1, <4>1
    <3>1. CASE j = i
      BY <1>2, <1>4, <1>5, <3>0, <3>1
    <3>2. CASE j # i
      <4>1. p.links[j] # v /\ p.links[j] # ev /\ p.links[j] \in Items
        BY <1>0, <1>1, <1>2, <1>3, <3>0, <3>2 DEF Arrays, ev
      <4>2. p.index[p.links[j]] = j /\ p.pfd[j].fd = p.fd[p.links[j]]
        BY <1>3, <3>0 DEF Arrays
      <4> QED BY <1>5, <3>0, <3>2, <4>1, <4>2
    <3> QED BY <3>1, <3>2
  <2>5. \A u, w \in Items : q.fd[u] = q.fd[w] /\ q.fd[u] # 0 => u = w
    BY <1>3, <1>5 DEF Arrays
  <2>6. \A u \in Items : q.fd[u] <= q.opened
    BY <1>0, <1>3, <1>5, Fields DEF Arrays
  <2> QED BY <2>1, <2>2, <2>3, <2>4, <2>5, <2>6 DEF Arrays
<1>7. Watched(q)
  <2> SUFFICES ASSUME NEW u \in Items, q.fd[u] # 0, q.kind[u] = "connecting"
               PROVE q.pfd[q.index[u]].ev = "out"
    BY DEF Watched
  <2>1. u # v /\ p.fd[u] # 0 /\ p.kind[u] = "connecting" /\ p.pfd[p.index[u]].ev = "out"
    BY <1>3, <1>5 DEF Watched
  <2>2. p.index[u] \in Slots /\ p.index[u] # i
    BY <1>0, <2>1, LiveSlot
  <2> QED BY <1>4, <1>5, <2>1, <2>2
<1>8. /\ c \notin Reported(q)
      /\ i # c => (i \in Reported(q) <=> c \in Reported(p))
      /\ \A j \in Slots : j # i /\ j # c => (j \in Reported(q) <=> j \in Reported(p))
  <2>1. c \notin Reported(q)
    BY <1>5 DEF Reported
  <2>2. i # c => (i \in Reported(q) <=> c \in Reported(p))
    BY <1>0, <1>1, <1>2, <1>4, <1>5 DEF Reported, ev
  <2>3. ASSUME NEW j \in Slots, j # i, j # c PROVE j \in Reported(q) <=> j \in Reported(p)
    <3>1. p.links[j] # v /\ p.links[j] \in Items
      BY <1>0, <1>2, <1>3, <2>3 DEF Arrays
    <3> QED BY <1>5, <2>3, <3>1 DEF Reported
  <2> QED BY <2>1, <2>2, <2>3
<1>9. Reported(q) \subseteq Slots /\ Reported(p) \subseteq Slots
  BY DEF Reported
<1>10. Reports(q)
  <2>1. ASSUME NEW j \in Reported(q) PROVE j < q.count /\ q.pfd[j].fd \in q.owed
    <3>0. j \in Slots /\ j # c /\ j \in Int
      BY <1>8, <1>9, <1>s, <2>1
    <3>1. CASE j = i
      <4>1. c \in Reported(p) /\ p.pfd[c].fd \in p.owed /\ i < c
        BY <1>0, <1>1, <1>3, <1>8, <3>0, <3>1, <2>1 DEF Reports
      <4>2. p.fd[ev] # p.fd[v]
        BY <1>2, <1>3, <1>4, <3>0, <3>1 DEF Arrays
      <4> QED BY <1>4, <1>5, <3>1, <4>1, <4>2
    <3>2. CASE j # i
      <4>1. j \in Reported(p) /\ j < p.count /\ p.pfd[j].fd \in p.owed
        BY <1>3, <1>8, <3>0, <3>2, <2>1 DEF Reports
      <4>2. p.links[j] # v /\ p.links[j] \in Items /\ p.pfd[j].fd = p.fd[p.links[j]] /\ p.fd[p.links[j]] # 0
        BY <1>0, <1>2, <1>3, <3>0, <3>2, <4>1 DEF Arrays
      <4>3. p.fd[p.links[j]] # p.fd[v]
        BY <1>3, <4>2 DEF Arrays
      <4>4. j < c
        BY <1>0, <3>0, <4>1 DEF c
      <4> QED BY <1>5, <3>0, <3>2, <4>1, <4>2, <4>3, <4>4
    <3> QED BY <3>1, <3>2
  <2>2. ASSUME NEW x \in q.owed PROVE \E j \in Reported(q) : q.pfd[j].fd = x
    <3>1. x \in p.owed /\ x # p.fd[v]
      BY <1>5, <2>2
    <3>2. PICK j \in Reported(p) : p.pfd[j].fd = x
      BY <1>3, <3>1 DEF Reports
    <3>3. j # i
      BY <1>0, <3>1, <3>2
    <3>4. CASE j = c
      BY <1>5, <1>8, <3>2, <3>3, <3>4
    <3>5. CASE j # c
      BY <1>5, <1>8, <1>9, <3>2, <3>3, <3>5
    <3> QED BY <3>4, <3>5
  <2> QED BY <2>1, <2>2 DEF Reports
<1>11. ASSUME NEW o \in Int, Below(p, o) PROVE Below(q, o)
  <2> SUFFICES ASSUME NEW j \in Reported(q) PROVE j <= o
    BY DEF Below
  <2>0. j \in Slots /\ j # c /\ j \in Int
    BY <1>8, <1>9, <1>s
  <2>1. CASE j = i
    <3>1. c \in Reported(p)
      BY <1>8, <2>0, <2>1
    <3>2. c <= o
      BY <1>11, <3>1 DEF Below
    <3> QED BY <1>0, <1>1, <2>1, <3>2
  <2>2. CASE j # i
    BY <1>8, <1>11, <2>0, <2>2 DEF Below
  <2> QED BY <2>1, <2>2
<1> QED BY <1>6, <1>7, <1>10, <1>11

\* Unlink closes one open connection and leaves the pool in order.
LEMMA UnlinkBody ==
  ASSUME NEW p, Body(p), NEW v \in Items, p.fd[v] # 0
  PROVE LET q == Unlink(p, v)
        IN  /\ Body(q) /\ Unlinked(p, q, v) /\ q.pair = p.pair
            /\ \A o \in Int : Below(p, o) => Below(q, o)
<1> DEFINE q == Unlink(p, v) m == RemoveTimer(p, v)
<1>1. p \in PoolType /\ p.count - 1 \in Slots /\ p.count - 1 \in 0 .. Size
  <2>1. p \in PoolType /\ p.index[v] \in Slots /\ p.index[v] < p.count /\ p.count \in 0 .. Size
    BY LiveSlot, Fields DEF Body
  <2> QED BY <2>1, SizeNat DEF Slots
<1>2. q \in PoolType /\ Unlinked(p, q, v) /\ SameTimers(m, q) /\ q.pair = p.pair
  BY <1>1, UnlinkFields
<1>3. /\ Body(m) /\ SameGroups(p, m) /\ Armed(m) = Armed(p) \ {v}
  BY RemoveTimerBody
<1> HIDE DEF q, m
<1>4. Arrays(q) /\ Watched(q) /\ Reports(q) /\ \A o \in Int : Below(p, o) => Below(q, o)
  BY <1>2, UnlinkedArrays
<1>5. Linked(q) /\ Armed(q) = Armed(m)
  BY <1>2, <1>3, LinkedSame DEF Body
<1>6. Timers(q)
  <2>1. \A u \in Items : u # v => q.fd[u] = p.fd[u] /\ q.kind[u] = p.kind[u] /\ q.conn[u] = p.conn[u]
    BY <1>1, <1>2, Fields DEF Unlinked
  <2> QED BY <1>3, <1>5, <2>1 DEF Timers, Body, Armed
<1> QED BY <1>2, <1>4, <1>5, <1>6 DEF Body, q
\* v may be closed next: it is part of a whole group, or what is left of a
\* group is v and at most the connection that its pair leads to.
Tail(p, v) == Alive(p, p.pair[v]) => p.pair[v] # v /\ ~ Alive(p, p.pair[p.pair[v]])

\* Outside of v's group all is in order.
Ready(p, v) ==
    /\ Body(p) /\ v \in Refs
    /\ ~ Alive(p, v) => Groups(p, {})
    /\ Alive(p, v) => Groups(p, {}) \/ (Groups(p, {v, p.pair[v]}) /\ Tail(p, v))

\* q is p with v closed and its pair cleared on both sides.
Shut(p, q, v) ==
    /\ q.fd[v] = 0 /\ q.pair[v] = NULL
    /\ \A u \in Items \ {v} :
          /\ q.fd[u] = p.fd[u] /\ q.kind[u] = p.kind[u] /\ q.conn[u] = p.conn[u]
          /\ q.pair[u] = IF u = p.pair[v] /\ p.pair[u] = v THEN NULL ELSE p.pair[u]

\* Closing v leaves every connection whole that is not of its group, and the
\* rest of the group ready to be closed.
LEMMA ShutGroups ==
  ASSUME NEW p \in PoolType, NEW q \in PoolType, NEW v \in Items, p.fd[v] # 0, Shut(p, q, v),
         Groups(p, {}) \/ (Groups(p, {v, p.pair[v]}) /\ Tail(p, v))
  PROVE LET e == p.pair[v]
        IN  /\ ~ Alive(q, e) => Groups(q, {})
            /\ Alive(q, e) => Groups(q, {e, q.pair[e]}) /\ Tail(q, e)
<1> DEFINE e == p.pair[v]
<1>0. /\ NULL \notin Items /\ p.pair \in [Items -> Refs] /\ q.pair \in [Items -> Refs]
      /\ \A x \in Refs : x # NULL => x \in Items
      /\ p.conn \in [Items -> BOOLEAN]
  BY Sizes, Fields
<1>1. /\ q.fd[v] = 0 /\ q.pair[v] = NULL
      /\ \A u \in Items : u # v =>
            /\ q.fd[u] = p.fd[u] /\ q.kind[u] = p.kind[u] /\ q.conn[u] = p.conn[u]
            /\ q.pair[u] = IF u = e /\ p.pair[u] = v THEN NULL ELSE p.pair[u]
  BY DEF Shut
<1>2. e \in Refs
  BY <1>0
<1> HIDE DEF e
<1>3. ASSUME NEW u \in Items, u # v, u # e, p.fd[u] # 0, Whole(p, u)
      PROVE Whole(q, u) \/ (p.pair[u] = v /\ Alive(p, e) /\ p.pair[e] = u)
  <2> DEFINE f == p.pair[u] w == p.pair[f]
  <2>0. q.pair[u] = f /\ q.kind[u] = p.kind[u] /\ q.conn[u] = p.conn[u] /\ f \in Refs
    BY <1>0, <1>1, <1>3
  <2>1. CASE p.kind[u] \in {"accept", "request"}
    BY <1>3, <2>0, <2>1 DEF Whole, Tied
  <2>2. CASE Alive(p, f) /\ p.pair[f] = u
    <3>1. f \in Items /\ f # v
      BY <1>0, <1>3, <2>0, <2>2 DEF Alive, e
    <3>2. Alive(q, f) /\ q.pair[f] = u /\ q.kind[f] = p.kind[f] /\ q.conn[f] = p.conn[f]
      BY <1>1, <1>3, <2>2, <3>1 DEF Alive
    <3>3. ~ Ring(p, u)
      BY <2>2 DEF Ring
    <3> QED BY <1>3, <2>0, <2>2, <3>2, <3>3 DEF Whole, Tied
  <2>3. CASE Ring(p, u)
    <3>1. /\ Alive(p, f) /\ Alive(p, w) /\ p.pair[w] = u /\ f # u /\ w # u /\ w # f
      BY <2>3 DEF Ring
    <3>2. f \in Items /\ w \in Items
      BY <1>0, <2>0, <3>1 DEF Alive
    <3>3. w # v
      BY <1>3, <3>1 DEF e
    <3>4. CASE f = v
      BY <3>1, <3>4 DEF e
    <3>5. CASE f # v
      <4>1. /\ Alive(q, f) /\ Alive(q, w) /\ q.pair[f] = w /\ q.pair[w] = u
        BY <1>1, <1>3, <3>1, <3>2, <3>3, <3>5 DEF Alive
      <4>2. Ring(q, u)
        BY <2>0, <3>1, <4>1 DEF Ring
      <4>3. ~ (p.kind[f] = "connecting" /\ p.pair[f] = u)
        BY <3>1
      <4>4. ~ p.kind[u] \in {"connecting", "tunnel", "accept", "request"}
        BY <1>0, <1>3, <3>1, <3>2 DEF Whole, Tied, Alive
      <4> QED BY <1>3, <2>0, <4>1, <4>2, <4>4 DEF Whole, Tied
    <3> QED BY <3>4, <3>5
  <2>4. /\ p.kind[u] # "none"
        /\ p.kind[u] \in {"connecting", "tunnel"} => Alive(p, f) /\ p.pair[f] = u
        /\ p.kind[u] = "udp" => Ring(p, u)
        /\ p.kind[u] = "waiting" => (Alive(p, f) /\ p.pair[f] = u) \/ Ring(p, u)
    BY <1>3 DEF Whole, Tied
  <2>5. p.kind[u] \in Kinds
    BY Fields
  <2> QED BY <2>1, <2>2, <2>3, <2>4, <2>5 DEF Kinds
<1>4. \A u \in Items : q.fd[u] # 0 => u # v /\ p.fd[u] # 0
  BY <1>1
<1>5. CASE Groups(p, {v, e}) /\ Tail(p, v)
  <2>1. Groups(q, {e})
    <3> SUFFICES ASSUME NEW u \in Items, u # e, q.fd[u] # 0 PROVE Whole(q, u)
      BY DEF Groups
    <3>1. u # v /\ p.fd[u] # 0 /\ Whole(p, u)
      BY <1>4, <1>5 DEF Groups
    <3>2. Alive(p, u)
      BY <1>0, <3>1 DEF Alive
    <3> QED BY <1>3, <1>5, <3>1, <3>2 DEF Tail, e
  <2>2. ~ Alive(q, e) => Groups(q, {})
    BY <1>0, <2>1 DEF Groups, Alive
  <2>3. ASSUME Alive(q, e) PROVE Groups(q, {e, q.pair[e]}) /\ Tail(q, e)
    <3>1. e \in Items /\ e # v /\ Alive(p, e)
      BY <1>0, <1>1, <1>2, <2>3 DEF Alive
    <3>2. ~ Alive(p, p.pair[e])
      BY <1>5, <3>1 DEF Tail, e
    <3>3. q.pair[e] = NULL \/ (q.pair[e] = p.pair[e] /\ p.pair[e] \in Refs)
      BY <1>0, <1>1, <3>1
    <3>4. ~ Alive(q, q.pair[e])
      BY <1>0, <1>4, <3>2, <3>3 DEF Alive
    <3> QED BY <2>1, <3>4 DEF Groups, Tail
  <2> QED BY <2>2, <2>3 DEF e
<1>6. CASE Groups(p, {})
  <2>0. Whole(p, v)
    BY <1>6 DEF Groups
  <2>1. \A u \in Items : u # e /\ q.fd[u] # 0 => Whole(q, u) \/ (Alive(p, e) /\ p.pair[e] = u)
    BY <1>3, <1>4, <1>6 DEF Groups
  <2>2. CASE e = NULL
    BY <1>0, <2>1, <2>2 DEF Groups, Alive, e
  <2>3. CASE Alive(p, e) /\ p.pair[e] = v /\ e # v
    <3>1. q.pair[e] = NULL /\ Alive(q, e)
      BY <1>1, <1>2, <1>0, <2>3 DEF Alive
    <3>2. Groups(q, {e})
      BY <1>4, <2>1, <2>3 DEF Groups
    <3>3. Tail(q, e)
      BY <3>1 DEF Tail, Alive
    <3> QED BY <3>1, <3>2, <3>3 DEF Groups, e
  <2>4. CASE Ring(p, v)
    <3> DEFINE w == p.pair[e]
    <3>1. Alive(p, e) /\ Alive(p, w) /\ p.pair[w] = v /\ e # v /\ w # v /\ w # e
      BY <2>4 DEF Ring, e
    <3>2. e \in Items /\ w \in Items
      BY <1>0, <1>2, <3>1 DEF Alive
    <3>3. q.pair[e] = w /\ q.pair[w] = v /\ Alive(q, e)
      BY <1>1, <3>1, <3>2 DEF Alive
    <3>4. Groups(q, {e, w})
      BY <2>1 DEF Groups
    <3>5. Tail(q, e)
      BY <1>1, <3>1, <3>3 DEF Tail, Alive
    <3> QED BY <3>3, <3>4, <3>5 DEF e
  <2>5. e = NULL \/ (Alive(p, e) /\ p.pair[e] = v /\ e # v) \/ Ring(p, v)
    <3>1. p.kind[v] \in Kinds
      BY Fields
    <3>2. e # NULL => e \in Items
      BY <1>0, <1>2
    <3> QED BY <1>0, <2>0, <3>1, <3>2 DEF Whole, Tied, Kinds, e
  <2> QED BY <2>2, <2>3, <2>4, <2>5
<1> QED BY <1>5, <1>6 DEF e
\* pair is no concern of Body but for its type.
LEMMA PairBody ==
  ASSUME NEW p, Body(p), NEW f \in [Items -> Refs]
  PROVE LET q == [p EXCEPT !.pair = f]
        IN  /\ Body(q) /\ q.fd = p.fd /\ q.kind = p.kind /\ q.conn = p.conn /\ q.pair = f
            /\ SameArrays(p, q) /\ SameTimers(p, q) /\ q.pfd = p.pfd /\ q.keeps = p.keeps
<1> DEFINE q == [p EXCEPT !.pair = f]
<1>0. p \in PoolType
  BY DEF Body
<1>1. q \in PoolType
  BY <1>0, Zenon DEF PoolType
<1>2. /\ q.fd = p.fd /\ q.kind = p.kind /\ q.conn = p.conn /\ q.pair = f
      /\ SameArrays(p, q) /\ SameTimers(p, q) /\ q.pfd = p.pfd /\ q.keeps = p.keeps
  BY <1>0 DEF PoolType, SameArrays, SameTimers
<1> HIDE DEF q
<1>3. Arrays(q) /\ Reports(q)
  BY <1>2, ArraysSame DEF Body
<1>4. Linked(q) /\ Armed(q) = Armed(p)
  BY <1>2, LinkedSame DEF Body
<1>5. Watched(p) /\ Timers(p) /\ q.index = p.index
  BY <1>2 DEF Body, SameArrays
<1>6. Watched(q) /\ Timers(q)
  BY <1>2, <1>4, <1>5 DEF Watched, Timers
<1> QED BY <1>1, <1>2, <1>3, <1>4, <1>6 DEF Body, q

\* Below depends on three fields.
LEMMA BelowSame ==
  ASSUME NEW p, NEW q, q.pfd = p.pfd, q.fresh = p.fresh, q.links = p.links
  PROVE \A o \in Int : Below(p, o) => Below(q, o)
BY DEF Below, Reported

\* What Unlink leaves in the fields of the connections.
LEMMA UnlinkedItems ==
  ASSUME NEW p \in PoolType, NEW q, NEW v \in Items, Unlinked(p, q, v)
  PROVE /\ q.fd[v] = 0
        /\ \A u \in Items \ {v} : q.fd[u] = p.fd[u] /\ q.kind[u] = p.kind[u] /\ q.conn[u] = p.conn[u]
<1>1. p.fd \in [Items -> Nat] /\ p.kind \in [Items -> Kinds] /\ p.conn \in [Items -> BOOLEAN]
  BY Fields
<1>2. /\ q.fd = [p.fd EXCEPT ![v] = 0] /\ q.kind = [p.kind EXCEPT ![v] = "none"]
      /\ q.conn = [p.conn EXCEPT ![v] = FALSE]
  BY DEF Unlinked
<1> QED BY <1>1, <1>2

\* One call of del_event, up to its recursion.
LEMMA DelOneReady ==
  ASSUME NEW p, NEW v, Ready(p, v), Alive(p, v)
  PROVE LET d == DelOne([pool |-> p, val |-> v])
        IN  /\ d = [pool |-> d.pool, val |-> d.val] /\ Ready(d.pool, d.val)
            /\ d.pool.count = p.count - 1
            /\ \A o \in Int : Below(p, o) => Below(d.pool, o)
<1> DEFINE e == p.pair[v] m == Unlink(p, v)
           f == IF e = NULL THEN m.pair
                ELSE IF p.pair[e] = v THEN [p.pair EXCEPT ![e] = NULL, ![v] = NULL]
                ELSE [p.pair EXCEPT ![v] = NULL]
           q == IF e = NULL THEN m ELSE [m EXCEPT !.pair = f]
<1>0. /\ p \in PoolType /\ Body(p) /\ v \in Items /\ p.fd[v] # 0 /\ e \in Refs /\ NULL \in Refs
      /\ p.pair \in [Items -> Refs] /\ NULL \notin Items /\ (e # NULL => e \in Items)
  BY Sizes, Fields DEF Ready, Body, Alive
<1>1. /\ Body(m) /\ Unlinked(p, m, v) /\ m.pair = p.pair
      /\ \A o \in Int : Below(p, o) => Below(m, o)
  BY <1>0, UnlinkBody
<1>2. f \in [Items -> Refs]
  BY <1>0, <1>1
<1>3. DelOne([pool |-> p, val |-> v]) = [pool |-> q, val |-> e]
  BY <1>0 DEF DelOne, Alive
<1> HIDE DEF m
<1>4. /\ Body(q) /\ q.fd = m.fd /\ q.kind = m.kind /\ q.conn = m.conn /\ q.pair = f
      /\ q.count = m.count /\ q.pfd = m.pfd /\ q.fresh = m.fresh /\ q.links = m.links
  <2>1. CASE e = NULL
    BY <1>1, <2>1
  <2>2. CASE e # NULL
    <3> HIDE DEF f
    <3> QED BY <1>1, <1>2, <2>2, PairBody DEF SameArrays
  <2> QED BY <2>1, <2>2
<1> HIDE DEF q
<1>5. \A o \in Int : Below(p, o) => Below(q, o)
  <2>1. \A o \in Int : Below(m, o) => Below(q, o)
    BY <1>4, BelowSame
  <2> QED BY <1>1, <2>1
<1>6. q \in PoolType /\ Shut(p, q, v)
  <2>1. /\ f[v] = NULL
        /\ \A u \in Items \ {v} : f[u] = IF u = e /\ p.pair[u] = v THEN NULL ELSE p.pair[u]
    BY <1>0, <1>1
  <2>2. /\ m.fd[v] = 0
        /\ \A u \in Items \ {v} : m.fd[u] = p.fd[u] /\ m.kind[u] = p.kind[u] /\ m.conn[u] = p.conn[u]
    <3> HIDE DEF f, e
    <3> QED BY <1>0, <1>1, UnlinkedItems
  <2> HIDE DEF f
  <2> QED BY <1>4, <2>1, <2>2 DEF Shut, Body
<1>7. /\ ~ Alive(q, e) => Groups(q, {})
      /\ Alive(q, e) => Groups(q, {e, q.pair[e]}) /\ Tail(q, e)
  BY <1>0, <1>6, ShutGroups DEF Ready
<1>8. Ready(q, e)
  BY <1>0, <1>4, <1>7 DEF Ready
<1>9. q.count = p.count - 1
  BY <1>1, <1>4 DEF Unlinked
<1> HIDE DEF e
<1> QED BY <1>3, <1>5, <1>8, <1>9

\* f is the run of del_event's recursion.
DelRun(f, p, v, n) ==
    /\ f[0] = [pool |-> p, val |-> v]
    /\ \A k \in 0 .. n - 1 : f[k + 1] = DelOne(f[k])

\* The recursive function in DelEvent exists, and has the values it states.
LEMMA DelEventRuns ==
  ASSUME NEW p, NEW v
  PROVE \E f : DelRun(f, p, v, Size) /\ DelEvent(p, v) = f[Size].pool
<1> DEFINE d0 == [pool |-> p, val |-> v]
           Is(f, n) == f = [k \in 0 .. n |-> IF k = 0 THEN d0 ELSE DelOne(f[k - 1])]
           K == {n \in Nat : \E f : Is(f, n)}
<1>0. Size \in Nat
  BY SizeNat
<1>1. 0 \in K
  <2> DEFINE g == [k \in 0 .. 0 |-> d0]
  <2>1. \A k \in 0 .. 0 : k = 0
    OBVIOUS
  <2> HIDE DEF d0
  <2>2. g = [k \in 0 .. 0 |-> IF k = 0 THEN d0 ELSE DelOne(g[k - 1])]
    BY <2>1
  <2> QED BY <2>2, Zenon
<1>2. ASSUME NEW n \in Nat, n \in K PROVE n + 1 \in K
  <2>1. PICK f : Is(f, n)
    BY <1>2
  <2> DEFINE g == [k \in 0 .. n + 1 |-> IF k = n + 1 THEN DelOne(f[n]) ELSE f[k]]
  <2> HIDE DEF d0
  <2>2. ASSUME NEW k \in 0 .. n + 1 PROVE g[k] = IF k = 0 THEN d0 ELSE DelOne(g[k - 1])
    <3>1. CASE k = n + 1
      <4>1. g[k] = DelOne(f[n]) /\ g[n] = f[n] /\ k - 1 = n /\ k # 0
        BY <3>1
      <4> HIDE DEF g
      <4> QED BY <4>1
    <3>2. CASE k # n + 1
      <4>1. k \in 0 .. n /\ (k # 0 => k - 1 \in 0 .. n /\ k - 1 \in 0 .. n + 1 /\ k - 1 # n + 1)
        BY <3>2
      <4>2. g[k] = f[k] /\ (k # 0 => g[k - 1] = f[k - 1])
        BY <3>2, <4>1
      <4>3. f[k] = IF k = 0 THEN d0 ELSE DelOne(f[k - 1])
        BY <2>1, <4>1
      <4> HIDE DEF g
      <4> QED BY <4>2, <4>3
    <3> QED BY <3>1, <3>2
  <2>3. Is(g, n + 1)
    <3>1. g = [k \in 0 .. n + 1 |-> g[k]]
      OBVIOUS
    <3> HIDE DEF g
    <3> QED BY <2>2, <3>1, Zenon
  <2> HIDE DEF g, Is
  <2> QED BY <2>3
<1>3. Size \in K
  <2> HIDE DEF K
  <2> QED BY <1>0, <1>1, <1>2, SetInduction
<1> DEFINE del == CHOOSE f : f = [k \in 0 .. Size |-> IF k = 0 THEN d0 ELSE DelOne(f[k - 1])]
<1>4. del = [k \in 0 .. Size |-> IF k = 0 THEN d0 ELSE DelOne(del[k - 1])]
  BY <1>3
<1>5. DelEvent(p, v) = del[Size].pool
  BY DEF DelEvent
<1> HIDE DEF del
<1>6. DelRun(del, p, v, Size)
  <2>1. del[0] = d0
    BY <1>0, <1>4
  <2>2. ASSUME NEW k \in 0 .. Size - 1 PROVE del[k + 1] = DelOne(del[k])
    <3>1. k + 1 \in 0 .. Size /\ k + 1 # 0 /\ (k + 1) - 1 = k
      BY <1>0
    <3> QED BY <1>4, <3>1, Zenon
  <2> QED BY <2>1, <2>2 DEF DelRun
<1> QED BY <1>5, <1>6

\* del_event closes v and all that pair leads to, within Size calls.
LEMMA DelEventSound ==
  ASSUME NEW p, NEW v, Ready(p, v)
  PROVE LET q == DelEvent(p, v)
        IN  /\ Sound(q, {}) /\ (Alive(p, v) => q.count < p.count)
            /\ \A o \in Int : Below(p, o) => Below(q, o)
<1>0. Size \in Nat
  BY SizeNat
<1>f. PICK f : DelRun(f, p, v, Size) /\ DelEvent(p, v) = f[Size].pool
  BY DelEventRuns
<1> DEFINE Step(d, k) ==
              /\ d = [pool |-> d.pool, val |-> d.val] /\ Ready(d.pool, d.val)
              /\ Alive(d.pool, d.val) => d.pool.count = p.count - k
              /\ k # 0 /\ Alive(p, v) => d.pool.count < p.count
              /\ k = 0 => d = [pool |-> p, val |-> v]
              /\ \A o \in Int : Below(p, o) => Below(d.pool, o)
           K == {k \in Nat : k <= Size => Step(f[k], k)}
<1>1. 0 \in K
  <2>1. f[0] = [pool |-> p, val |-> v]
    BY <1>f DEF DelRun
  <2>2. p.count \in Int
    BY SizeNat, Fields DEF Ready, Body
  <2>3. Step([pool |-> p, val |-> v], 0)
    BY <2>2
  <2> HIDE DEF Step
  <2> QED BY <2>1, <2>3
<1>2. ASSUME NEW k \in Nat, k \in K PROVE k + 1 \in K
  <2> HIDE DEF Step
  <2> SUFFICES ASSUME k + 1 <= Size PROVE Step(f[k + 1], k + 1)
    OBVIOUS
  <2> DEFINE d == f[k] x == f[k + 1]
  <2>1. Step(d, k) /\ x = DelOne(d)
    BY <1>0, <1>2, <1>f DEF DelRun
  <2> HIDE DEF d, x, K
  <2> USE DEF Step
  <2>2. d.pool.count \in Int /\ p.count \in Int
    BY <2>1, SizeNat, Fields DEF Ready, Body
  <2>3. CASE ~ Alive(d.pool, d.val)
    <3>1. x = d
      BY <2>1, <2>3 DEF DelOne
    <3>2. Alive(p, v) => k # 0
      BY <2>1, <2>3
    <3>3. Alive(p, v) => x.pool.count < p.count
      BY <2>1, <3>1, <3>2
    <3>4. k + 1 # 0 /\ ~ Alive(x.pool, x.val) /\ Ready(x.pool, x.val)
      BY <2>1, <2>3, <3>1
    <3>5. x = [pool |-> x.pool, val |-> x.val]
      BY <2>1, <3>1
    <3> QED BY <2>1, <3>1, <3>3, <3>4, <3>5 DEF x
  <2>4. CASE Alive(d.pool, d.val)
    <3>1. /\ x = [pool |-> x.pool, val |-> x.val] /\ Ready(x.pool, x.val)
          /\ x.pool.count = d.pool.count - 1
          /\ \A o \in Int : Below(d.pool, o) => Below(x.pool, o)
      <4> DEFINE y == DelOne([pool |-> d.pool, val |-> d.val])
      <4>1. /\ y = [pool |-> y.pool, val |-> y.val] /\ Ready(y.pool, y.val)
            /\ y.pool.count = d.pool.count - 1
            /\ \A o \in Int : Below(d.pool, o) => Below(y.pool, o)
        BY <2>1, <2>4, DelOneReady
      <4>2. x = y
        BY <2>1
      <4> HIDE DEF y
      <4> QED BY <4>1, <4>2
    <3>2. d.pool.count = p.count - k
      BY <2>1, <2>4
    <3>3. x.pool.count = p.count - (k + 1) /\ x.pool.count < p.count
      BY <2>2, <3>1, <3>2
    <3>4. \A o \in Int : Below(p, o) => Below(x.pool, o)
      BY <2>1, <3>1
    <3>5. k + 1 # 0
      OBVIOUS
    <3> QED BY <3>1, <3>3, <3>4, <3>5 DEF x
  <2> QED BY <2>3, <2>4
<1>3. Size \in K
  <2> HIDE DEF K
  <2> QED BY <1>0, <1>1, <1>2, SetInduction
<1> DEFINE d == f[Size]
<1>4. Step(d, Size)
  BY <1>0, <1>3
<1> HIDE DEF d
<1>5. ~ Alive(d.pool, d.val)
  <2> SUFFICES ASSUME Alive(d.pool, d.val) PROVE FALSE
    OBVIOUS
  <2>1. Body(d.pool) /\ d.val \in Items /\ d.pool.fd[d.val] # 0 /\ d.pool \in PoolType /\ p \in PoolType
    BY <1>4, Sizes DEF Ready, Alive, Body
  <2>2. d.pool.index[d.val] \in Slots /\ d.pool.index[d.val] < d.pool.count
    BY <2>1, LiveSlot
  <2>3. d.pool.count = p.count - Size /\ p.count \in 0 .. Size
    BY <1>4, <2>1, Fields
  <2> QED BY <1>0, <2>2, <2>3 DEF Slots
<1>6. Size # 0
  BY SizeNat
<1>7. Sound(d.pool, {}) /\ (Alive(p, v) => d.pool.count < p.count)
      /\ \A o \in Int : Below(p, o) => Below(d.pool, o)
  BY <1>4, <1>5, <1>6 DEF Ready, Sound
<1> QED BY <1>f, <1>7 DEF d

\* A connection without a pair is closed alone.
LEMMA DelSingle ==
  ASSUME NEW p, NEW v, Alive(p, v), p.pair[v] = NULL
  PROVE DelEvent(p, v) = Unlink(p, v)
<1>0. Size \in Nat /\ Size > 0
  BY SizeNat
<1>f. PICK f : DelRun(f, p, v, Size) /\ DelEvent(p, v) = f[Size].pool
  BY DelEventRuns
<1> DEFINE x == [pool |-> Unlink(p, v), val |-> NULL]
           K == {k \in Nat : k + 1 <= Size => f[k + 1] = x}
<1>1. 0 \in K
  <2>1. f[0 + 1] = DelOne([pool |-> p, val |-> v])
    BY <1>0, <1>f DEF DelRun
  <2> QED BY <2>1 DEF DelOne
<1>2. ASSUME NEW k \in Nat, k \in K PROVE k + 1 \in K
  <2> SUFFICES ASSUME k + 1 + 1 <= Size PROVE f[k + 1 + 1] = x
    OBVIOUS
  <2>1. f[k + 1] = x /\ f[k + 1 + 1] = DelOne(f[k + 1])
    BY <1>0, <1>2, <1>f DEF DelRun
  <2>2. DelOne(x) = x
    BY DEF DelOne, Alive
  <2> QED BY <2>1, <2>2
<1>3. Size - 1 \in K
  <2> HIDE DEF K
  <2> QED BY <1>0, <1>1, <1>2, SetInduction
<1>4. f[Size] = x
  <2>1. Size - 1 \in Nat /\ (Size - 1) + 1 = Size
    BY <1>0
  <2> HIDE DEF x
  <2> QED BY <1>3, <2>1
<1> QED BY <1>f, <1>4
=============================================================================
