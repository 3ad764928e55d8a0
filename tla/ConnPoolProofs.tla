--------------------------- MODULE ConnPoolProofs ---------------------------
(***************************************************************************)
(* Every callback that loop_event runs keeps ConnPool's invariant (Good),  *)
(* whatever it opens, closes or replaces; so does the scan of the reports. *)
(* The properties of ConnPool follow.                                      *)
(***************************************************************************)
EXTENDS ConnPoolOps

-----------------------------------------------------------------------------
(* Building blocks of the callbacks.                                       *)

\* q has the open connection n, of kind k and tied to none, besides those of p.
Joined(p, q, n, k) ==
    /\ n \in Items /\ p.fd[n] = 0 /\ q.fd[n] # 0
    /\ q.kind[n] = k /\ q.conn[n] = FALSE /\ q.pair[n] = NULL
    /\ \A u \in Items \ {n} :
          q.fd[u] = p.fd[u] /\ q.kind[u] = p.kind[u] /\ q.conn[u] = p.conn[u] /\ q.pair[u] = p.pair[u]

\* add_event on a pool with room.
LEMMA AddEventSound ==
  ASSUME NEW p, Body(p), ~ Full(p), NEW k \in Kinds, NEW e \in Masks, k = "connecting" => e = "out"
  PROVE LET q == AddEvent(p, k, e)
        IN  /\ Body(q) /\ Joined(p, q, Newest(q), k) /\ q.count = p.count + 1
            /\ \A o \in Int : Below(p, o) => Below(q, o)
<1> DEFINE q == AddEvent(p, k, e) n == p.links[p.count]
<1>0. p \in PoolType
  BY DEF Body
<1>1. Added(p, q, n, k, e)
  BY <1>0, AddEventAdds
<1> HIDE DEF q
<1>2. Body(q)
  BY <1>1, AddedBody
<1>3. n \in Items /\ p.count \in Slots /\ p.fd[n] = 0
  <2>1. n \in Items /\ p.count \in Slots
    BY <1>0, FreeSlot
  <2>2. p.count \in Int
    BY <1>0, Fields, SizeNat
  <2> QED BY <2>1, <2>2 DEF Body, Arrays
<1>4. p.opened + 1 # 0
  BY <1>0, Fields
<1>5. Joined(p, q, n, k)
  <2>1. /\ p.fd \in [Items -> Nat] /\ p.kind \in [Items -> Kinds] /\ p.conn \in [Items -> BOOLEAN]
        /\ p.pair \in [Items -> Refs]
    BY <1>0, Fields
  <2>2. /\ q.fd = [p.fd EXCEPT ![n] = p.opened + 1] /\ q.kind = [p.kind EXCEPT ![n] = k]
        /\ q.conn = [p.conn EXCEPT ![n] = FALSE] /\ q.pair = [p.pair EXCEPT ![n] = NULL]
    BY <1>1 DEF Added
  <2> HIDE DEF n
  <2>3. /\ q.fd[n] = p.opened + 1 /\ q.kind[n] = k /\ q.conn[n] = FALSE /\ q.pair[n] = NULL
        /\ \A u \in Items : u # n => /\ q.fd[u] = p.fd[u] /\ q.kind[u] = p.kind[u]
                                     /\ q.conn[u] = p.conn[u] /\ q.pair[u] = p.pair[u]
    BY <1>3, <2>1, <2>2
  <2> QED BY <1>3, <1>4, <2>3 DEF Joined
<1>6. Reported(q) \subseteq Reported(p)
  <2> SUFFICES ASSUME NEW i \in Reported(q) PROVE i \in Reported(p)
    OBVIOUS
  <2>0. /\ p.pfd \in [Slots -> Record] /\ p.fresh \in [Items -> BOOLEAN] /\ p.links \in [Slots -> Items]
        /\ i \in Slots /\ q.pfd[i].rev /\ ~ q.fresh[q.links[i]]
    BY <1>0, Fields DEF Reported
  <2>1. i # p.count
    BY <1>1, <1>3, <2>0 DEF Added
  <2>2. p.links[i] # n
    BY <1>3, <2>0, <2>1 DEF Body, Arrays
  <2>3. q.pfd[i] = p.pfd[i] /\ q.links[i] = p.links[i] /\ q.fresh[p.links[i]] = p.fresh[p.links[i]]
    BY <1>1, <1>3, <2>0, <2>1, <2>2 DEF Added
  <2> QED BY <2>0, <2>3 DEF Reported
<1>7. Newest(q) = n /\ q.count = p.count + 1
  BY <1>1 DEF Added
<1> QED BY <1>2, <1>5, <1>6, <1>7 DEF Below, q

\* The others do not notice a connection that joins.
LEMMA JoinedGroups ==
  ASSUME NEW p \in PoolType, NEW q \in PoolType, NEW n, NEW k, NEW X, Joined(p, q, n, k), Groups(p, X)
  PROVE Groups(q, X \cup {n}) /\ (k \in {"accept", "request"} => Groups(q, X))
<1>0. /\ NULL \notin Items /\ p.pair \in [Items -> Refs] /\ \A x \in Refs : x # NULL => x \in Items
  BY Sizes, Fields
<1>1. ASSUME NEW u \in Items, u # n, p.fd[u] # 0, Whole(p, u) PROVE Whole(q, u)
  <2> DEFINE f == p.pair[u] w == p.pair[f]
  <2>0. /\ q.kind[u] = p.kind[u] /\ q.conn[u] = p.conn[u] /\ q.pair[u] = f /\ f \in Refs
    BY <1>0, <1>1 DEF Joined
  <2>1. Alive(p, f) => /\ Alive(q, f) /\ q.kind[f] = p.kind[f] /\ q.conn[f] = p.conn[f]
                       /\ q.pair[f] = w /\ w \in Refs
    BY <1>0, <2>0 DEF Alive, Joined
  <2>2. Alive(p, f) /\ Alive(p, w) => Alive(q, w) /\ q.pair[w] = p.pair[w]
    BY <1>0, <2>1 DEF Alive, Joined
  <2>3. Ring(p, u) => Ring(q, u)
    BY <2>0, <2>1, <2>2 DEF Ring
  <2> HIDE DEF f, w
  <2>4. Whole(p, u) <=> Tied(p, u, f, w)
    BY DEF Whole, f, w
  <2>5. w = p.pair[f]
    BY DEF w
  <2> QED BY <1>1, <2>0, <2>1, <2>3, <2>4, <2>5 DEF Whole, Tied
<1>2. Groups(q, X \cup {n})
  BY <1>1 DEF Groups, Joined
<1>3. k \in {"accept", "request"} => Whole(q, n)
  BY DEF Whole, Tied, Joined
<1> QED BY <1>1, <1>2, <1>3 DEF Groups, Joined

\* Changes of kind, conn and pair that keep timers and masks right.
LEMMA TieBody ==
  ASSUME NEW p, Body(p), NEW q \in PoolType, q.fd = p.fd, q.pfd = p.pfd, SameArrays(p, q),
         SameTimers(p, q), Watched(q), Timers(q)
  PROVE Body(q) /\ \A o \in Int : Below(p, o) => Below(q, o)
<1>1. Arrays(q) /\ Reports(q)
  BY ArraysSame DEF Body
<1>2. Linked(q)
  BY LinkedSame DEF Body
<1>3. \A o \in Int : Below(p, o) => Below(q, o)
  BY BelowSame DEF SameArrays
<1> QED BY <1>1, <1>2, <1>3 DEF Body
\* q is p with a remote n for client c.
Grown(p, q, c, n) ==
    /\ n \in Items /\ n # c /\ p.fd[n] = 0 /\ q.fd[n] # 0
    /\ q.kind[n] = "connecting" /\ q.conn[n] = TRUE /\ q.pair[n] = c
    /\ q.fd[c] = p.fd[c] /\ q.kind[c] = "waiting" /\ q.conn[c] = p.conn[c] /\ q.pair[c] = n
    /\ \A u \in Items \ {n, c} :
          q.fd[u] = p.fd[u] /\ q.kind[u] = p.kind[u] /\ q.conn[u] = p.conn[u] /\ q.pair[u] = p.pair[u]

\* create_conn for an open client that is not itself a remote.
LEMMA CreateConnBody ==
  ASSUME NEW p, Body(p), ~ Full(p), NEW c \in Items, p.fd[c] # 0, ~ p.conn[c], p.kind[c] # "connecting"
  PROVE LET q == CreateConn(p, c)
        IN  /\ Body(q) /\ (\E n \in Items : Grown(p, q, c, n))
            /\ \A o \in Int : Below(p, o) => Below(q, o)
<1> DEFINE a == AddEvent(p, "connecting", "out") n == Newest(a) m == ModEtype(a, c, "none")
           pr == [a.pair EXCEPT ![c] = n, ![n] = c] cn == [a.conn EXCEPT ![n] = TRUE]
           kd == [a.kind EXCEPT ![c] = "waiting"]
           q == [m EXCEPT !.pair = pr, !.conn = cn, !.kind = kd]
<1>1. /\ Body(a) /\ Joined(p, a, n, "connecting")
      /\ \A o \in Int : Below(p, o) => Below(a, o)
  BY AddEventSound DEF Kinds, Masks
<1> HIDE DEF a, n
<1>2. n \in Items /\ n # c /\ a.fd[c] # 0 /\ a.kind[c] = p.kind[c] /\ a.conn[c] = p.conn[c]
  BY <1>1 DEF Joined
<1>3. /\ Body(m) /\ SameGroups(a, m) /\ m.index = a.index
      /\ \A o \in Int : Below(a, o) => Below(m, o)
  BY <1>1, <1>2, ModEtypeBody DEF Masks
<1>4. CreateConn(p, c) = q
  BY DEF CreateConn, a, n
<1> HIDE DEF m
<1>5. /\ m \in PoolType /\ a.pair \in [Items -> Refs] /\ a.conn \in [Items -> BOOLEAN]
      /\ a.kind \in [Items -> Kinds] /\ n \in Refs /\ c \in Refs
  BY <1>1, <1>2, <1>3, Fields DEF Body, Refs
<1>6. pr \in [Items -> Refs] /\ cn \in [Items -> BOOLEAN] /\ kd \in [Items -> Kinds]
  BY <1>2, <1>5 DEF Kinds
<1>7. /\ pr[c] = n /\ pr[n] = c /\ cn[n] = TRUE /\ kd[c] = "waiting"
      /\ \A u \in Items : u # c /\ u # n => pr[u] = a.pair[u]
      /\ \A u \in Items : u # n => cn[u] = a.conn[u]
      /\ \A u \in Items : u # c => kd[u] = a.kind[u]
  BY <1>2, <1>5
<1> HIDE DEF pr, cn, kd
<1>8. q \in PoolType
  BY <1>5, <1>6, Zenon DEF PoolType
<1>9. /\ q.pair = pr /\ q.conn = cn /\ q.kind = kd
      /\ q.fd = m.fd /\ q.pfd = m.pfd /\ SameArrays(m, q) /\ SameTimers(m, q)
  BY <1>5 DEF PoolType, SameArrays, SameTimers
<1> HIDE DEF q
<1>10. Watched(q)
  BY <1>3, <1>7, <1>9 DEF Body, Watched, SameGroups, SameArrays
<1>11. Timers(q)
  BY <1>1, <1>2, <1>3, <1>7, <1>9 DEF Body, Timers, Armed, SameGroups, SameTimers, Joined
<1>12. Body(q) /\ \A o \in Int : Below(m, o) => Below(q, o)
  BY <1>3, <1>8, <1>9, <1>10, <1>11, TieBody
<1>13. Grown(p, q, c, n)
  BY <1>1, <1>2, <1>3, <1>7, <1>9 DEF Grown, Joined, SameGroups
<1> QED BY <1>1, <1>2, <1>3, <1>4, <1>12, <1>13

\* The new remote replaces the one that c had.
LEMMA GrownGroups ==
  ASSUME NEW p \in PoolType, NEW q \in PoolType, NEW c \in Items, NEW n, Grown(p, q, c, n),
         Groups(p, {}), p.fd[c] # 0, ~ p.conn[c],
         p.pair[c] = NULL \/ (p.pair[c] # c /\ p.pair[p.pair[c]] = c)
  PROVE Groups(q, {p.pair[c]})
<1>0. /\ NULL \notin Items /\ p.pair \in [Items -> Refs] /\ \A x \in Refs : x # NULL => x \in Items
  BY Sizes, Fields
<1>1. Whole(q, c) /\ Whole(q, n)
  BY <1>0 DEF Grown, Whole, Tied, Alive
<1>2. ASSUME NEW u \in Items, u # n, u # c, u # p.pair[c], p.fd[u] # 0, Whole(p, u) PROVE Whole(q, u)
  <2> DEFINE f == p.pair[u] w == p.pair[f]
  <2>0. /\ q.kind[u] = p.kind[u] /\ q.conn[u] = p.conn[u] /\ q.pair[u] = f /\ f \in Refs
    BY <1>0, <1>2 DEF Grown
  <2>1. Alive(p, f) => f \in Items /\ f # n /\ w \in Refs
    BY <1>0, <2>0 DEF Alive, Grown
  <2>2. Alive(p, f) /\ w = u => f # c
    BY <1>2
  <2>3. Ring(p, u) => f # c /\ w # c /\ w # n /\ w \in Items
    BY <1>0, <1>2, <2>1 DEF Ring, Alive, Grown
  <2>4. Alive(p, f) /\ f # c => /\ Alive(q, f) /\ q.kind[f] = p.kind[f] /\ q.conn[f] = p.conn[f]
                                /\ q.pair[f] = w
    BY <1>0, <2>1 DEF Alive, Grown
  <2>5. Ring(p, u) => Ring(q, u)
    <3> SUFFICES ASSUME Ring(p, u) PROVE Ring(q, u)
      OBVIOUS
    <3>1. Alive(q, w) /\ q.pair[w] = p.pair[w]
      BY <1>0, <2>3 DEF Alive, Ring, Grown
    <3> QED BY <2>0, <2>3, <2>4, <3>1 DEF Ring
  <2> HIDE DEF f
  <2>6. Tied(p, u, f, w)
    BY <1>2 DEF Whole, f
  <2> HIDE DEF w
  <2> QED BY <2>0, <2>2, <2>3, <2>4, <2>5, <2>6 DEF Whole, Tied
<1>3. \A u \in Items : u # n /\ q.fd[u] # 0 => p.fd[u] # 0
  BY DEF Grown
<1> QED BY <1>1, <1>2, <1>3 DEF Groups
\* q is in order, and reports have not moved up in it.
Good(p, q) == Sound(q, {}) /\ \A o \in Int : Below(p, o) => Below(q, o)

\* A connection that none leads to may be untied.
LEMMA UntiedGroups ==
  ASSUME NEW p \in PoolType, NEW q \in PoolType, NEW r \in Items, Groups(p, {r}),
         q.fd = p.fd, q.kind = p.kind, q.conn = p.conn, q.pair = [p.pair EXCEPT ![r] = NULL],
         p.pair[r] \in Items, p.pair[p.pair[r]] # r, p.pair[p.pair[p.pair[r]]] # r
  PROVE Groups(q, {r})
<1>0. /\ NULL \notin Items /\ p.pair \in [Items -> Refs] /\ \A x \in Refs : x # NULL => x \in Items
  BY Sizes, Fields
<1>1. q.pair[r] = NULL /\ \A u \in Items : u # r => q.pair[u] = p.pair[u]
  BY <1>0
<1> SUFFICES ASSUME NEW u \in Items, u # r, p.fd[u] # 0, Whole(p, u) PROVE Whole(q, u)
  BY DEF Groups
<1> DEFINE f == p.pair[u] w == p.pair[f]
<1>2. q.pair[u] = f /\ f \in Refs /\ (Alive(p, f) => f \in Items /\ w \in Refs)
  BY <1>0, <1>1 DEF Alive
<1>3. Alive(p, f) /\ w = u => f # r
  OBVIOUS
<1>4. Ring(p, u) => f # r /\ w # r /\ w \in Items
  BY <1>0, <1>2 DEF Ring, Alive
<1>5. Alive(p, f) /\ f # r => Alive(q, f) /\ q.pair[f] = w
  BY <1>1, <1>2 DEF Alive
<1>6. Ring(p, u) => Ring(q, u)
  BY <1>1, <1>2, <1>4, <1>5 DEF Ring, Alive
<1> HIDE DEF f
<1>7. Tied(p, u, f, w)
  BY DEF Whole, f
<1> HIDE DEF w
<1> QED BY <1>2, <1>3, <1>4, <1>5, <1>6, <1>7 DEF Whole, Tied

\* A remote, connecting or in a tunnel, and its client.
LEMMA RemoteClient ==
  ASSUME NEW p, Sound(p, {}), NEW r \in Items, p.fd[r] # 0, p.conn[r],
         p.kind[r] \in {"connecting", "tunnel"}
  PROVE /\ p.pair[r] \in Items /\ p.fd[p.pair[r]] # 0 /\ ~ p.conn[p.pair[r]]
        /\ p.kind[p.pair[r]] \in {"waiting", "tunnel"} /\ p.pair[p.pair[r]] = r /\ p.pair[r] # r
<1> DEFINE c == p.pair[r]
<1>0. /\ p \in PoolType /\ c \in Refs /\ (c # NULL => c \in Items) /\ p.conn \in [Items -> BOOLEAN]
  BY Sizes, Fields DEF Sound, Body
<1>1. Whole(p, r)
  BY DEF Sound, Groups
<1>2. Alive(p, c) /\ p.pair[c] = r /\ p.kind[c] \in {"waiting", "tunnel"}
      /\ (p.kind[c] = "tunnel" => p.conn[c] = ~ p.conn[r])
  BY <1>1 DEF Whole, Tied
<1>3. c \in Items /\ p.fd[c] # 0 /\ Whole(p, c)
  BY <1>0, <1>2 DEF Sound, Groups, Alive
<1>4. ~ p.conn[c]
  BY <1>2, <1>3, Zenon DEF Whole, Tied
<1> QED BY <1>2, <1>3, <1>4

\* reconnect: the client keeps its place and waits for the new remote; the
\* old one is gone.
LEMMA ReconnectSound ==
  ASSUME NEW p, Sound(p, {}), NEW r \in Items, p.fd[r] # 0, p.conn[r],
         p.kind[r] \in {"connecting", "tunnel"}, ~ Full(p)
  PROVE LET q == Reconnect(p, r)
        IN  Good(p, q) /\ q.fd[p.pair[r]] # 0 /\ q.kind[p.pair[r]] = "waiting"
<1> DEFINE c == p.pair[r] a == CreateConn(p, c) f == [a.pair EXCEPT ![r] = NULL]
           x == [a EXCEPT !.pair = f]
<1>1. /\ c \in Items /\ p.fd[c] # 0 /\ ~ p.conn[c] /\ p.kind[c] # "connecting"
      /\ p.pair[c] = r /\ c # r
  BY RemoteClient
<1>r. Reconnect(p, r) = DelEvent(x, r)
  BY DEF Reconnect
<1>b. Body(p) /\ Groups(p, {}) /\ p \in PoolType /\ r # NULL /\ r \in Refs
  BY Sizes DEF Sound, Body, Refs
<1> HIDE DEF c
<1>2. /\ Body(a) /\ (\E n \in Items : Grown(p, a, c, n))
      /\ \A o \in Int : Below(p, o) => Below(a, o)
  BY <1>1, <1>b, CreateConnBody
<1> HIDE DEF a
<1>3. PICK n \in Items : Grown(p, a, c, n)
  BY <1>2
<1>4. a \in PoolType /\ Groups(a, {r}) /\ a.pair \in [Items -> Refs] /\ NULL \in Refs
  <2>1. a \in PoolType
    BY <1>2 DEF Body
  <2>2. p.pair[c] = NULL \/ (p.pair[c] # c /\ p.pair[p.pair[c]] = c)
    BY <1>1 DEF c
  <2>3. Groups(a, {p.pair[c]})
    BY <1>1, <1>3, <1>b, <2>1, <2>2, GrownGroups
  <2> QED BY <1>1, <2>1, <2>3, Fields, Sizes
<1>5. f \in [Items -> Refs] /\ f[r] = NULL
  BY <1>4
<1>6. /\ Body(x) /\ x.fd = a.fd /\ x.kind = a.kind /\ x.conn = a.conn /\ x.pair = f
      /\ \A o \in Int : Below(a, o) => Below(x, o)
  <2> HIDE DEF f
  <2>1. /\ Body(x) /\ x.fd = a.fd /\ x.kind = a.kind /\ x.conn = a.conn /\ x.pair = f
        /\ SameArrays(a, x) /\ x.pfd = a.pfd
    BY <1>2, <1>5, PairBody
  <2> HIDE DEF x
  <2>2. \A o \in Int : Below(a, o) => Below(x, o)
    BY <2>1, BelowSame DEF SameArrays
  <2> QED BY <2>1, <2>2
<1> HIDE DEF x
<1>7. /\ n # r /\ a.fd[r] # 0 /\ a.pair[r] = c /\ a.pair[c] = n /\ a.pair[n] = c
      /\ a.fd[c] = p.fd[c] /\ a.kind[c] = "waiting"
  BY <1>1, <1>3 DEF Grown, c
<1>8. Groups(x, {r}) /\ x \in PoolType
  <2>1. x \in PoolType
    BY <1>6 DEF Body
  <2> QED BY <1>1, <1>4, <1>6, <1>7, <2>1, UntiedGroups
<1>9. Alive(x, r) /\ x.pair[r] = NULL
  BY <1>5, <1>6, <1>7, <1>b DEF Alive
<1>10. Ready(x, r)
  BY <1>6, <1>8, <1>9, <1>b DEF Ready, Groups, Tail, Alive
<1>11. LET q == DelEvent(x, r)
       IN  Sound(q, {}) /\ \A o \in Int : Below(x, o) => Below(q, o)
  BY <1>10, DelEventSound
<1>12. DelEvent(x, r) = Unlink(x, r)
  BY <1>9, DelSingle
<1>13. Unlinked(x, Unlink(x, r), r)
  BY <1>6, <1>9, UnlinkBody DEF Alive
<1> DEFINE q == Unlink(x, r)
<1>14. /\ Sound(q, {}) /\ (\A o \in Int : Below(x, o) => Below(q, o)) /\ Unlinked(x, q, r)
  BY <1>11, <1>12, <1>13
<1> HIDE DEF q
<1>15. q.fd[c] # 0 /\ q.kind[c] = "waiting"
  <2>1. x.fd \in [Items -> Nat] /\ x.kind \in [Items -> Kinds]
    BY <1>8, Fields
  <2>2. q.fd = [x.fd EXCEPT ![r] = 0] /\ q.kind = [x.kind EXCEPT ![r] = "none"]
    BY <1>14 DEF Unlinked
  <2> QED BY <1>1, <1>6, <1>7, <2>1, <2>2
<1>16. Reconnect(p, r) = q
  BY <1>r, <1>12 DEF q
<1> QED BY <1>2, <1>6, <1>14, <1>15, <1>16 DEF Good, c
\* A callback that fails, or does nothing.
LEMMA GoodSame ==
  ASSUME NEW p, Sound(p, {}) PROVE Good(p, p)
BY DEF Good

\* Two steps of a callback.
LEMMA GoodTrans ==
  ASSUME NEW p, NEW q, NEW s, Good(p, q), Good(q, s) PROVE Good(p, s)
BY DEF Good

\* del_event may be called of any connection.
LEMMA DelEventGood ==
  ASSUME NEW p, Sound(p, {}), NEW v \in Items PROVE Good(p, DelEvent(p, v))
<1>1. Ready(p, v)
  BY DEF Ready, Sound, Refs
<1> QED BY <1>1, DelEventSound DEF Good

\* The callback returned an error: loop_event closes the connection.
LEMMA FailsGood ==
  ASSUME NEW p, Sound(p, {}), NEW v \in Items, NEW q \in Fails(p, v) PROVE Good(p, q)
BY DelEventGood DEF Fails

\* The accept loop.
LEMMA AcceptOneGood ==
  ASSUME NEW p, Sound(p, {}) PROVE Good(p, AcceptOne(p))
<1>1. CASE Full(p)
  BY <1>1, GoodSame DEF AcceptOne
<1>2. CASE ~ Full(p)
  <2> DEFINE q == AddEvent(p, "request", "in")
  <2>1. /\ Body(q) /\ Joined(p, q, Newest(q), "request")
        /\ \A o \in Int : Below(p, o) => Below(q, o)
    BY <1>2, AddEventSound DEF Kinds, Masks, Sound
  <2>2. AcceptOne(p) = q
    BY <1>2 DEF AcceptOne
  <2> HIDE DEF q
  <2>3. p \in PoolType /\ q \in PoolType
    BY <2>1 DEF Sound, Body
  <2>4. Groups(q, {})
    BY <2>1, <2>3, JoinedGroups, Zenon DEF Sound
  <2> QED BY <2>1, <2>2, <2>4 DEF Good, Sound
<1> QED BY <1>1, <1>2

\* on_accept.
LEMMA OnAcceptGood ==
  ASSUME NEW p, Sound(p, {}), NEW v \in Items, NEW q \in OnAccept(p, v) PROVE Good(p, q)
<1>1. Good(p, p) /\ Good(p, AcceptOne(p))
  BY GoodSame, AcceptOneGood
<1>2. Sound(AcceptOne(p), {})
  BY <1>1 DEF Good
<1>3. Good(AcceptOne(p), AcceptOne(AcceptOne(p)))
  BY <1>2, AcceptOneGood
<1>4. Good(p, AcceptOne(AcceptOne(p)))
  BY <1>1, <1>3, GoodTrans
<1>5. q = p \/ q = AcceptOne(p) \/ q = AcceptOne(AcceptOne(p))
  BY DEF OnAccept
<1> QED BY <1>1, <1>4, <1>5

\* A client whose request is being read is tied to nothing.
LEMMA RequestAlone ==
  ASSUME NEW p, Sound(p, {}), NEW c \in Items, p.fd[c] # 0, p.kind[c] = "request"
  PROVE p.pair[c] = NULL /\ ~ p.conn[c] /\ p \in PoolType /\ Body(p) /\ Groups(p, {})
BY DEF Sound, Groups, Whole, Tied, Body

\* connect_hook: the client is closed or waits for its remote.
LEMMA ConnectHookGood ==
  ASSUME NEW p, Sound(p, {}), NEW c \in Items, p.fd[c] # 0, p.kind[c] = "request",
         NEW q \in ConnectHook(p, c)
  PROVE Good(p, q)
<1>1. CASE q = DelEvent(p, c)
  BY <1>1, DelEventGood
<1>2. CASE q = CreateConn(p, c) /\ ~ Full(p)
  <2>0. p.pair[c] = NULL /\ ~ p.conn[c] /\ p \in PoolType /\ Body(p) /\ Groups(p, {})
    BY RequestAlone
  <2>1. /\ Body(q) /\ (\E n \in Items : Grown(p, q, c, n))
        /\ \A o \in Int : Below(p, o) => Below(q, o)
    BY <1>2, <2>0, CreateConnBody
  <2>2. PICK n \in Items : Grown(p, q, c, n)
    BY <2>1
  <2>3. q \in PoolType
    BY <2>1 DEF Body
  <2>4. Groups(q, {p.pair[c]})
    BY <2>0, <2>2, <2>3, GrownGroups
  <2>5. Groups(q, {})
    BY <2>0, <2>4, Sizes DEF Groups
  <2> QED BY <2>1, <2>5 DEF Good, Sound
<1> QED BY <1>1, <1>2 DEF ConnectHook

\* udp_associate: a whole ring, or neither socket is left.
LEMMA UdpAssociateGood ==
  ASSUME NEW p, Sound(p, {}), NEW c \in Items, p.fd[c] # 0, p.kind[c] = "request"
  PROVE Good(p, UdpAssociate(p, c))
<1>0. /\ p.pair[c] = NULL /\ ~ p.conn[c] /\ p \in PoolType /\ Body(p) /\ Groups(p, {})
      /\ NULL \notin Items /\ NULL \in Refs /\ Items \subseteq Refs
  BY RequestAlone, Sizes DEF Refs
<1>1. CASE Full(p)
  BY <1>1, DelEventGood DEF UdpAssociate
<1>2. CASE ~ Full(p)
  <2> DEFINE q == AddEvent(p, "udp", "in") r == Newest(q)
  <2>1. /\ Body(q) /\ Joined(p, q, r, "udp")
        /\ \A o \in Int : Below(p, o) => Below(q, o)
    BY <1>0, <1>2, AddEventSound DEF Kinds, Masks
  <2>u. UdpAssociate(p, c) =
          IF Full(q) THEN DelEvent(DelEvent(q, r), c)
          ELSE LET s == AddEvent(q, "udp", "in") u == Newest(s)
               IN  [ModEtype(s, c, "none") EXCEPT
                       !.pair = [s.pair EXCEPT ![c] = u, ![u] = r, ![r] = c],
                       !.kind = [s.kind EXCEPT ![c] = "waiting"]]
    BY <1>2 DEF UdpAssociate
  <2> HIDE DEF q, r
  <2>2. q \in PoolType /\ r \in Items /\ c # r /\ q.fd[c] # 0 /\ q.fd[r] # 0 /\ q.pair[r] = NULL
    BY <2>1 DEF Body, Joined
  <2>3. Groups(q, {r})
    BY <1>0, <2>1, <2>2, JoinedGroups
  <2>4. CASE Full(q)
    <3>1. Alive(q, r)
      BY <1>0, <2>2 DEF Alive
    <3>2. Ready(q, r)
      BY <1>0, <2>1, <2>2, <2>3, <3>1 DEF Ready, Groups, Tail, Alive
    <3>3. Good(q, DelEvent(q, r))
      BY <3>2, DelEventSound DEF Good
    <3>4. Good(DelEvent(q, r), DelEvent(DelEvent(q, r), c))
      BY <3>3, DelEventGood DEF Good
    <3>5. Good(q, DelEvent(DelEvent(q, r), c))
      BY <3>3, <3>4, GoodTrans
    <3>6. Good(p, DelEvent(DelEvent(q, r), c))
      BY <2>1, <3>5 DEF Good
    <3> QED BY <2>u, <2>4, <3>6
  <2>5. CASE ~ Full(q)
    <3> DEFINE s == AddEvent(q, "udp", "in") u == Newest(s) m == ModEtype(s, c, "none")
               f == [s.pair EXCEPT ![c] = u, ![u] = r, ![r] = c]
               g == [s.kind EXCEPT ![c] = "waiting"]
               z == [m EXCEPT !.pair = f, !.kind = g]
    <3>1. /\ Body(s) /\ Joined(q, s, u, "udp")
          /\ \A o \in Int : Below(q, o) => Below(s, o)
      BY <2>1, <2>5, AddEventSound DEF Kinds, Masks
    <3>z. UdpAssociate(p, c) = z
      BY <2>u, <2>5
    <3> HIDE DEF s, u
    <3>2. /\ s \in PoolType /\ u \in Items /\ u # c /\ u # r
          /\ s.fd[c] # 0 /\ s.fd[r] # 0 /\ s.fd[u] # 0
          /\ s.kind[c] = "request" /\ s.kind[r] = "udp" /\ s.kind[u] = "udp" /\ ~ s.conn[c]
          /\ s.pair[c] = NULL /\ s.pair[r] = NULL /\ s.pair[u] = NULL
      BY <1>0, <2>1, <2>2, <3>1 DEF Body, Joined
    <3>3. Groups(s, {r, u})
      <4>1. Groups(s, {r} \cup {u})
        BY <2>2, <2>3, <3>1, <3>2, JoinedGroups
      <4> QED BY <4>1 DEF Groups
    <3>4. /\ Body(m) /\ SameGroups(s, m) /\ m.index = s.index
          /\ \A o \in Int : Below(s, o) => Below(m, o)
      BY <3>1, <3>2, ModEtypeBody DEF Masks
    <3> HIDE DEF m
    <3>5. m \in PoolType /\ s.pair \in [Items -> Refs] /\ s.kind \in [Items -> Kinds]
      BY <3>2, <3>4, Fields DEF Body
    <3>6. /\ f \in [Items -> Refs] /\ g \in [Items -> Kinds]
          /\ f[c] = u /\ f[u] = r /\ f[r] = c /\ g[c] = "waiting"
          /\ \A x \in Items : x \notin {c, r, u} => f[x] = s.pair[x]
          /\ \A x \in Items : x # c => g[x] = s.kind[x]
      BY <1>0, <2>2, <3>2, <3>5 DEF Kinds
    <3> HIDE DEF f, g
    <3>7. z \in PoolType
      BY <3>5, <3>6, Zenon DEF PoolType
    <3>8. /\ z.pair = f /\ z.kind = g /\ z.conn = s.conn
          /\ z.fd = m.fd /\ z.fd = s.fd /\ z.pfd = m.pfd /\ SameArrays(m, z) /\ SameTimers(m, z)
      BY <3>4, <3>5 DEF PoolType, SameArrays, SameTimers, SameGroups
    <3> HIDE DEF z
    <3>9. Watched(z)
      BY <3>4, <3>6, <3>8 DEF Body, Watched, SameGroups, SameArrays
    <3>10. Timers(z)
      BY <3>2, <3>4, <3>6, <3>8 DEF Body, Timers, Armed, SameGroups, SameTimers
    <3>11. Body(z) /\ \A o \in Int : Below(m, o) => Below(z, o)
      BY <3>4, <3>7, <3>8, <3>9, <3>10, TieBody, Zenon
    <3>12. Whole(z, c) /\ Whole(z, r) /\ Whole(z, u)
      <4>1. Ring(z, c) /\ Ring(z, r) /\ Ring(z, u)
        BY <1>0, <2>2, <3>2, <3>6, <3>8 DEF Ring, Alive
      <4>2. Alive(z, u)
        BY <1>0, <3>2, <3>8 DEF Alive
      <4>3. Whole(z, c)
        BY <2>2, <3>2, <3>6, <3>8, <4>1, <4>2 DEF Whole, Tied
      <4>4. Whole(z, r)
        BY <2>2, <3>2, <3>6, <3>8, <4>1, <4>2 DEF Whole, Tied
      <4>5. Whole(z, u)
        BY <2>2, <3>2, <3>6, <3>8, <4>1, <4>2 DEF Whole, Tied
      <4> QED BY <4>3, <4>4, <4>5
    <3>13. ASSUME NEW x \in Items, x \notin {c, r, u}, z.fd[x] # 0 PROVE Whole(z, x)
      <4> DEFINE e == s.pair[x] w == s.pair[e]
      <4>1. Whole(s, x) /\ e \in Refs
        BY <3>3, <3>5, <3>8, <3>13 DEF Groups
      <4>2. z.pair[x] = e /\ z.kind[x] = s.kind[x] /\ z.conn[x] = s.conn[x]
        BY <3>6, <3>8, <3>13
      <4>3. Alive(s, e) => e \in Items
        BY <4>1, Sizes DEF Alive
      <4>4. Alive(s, e) /\ w \in Items => /\ e \notin {c, r, u} /\ z.pair[e] = w /\ Alive(z, e)
                                          /\ z.kind[e] = s.kind[e] /\ z.conn[e] = s.conn[e]
        BY <1>0, <3>2, <3>6, <3>8, <4>3 DEF Alive
      <4>5. Ring(s, x) => Ring(z, x)
        <5> SUFFICES ASSUME Ring(s, x) PROVE Ring(z, x)
          OBVIOUS
        <5>1. Alive(s, e) /\ Alive(s, w) /\ s.pair[w] = x /\ e # x /\ w # x /\ w # e /\ w \in Items
          BY <3>5, <4>3, Sizes DEF Ring, Alive
        <5>2. w \notin {c, r, u}
          BY <1>0, <3>2, <3>13, <5>1
        <5> QED BY <3>6, <3>8, <4>2, <4>4, <5>1, <5>2 DEF Ring, Alive
      <4>6. Ring(s, x) => w \in Items
        BY <3>5, <4>3, Sizes DEF Ring, Alive
      <4> HIDE DEF e
      <4>7. Tied(s, x, e, w)
        BY <4>1 DEF Whole, e
      <4> HIDE DEF w
      <4> QED BY <4>2, <4>4, <4>5, <4>6, <4>7 DEF Whole, Tied
    <3>14. Groups(z, {})
      BY <3>12, <3>13 DEF Groups
    <3> QED BY <2>1, <3>1, <3>4, <3>11, <3>14, <3>z DEF Good, Sound
  <2> QED BY <2>4, <2>5
<1> QED BY <1>1, <1>2

\* on_request.
LEMMA OnRequestGood ==
  ASSUME NEW p, Sound(p, {}), NEW v \in Items, p.fd[v] # 0, p.kind[v] = "request",
         NEW q \in OnRequest(p, v)
  PROVE Good(p, q)
<1>1. q \in Fails(p, v) \/ q = p \/ q = UdpAssociate(p, v) \/ q \in ConnectHook(p, v)
  BY DEF OnRequest
<1> QED BY <1>1, FailsGood, GoodSame, UdpAssociateGood, ConnectHookGood
-----------------------------------------------------------------------------
(* on_tunnel, on_connect                                                   *)

\* The pool is in order still and the same connections are open, tied alike.
Calm(p, q) == Good(p, q) /\ SameGroups(p, q)

\* A callback that changes nothing.
LEMMA CalmSame ==
  ASSUME NEW p, Sound(p, {}) PROVE Calm(p, p)
BY GoodSame DEF Calm, SameGroups

\* Two calm steps.
LEMMA CalmTrans ==
  ASSUME NEW p, NEW q, NEW s, Calm(p, q), Calm(q, s) PROVE Calm(p, s)
BY GoodTrans DEF Calm, SameGroups

\* A calm step and one more.
LEMMA CalmThen ==
  ASSUME NEW p, NEW q, NEW s, Calm(p, q), Good(q, s) PROVE Good(p, s)
BY GoodTrans DEF Calm

\* What is enough for Calm.
LEMMA BodyCalm ==
  ASSUME NEW p, Sound(p, {}), NEW q, Body(q), SameGroups(p, q),
         \A o \in Int : Below(p, o) => Below(q, o)
  PROVE Calm(p, q)
BY GroupsSame DEF Calm, Good, Sound

\* mod_etype, when the mask is POLLOUT or the connection is not connecting.
LEMMA ModEtypeCalm ==
  ASSUME NEW p, Sound(p, {}), NEW v \in Items, NEW e \in Masks,
         e = "out" \/ (p.fd[v] # 0 /\ p.kind[v] # "connecting")
  PROVE Calm(p, ModEtype(p, v, e))
<1> DEFINE q == ModEtype(p, v, e)
<1>1. Body(q) /\ SameGroups(p, q) /\ \A o \in Int : Below(p, o) => Below(q, o)
  BY ModEtypeBody DEF Sound
<1> HIDE DEF q
<1>2. Calm(p, q)
  BY <1>1, BodyCalm
<1> QED BY <1>2 DEF q

\* set_timer, of the remote of a tunnel.
LEMMA SetTimerCalm ==
  ASSUME NEW p, Sound(p, {}), NEW v \in Items, NEW t \in Times,
         p.fd[v] # 0, p.kind[v] = "tunnel", p.conn[v]
  PROVE Calm(p, SetTimer(p, v, t))
<1> DEFINE q == SetTimer(p, v, t)
<1>1. Body(q) /\ SameGroups(p, q) /\ SameArrays(p, q) /\ q.pfd = p.pfd
  BY SetTimerBody DEF Sound
<1> HIDE DEF q
<1>2. Calm(p, q)
  BY <1>1, BelowSame, BodyCalm DEF SameArrays
<1> QED BY <1>2 DEF q

\* remove_timer.
LEMMA RemoveTimerCalm ==
  ASSUME NEW p, Sound(p, {}), NEW v \in Items
  PROVE Calm(p, RemoveTimer(p, v))
<1> DEFINE q == RemoveTimer(p, v)
<1>1. Body(q) /\ SameGroups(p, q) /\ SameArrays(p, q) /\ q.pfd = p.pfd
  BY RemoveTimerBody DEF Sound
<1> HIDE DEF q
<1>2. Calm(p, q)
  BY <1>1, BelowSame, BodyCalm DEF SameArrays
<1> QED BY <1>2 DEF q

\* The buffer that a reconnection would send again is given up.
LEMMA KeepsCalm ==
  ASSUME NEW p, Sound(p, {}), NEW v \in Items
  PROVE Calm(p, [p EXCEPT !.keeps = [p.keeps EXCEPT ![v] = FALSE]])
<1> DEFINE f == [p.keeps EXCEPT ![v] = FALSE] q == [p EXCEPT !.keeps = f]
<1>1. p \in PoolType /\ Body(p)
  BY DEF Sound, Body
<1>2. f \in [Items -> BOOLEAN]
  BY <1>1, Fields
<1> HIDE DEF f
<1>3. q \in PoolType
  BY <1>1, <1>2, Zenon DEF PoolType
<1>4. SameGroups(p, q) /\ SameArrays(p, q) /\ SameTimers(p, q) /\ q.pfd = p.pfd
  BY <1>1 DEF PoolType, SameGroups, SameArrays, SameTimers
<1> HIDE DEF q
<1>5. Timers(q) /\ Watched(q) /\ q.fd = p.fd
  BY <1>1, <1>4 DEF Body, Timers, Watched, Armed, SameGroups, SameTimers, SameArrays
<1>6. Calm(p, q)
  BY <1>1, <1>3, <1>4, <1>5, TieBody, BodyCalm
<1> QED BY <1>6 DEF q, f

\* Both ends of a tunnel.
Ends(p, s, d) ==
    /\ s \in Items /\ p.fd[s] # 0 /\ p.kind[s] = "tunnel" /\ p.pair[s] = d
    /\ d \in Items /\ p.fd[d] # 0 /\ p.kind[d] = "tunnel" /\ p.pair[d] = s

\* The pair of a tunnel's end is its other end.
LEMMA TunnelEnds ==
  ASSUME NEW p, Sound(p, {}), NEW v \in Items, p.fd[v] # 0, p.kind[v] = "tunnel"
  PROVE Ends(p, v, p.pair[v]) /\ Ends(p, p.pair[v], v)
<1>1. Whole(p, v)
  BY DEF Sound, Groups
<1>2. p \in PoolType
  BY DEF Sound, Body
<1>3. Alive(p, p.pair[v]) /\ p.pair[v] \in Items
  BY <1>1, <1>2, Fields, Sizes DEF Whole, Tied, Alive
<1> QED BY <1>1, <1>3 DEF Whole, Tied, Ends, Alive

\* A calm step keeps the tunnel.
LEMMA EndsCalm ==
  ASSUME NEW p, NEW q, NEW s, NEW d, Calm(p, q), Ends(p, s, d)
  PROVE Ends(q, s, d) /\ Sound(q, {})
BY DEF Calm, Good, Ends, SameGroups

\* A reconnection: the client is open still, and waits.
LEMMA RetryGood ==
  ASSUME NEW p, Sound(p, {}), NEW r \in Items, p.fd[r] # 0, p.conn[r],
         p.kind[r] \in {"connecting", "tunnel"}, NEW q \in Retry(p, r)
  PROVE Good(p, q) /\ q.fd[p.pair[r]] # 0 /\ q.kind[p.pair[r]] = "waiting"
<1>1. ~ Full(p) /\ q = Reconnect(p, r)
  BY DEF Retry, CanReconnect
<1> QED BY <1>1, ReconnectSound

\* on_tunnel when what was pending could not be sent.
LEMMA FlushStopsGood ==
  ASSUME NEW p, Sound(p, {}), NEW v \in Items, NEW s, NEW d, Ends(p, s, d),
         NEW q \in FlushStops(p, v, s, d)
  PROVE Good(p, q)
<1>1. CASE q \in Fails(p, v) \/ q = p
  BY <1>1, FailsGood, GoodSame
<1>2. CASE p.conn[d] /\ q \in Retry(p, d)
  BY <1>2, RetryGood DEF Ends
<1>3. ASSUME p.conn[d], NEW t \in Times, q = SetTimer(p, d, t) PROVE Good(p, q)
  BY <1>3, SetTimerCalm DEF Ends, Calm
<1> QED BY <1>1, <1>2, <1>3 DEF FlushStops

\* The masks of both ends.
LEMMA TwoMasks ==
  ASSUME NEW p, Sound(p, {}), NEW s, NEW d, Ends(p, s, d), NEW e \in Masks, NEW f \in Masks
  PROVE Calm(p, ModEtype(ModEtype(p, s, e), d, f))
<1> DEFINE q == ModEtype(p, s, e)
<1>1. Calm(p, q)
  BY ModEtypeCalm DEF Ends
<1> HIDE DEF q
<1>2. Ends(q, s, d) /\ Sound(q, {})
  BY <1>1, EndsCalm
<1>3. Calm(q, ModEtype(q, d, f))
  BY <1>2, ModEtypeCalm DEF Ends
<1> QED BY <1>1, <1>3, CalmTrans DEF q

\* What on_tunnel does with the data it has received.
LEMMA ReceivedCalm ==
  ASSUME NEW p, Sound(p, {}), NEW s, NEW d, Ends(p, s, d), NEW q \in Received(p, s, d)
  PROVE Calm(p, q)
<1> DEFINE a == [p EXCEPT !.keeps = [p.keeps EXCEPT ![d] = FALSE]]
<1>0. s \in Items /\ d \in Items
  BY DEF Ends
<1>1. CASE ~ p.conn[s]
  BY <1>0, <1>1, CalmSame, KeepsCalm DEF Received
<1>2. CASE p.conn[s]
  <2>1. Calm(p, a)
    BY <1>0, KeepsCalm
  <2>2. q = a \/ q = RemoveTimer(a, s) \/ \E t \in Times : q = SetTimer(RemoveTimer(a, s), s, t)
    BY <1>2, Zenon DEF Received
  <2> HIDE DEF a
  <2>3. Sound(a, {})
    BY <2>1 DEF Calm, Good
  <2>4. Calm(a, RemoveTimer(a, s))
    BY <1>0, <2>3, RemoveTimerCalm
  <2> DEFINE b == RemoveTimer(a, s)
  <2>5. Calm(p, b)
    BY <2>1, <2>4, CalmTrans
  <2> HIDE DEF b
  <2>6. Sound(b, {}) /\ Ends(b, s, d) /\ b.conn = p.conn
    BY <2>5, EndsCalm DEF Calm, SameGroups
  <2>7. \A t \in Times : Calm(b, SetTimer(b, s, t))
    BY <1>2, <2>6, SetTimerCalm DEF Ends
  <2>8. \A t \in Times : Calm(p, SetTimer(b, s, t))
    BY <2>5, <2>7, CalmTrans
  <2> QED BY <2>1, <2>2, <2>5, <2>8 DEF b
<1> QED BY <1>1, <1>2

\* Also when the remote was replaced meanwhile: the client waits now and may
\* be muted, and the stale index of the old remote sets POLLOUT only.
LEMMA SendReceivedGood ==
  ASSUME NEW p, Sound(p, {}), NEW v \in Items, NEW s, NEW d, Ends(p, s, d),
         NEW q \in SendReceived(p, v, s, d)
  PROVE Good(p, q)
<1>0. "none" \in Masks /\ "out" \in Masks /\ s \in Items /\ d \in Items
  BY DEF Masks, Ends
<1>1. CASE q = p \/ q \in Fails(p, v)
  BY <1>1, FailsGood, GoodSame
<1>2. CASE q = ModEtype(ModEtype(p, s, "none"), d, "out")
  BY <1>0, <1>2, TwoMasks DEF Calm
<1>3. ASSUME p.conn[d], NEW x \in Retry(p, d), q = ModEtype(ModEtype(x, s, "none"), d, "out")
      PROVE Good(p, q)
  <2>1. Good(p, x) /\ x.fd[s] # 0 /\ x.kind[s] = "waiting"
    BY <1>3, RetryGood DEF Ends
  <2> DEFINE y == ModEtype(x, s, "none")
  <2>2. Calm(x, y)
    BY <1>0, <2>1, ModEtypeCalm DEF Good
  <2> HIDE DEF y
  <2>3. Calm(y, ModEtype(y, d, "out"))
    BY <1>0, <2>2, ModEtypeCalm DEF Calm, Good
  <2>4. Good(x, ModEtype(y, d, "out"))
    BY <2>2, <2>3, CalmTrans DEF Calm
  <2>5. q = ModEtype(y, d, "out")
    BY <1>3 DEF y
  <2> QED BY <2>1, <2>4, <2>5, GoodTrans
<1>4. ASSUME p.conn[d], NEW t \in Times,
             q = ModEtype(ModEtype(SetTimer(p, d, t), s, "none"), d, "none")
      PROVE Good(p, q)
  <2> DEFINE x == SetTimer(p, d, t)
  <2>1. Calm(p, x)
    BY <1>4, SetTimerCalm DEF Ends
  <2> HIDE DEF x
  <2>2. Sound(x, {}) /\ Ends(x, s, d)
    BY <2>1, EndsCalm
  <2>3. Calm(x, ModEtype(ModEtype(x, s, "none"), d, "none"))
    BY <1>0, <2>2, TwoMasks
  <2>4. Calm(p, ModEtype(ModEtype(x, s, "none"), d, "none"))
    BY <2>1, <2>3, CalmTrans
  <2> QED BY <1>4, <2>4 DEF x, Calm
<1> QED BY <1>1, <1>2, <1>3, <1>4 DEF SendReceived, RetryAfterSend

\* on_tunnel from the first recv on.
LEMMA ReceiveGood ==
  ASSUME NEW p, Sound(p, {}), NEW v \in Items, NEW s, NEW d, Ends(p, s, d),
         NEW q \in Receive(p, v, s, d)
  PROVE Good(p, q)
<1>1. CASE q = p \/ q \in Fails(p, v)
  BY <1>1, FailsGood, GoodSame
<1>2. CASE p.conn[s] /\ q \in Retry(p, s)
  BY <1>2, RetryGood DEF Ends
<1>3. ASSUME NEW x \in Received(p, s, d), q \in SendReceived(x, v, s, d) PROVE Good(p, q)
  <2>1. Calm(p, x)
    BY ReceivedCalm
  <2>2. Sound(x, {}) /\ Ends(x, s, d)
    BY <2>1, EndsCalm
  <2>3. Good(x, q)
    BY <1>3, <2>2, SendReceivedGood
  <2> QED BY <2>1, <2>3, CalmThen
<1> QED BY <1>1, <1>2, <1>3 DEF Receive

\* on_tunnel for a readable or writable socket.
LEMMA TunnelOutcomesGood ==
  ASSUME NEW p, Sound(p, {}), NEW v \in Items, NEW s, NEW d, Ends(p, s, d),
         NEW q \in TunnelOutcomes(p, v, s)
  PROVE Good(p, q)
<1>0. p.pair[s] = d /\ "in" \in Masks
  BY DEF Ends, Masks
<1> DEFINE x == FlushDone(p, s, d)
<1>1. q \in FlushStops(p, v, s, d) \/ q \in Receive(p, v, s, d) \/ q \in Receive(x, v, s, d)
  BY <1>0 DEF TunnelOutcomes
<1>2. Calm(p, x)
  BY <1>0, TwoMasks DEF FlushDone
<1> HIDE DEF x
<1>3. Sound(x, {}) /\ Ends(x, s, d)
  BY <1>2, EndsCalm
<1>4. q \in Receive(x, v, s, d) => Good(p, q)
  BY <1>2, <1>3, ReceiveGood, CalmThen
<1> QED BY <1>1, <1>4, FlushStopsGood, ReceiveGood

\* on_tunnel, for a report or for a timer.
LEMMA OnTunnelGood ==
  ASSUME NEW p, Sound(p, {}), NEW v \in Items, p.fd[v] # 0, p.kind[v] = "tunnel",
         NEW due \in BOOLEAN, due => p.conn[v], NEW q \in OnTunnel(p, v, due)
  PROVE Good(p, q)
<1>0. Ends(p, v, p.pair[v]) /\ Ends(p, p.pair[v], v)
  BY TunnelEnds
<1>1. CASE due /\ q \in OnTimeout(p, v)
  <2>1. ASSUME NEW t \in Times, q = SetTimer(p, v, t) PROVE Good(p, q)
    BY <1>1, <2>1, SetTimerCalm DEF Calm
  <2> QED BY <1>1, <2>1, RetryGood, FailsGood DEF OnTimeout
<1>2. CASE q \in TunnelOutcomes(p, v, v) \/ q \in TunnelOutcomes(p, v, p.pair[v])
  BY <1>0, <1>2, TunnelOutcomesGood
<1> QED BY <1>1, <1>2 DEF OnTunnel
\* on_connect's success: remote and client become a tunnel.
Up(p, v) ==
    LET c == p.pair[v]
    IN  [ModEtype(ModEtype(p, v, "in"), c, "in")
            EXCEPT !.kind = [p.kind EXCEPT ![v] = "tunnel", ![c] = "tunnel"]]

\* The masks are changed before the callbacks; the other order, in which each
\* step leaves the pool in order, gives the same pool.
LEMMA UpGood ==
  ASSUME NEW p, Sound(p, {}), NEW v \in Items, p.fd[v] # 0, p.kind[v] = "connecting"
  PROVE Good(p, Up(p, v)) /\ Ends(Up(p, v), p.pair[v], v)
<1> DEFINE c == p.pair[v] k == [p.kind EXCEPT ![v] = "tunnel", ![c] = "tunnel"]
           x == [p EXCEPT !.kind = k]
<1>0. p \in PoolType /\ Body(p) /\ Groups(p, {})
  BY DEF Sound, Body
<1>1. p.conn[v] /\ p.kind[c] = "waiting"
  BY <1>0 DEF Groups, Whole, Tied
<1>2. /\ c \in Items /\ p.fd[c] # 0 /\ ~ p.conn[c] /\ p.pair[c] = v /\ c # v
  BY <1>1, RemoteClient
<1> HIDE DEF c
<1>3. /\ k \in [Items -> Kinds] /\ k[v] = "tunnel" /\ k[c] = "tunnel"
      /\ \A u \in Items : u # v /\ u # c => k[u] = p.kind[u]
  BY <1>0, <1>2, Fields, Zenon DEF Kinds
<1>e. /\ Up(p, v) = [ModEtype(ModEtype(p, v, "in"), c, "in") EXCEPT !.kind = k]
      /\ p.pair[v] = c
  BY DEF Up, c
<1> HIDE DEF k
<1>4. Up(p, v) = ModEtype(ModEtype(x, v, "in"), c, "in")
  <2>1. x.pfd = p.pfd /\ x.index = p.index
    BY <1>0 DEF PoolType
  <2> DEFINE f == [p.pfd EXCEPT ![p.index[v]].ev = "in"]
             g == [f EXCEPT ![p.index[c]].ev = "in"]
             xf == [x EXCEPT !.pfd = f] pf == [p EXCEPT !.pfd = f]
  <2>2. ModEtype(x, v, "in") = xf /\ ModEtype(p, v, "in") = pf
    BY <2>1 DEF ModEtype
  <2>3. xf.pfd = f /\ xf.index = p.index /\ pf.pfd = f /\ pf.index = p.index
    <3> HIDE DEF f
    <3> QED BY <1>0 DEF PoolType
  <2> HIDE DEF xf, pf
  <2>4. ModEtype(xf, c, "in") = [xf EXCEPT !.pfd = g] /\ ModEtype(pf, c, "in") = [pf EXCEPT !.pfd = g]
    BY <2>3 DEF ModEtype
  <2>5. [xf EXCEPT !.pfd = g] = [[pf EXCEPT !.pfd = g] EXCEPT !.kind = k]
    <3> HIDE DEF f, g
    <3> QED BY <1>0, Zenon DEF PoolType, xf, pf
  <2> QED BY <1>e, <2>2, <2>4, <2>5, Zenon
<1>5. x \in PoolType
  BY <1>0, <1>3, Zenon DEF PoolType
<1>6. /\ x.kind = k /\ x.fd = p.fd /\ x.conn = p.conn /\ x.pair = p.pair
      /\ x.pfd = p.pfd /\ SameArrays(p, x) /\ SameTimers(p, x)
  BY <1>0 DEF PoolType, SameArrays, SameTimers
<1> HIDE DEF x
<1>7. Watched(x) /\ Timers(x)
  BY <1>0, <1>1, <1>3, <1>6 DEF Body, Watched, Timers, Armed, SameArrays, SameTimers
<1>8. Body(x) /\ \A o \in Int : Below(p, o) => Below(x, o)
  BY <1>0, <1>5, <1>6, <1>7, TieBody
<1>9. Groups(x, {})
  <2>0. NULL \notin Items /\ p.pair \in [Items -> Refs] /\ \A u \in Refs : u # NULL => u \in Items
    BY <1>0, Sizes, Fields
  <2>1. Whole(x, v) /\ Whole(x, c)
    <3>1. x.conn[c] = ~ x.conn[v] /\ x.conn[v] = ~ x.conn[c]
      <4>1. p.conn[v] \in BOOLEAN /\ p.conn[c] \in BOOLEAN
        BY <1>0, <1>2, Fields
      <4> QED BY <1>1, <1>2, <1>6, <4>1, Zenon
    <3>2. Alive(x, c) /\ Alive(x, v) /\ x.pair[v] = c /\ x.pair[c] = v
      BY <1>2, <1>6, <2>0, <1>e DEF Alive
    <3>3. x.kind[v] = "tunnel" /\ x.kind[c] = "tunnel"
      BY <1>3, <1>6
    <3> QED BY <3>1, <3>2, <3>3, Zenon DEF Whole, Tied
  <2>2. ASSUME NEW u \in Items, u # v, u # c, p.fd[u] # 0 PROVE Whole(x, u)
    <3> DEFINE e == p.pair[u] w == p.pair[e]
    <3>1. Whole(p, u)
      BY <1>0, <2>2 DEF Groups
    <3>2. e \in Refs /\ (Alive(p, e) => e \in Items)
      BY <2>0 DEF Alive
    <3>3. w = u => e # v /\ e # c
      BY <1>2, <1>e, <2>2
    <3>4. Ring(p, u) => Ring(x, u)
      BY <1>6 DEF Ring, Alive
    <3> HIDE DEF e
    <3>5. Tied(p, u, e, w)
      BY <3>1 DEF Whole, e
    <3>6. /\ x.kind[u] = p.kind[u] /\ x.conn[u] = p.conn[u] /\ x.pair[u] = e
          /\ Alive(p, e) => Alive(x, e) /\ x.pair[e] = w
          /\ Alive(p, e) /\ w = u => x.kind[e] = p.kind[e] /\ x.conn[e] = p.conn[e]
      BY <1>3, <1>6, <2>2, <3>2, <3>3 DEF Alive, e
    <3> HIDE DEF w
    <3> QED BY <3>4, <3>5, <3>6 DEF Whole, Tied
  <2> QED BY <1>6, <2>1, <2>2 DEF Groups
<1>10. Good(p, x) /\ Ends(x, c, v) /\ Sound(x, {})
  BY <1>1, <1>2, <1>3, <1>6, <1>8, <1>9, <1>e DEF Good, Sound, Ends
<1>11. Ends(x, v, c) /\ "in" \in Masks
  BY <1>10 DEF Ends, Masks
<1>12. Calm(x, ModEtype(ModEtype(x, v, "in"), c, "in"))
  BY <1>10, <1>11, TwoMasks
<1>13. Calm(x, Up(p, v))
  BY <1>4, <1>12
<1>14. Good(p, Up(p, v))
  BY <1>10, <1>13, GoodTrans DEF Calm
<1>15. Ends(Up(p, v), c, v)
  BY <1>10, <1>13, EndsCalm
<1> QED BY <1>14, <1>15, <1>e

\* on_connect: the tunnel is up, or the next group is tried, or it fails.
LEMMA OnConnectGood ==
  ASSUME NEW p, Sound(p, {}), NEW v \in Items, p.fd[v] # 0, p.kind[v] = "connecting",
         NEW q \in OnConnect(p, v)
  PROVE Good(p, q)
<1> DEFINE x == Up(p, v) c == p.pair[v]
<1>1. q \in Fails(p, v) \/ q \in Retry(p, v) \/ q \in TunnelOutcomes(x, v, c) \/ q = x \/ q \in Fails(x, v)
  BY DEF OnConnect, Up
<1>2. Good(p, x) /\ Ends(x, c, v)
  BY UpGood
<1> HIDE DEF x
<1>3. Sound(x, {})
  BY <1>2 DEF Good
<1>4. p.conn[v]
  BY DEF Sound, Groups, Whole, Tied
<1>5. q \in TunnelOutcomes(x, v, c) => Good(x, q)
  BY <1>2, <1>3, TunnelOutcomesGood
<1>6. q \in Fails(x, v) => Good(x, q)
  BY <1>3, FailsGood
<1>7. Good(x, q) => Good(p, q)
  BY <1>2, GoodTrans
<1>8. q \in Fails(p, v) \/ q \in Retry(p, v) => Good(p, q)
  BY <1>4, FailsGood, RetryGood
<1> QED BY <1>1, <1>2, <1>5, <1>6, <1>7, <1>8

\* Whatever a callback does, the pool is in order after it.
LEMMA OutcomesGood ==
  ASSUME NEW p, Sound(p, {}), NEW v \in Items, p.fd[v] # 0, NEW due \in BOOLEAN,
         due => p.kind[v] = "tunnel" /\ p.conn[v], NEW q \in Outcomes(p, v, due)
  PROVE Good(p, q)
<1>1. p.kind[v] \in {"accept", "request", "waiting", "connecting", "tunnel", "udp"}
  <2>1. p \in PoolType /\ Whole(p, v)
    BY DEF Sound, Body, Groups
  <2>2. p.kind[v] \in Kinds
    BY <2>1, Fields
  <2> QED BY <2>1, <2>2 DEF Kinds, Whole, Tied
<1>2. CASE p.kind[v] = "accept"
  BY <1>2, OnAcceptGood DEF Outcomes
<1>3. CASE p.kind[v] = "request"
  BY <1>3, OnRequestGood DEF Outcomes
<1>4. CASE p.kind[v] = "waiting"
  BY <1>4, GoodSame, FailsGood DEF Outcomes, OnIgnore
<1>5. CASE p.kind[v] = "connecting"
  BY <1>5, OnConnectGood DEF Outcomes
<1>6. CASE p.kind[v] = "tunnel"
  BY <1>6, OnTunnelGood DEF Outcomes
<1>7. CASE p.kind[v] = "udp"
  BY <1>7, GoodSame, FailsGood DEF Outcomes, OnUdpTunnel
<1> QED BY <1>1, <1>2, <1>3, <1>4, <1>5, <1>6, <1>7
-----------------------------------------------------------------------------
(* loop_event                                                              *)

\* A change of revents, fresh and owed only.
LEMMA ScanBody ==
  ASSUME NEW p, Body(p), NEW q \in PoolType, SameGroups(p, q), SameTimers(p, q),
         q.links = p.links, q.index = p.index, q.count = p.count, q.opened = p.opened,
         \A i \in Slots : q.pfd[i].fd = p.pfd[i].fd /\ q.pfd[i].ev = p.pfd[i].ev,
         Reports(q)
  PROVE Body(q)
<1>1. Arrays(q)
  BY DEF Body, Arrays, SameGroups
<1>2. Watched(q)
  <2>1. p \in PoolType
    BY DEF Body
  <2>2. \A v \in Items : p.index[v] \in Slots
    BY <2>1, Fields
  <2> QED BY <2>2 DEF Body, Watched, SameGroups
<1>3. Timers(q) /\ Linked(q)
  BY TimersSame
<1> QED BY <1>1, <1>2, <1>3 DEF Body

\* Below the scan's place, the deliverable reports are all there are.
LEMMA AllDeliverable ==
  ASSUME NEW p, NEW o \in -1 .. Size - 1, Below(p, o)
  PROVE Deliverable(p, o) = Reported(p)
<1>1. 0 .. o \subseteq Slots
  BY SizeNat DEF Slots
<1>2. \A i \in Reported(p) : i \in 0 .. o
  BY SizeNat DEF Below, Reported, Slots
<1> QED BY <1>1, <1>2 DEF Deliverable, Reported

\* A report is taken for an open connection; the rest are below it.
LEMMA TakenSound ==
  ASSUME NEW p, Sound(p, {}), NEW o \in -1 .. Size - 1, Below(p, o), Deliverable(p, o) # {}
  PROVE LET i == Max(Deliverable(p, o)) q == Taken(p, i)
        IN  /\ i \in Slots /\ i - 1 \in -1 .. Size - 1 /\ p.links[i] \in Items /\ p.fd[p.links[i]] # 0
            /\ Sound(q, {}) /\ SameGroups(p, q) /\ q.links = p.links /\ Below(q, i - 1)
<1> DEFINE i == Max(Deliverable(p, o)) v == p.links[i] q == Taken(p, i)
<1>0. Size \in Nat /\ o \in Int /\ p \in PoolType /\ Body(p)
  BY SizeNat DEF Sound, Body
<1>1. Deliverable(p, o) = Reported(p) /\ Deliverable(p, o) \subseteq 0 .. o
  BY AllDeliverable DEF Deliverable
<1>2. i \in Reported(p) /\ \A j \in Reported(p) : j <= i
  BY <1>0, <1>1, Greatest
<1> HIDE DEF i
<1>3. i \in Slots /\ i < p.count /\ p.pfd[i].fd \in p.owed /\ i \in Int
  BY <1>0, <1>2 DEF Body, Reports, Reported, Slots
<1>4. v \in Items /\ p.fd[v] # 0 /\ p.pfd[i].fd = p.fd[v]
  BY <1>0, <1>3, Fields DEF Body, Arrays
<1> DEFINE f == [p.pfd EXCEPT ![i].rev = FALSE] w == p.owed \ {p.fd[v]}
<1>5. q = [p EXCEPT !.pfd = f, !.owed = w]
  BY DEF Taken
<1>6. /\ p.pfd \in [Slots -> Record] /\ f \in [Slots -> Record] /\ w \in SUBSET Nat
      /\ f[i].rev = FALSE
      /\ \A j \in Slots : f[j].fd = p.pfd[j].fd /\ f[j].ev = p.pfd[j].ev
      /\ \A j \in Slots : j # i => f[j].rev = p.pfd[j].rev
  <2>1. p.pfd \in [Slots -> Record] /\ p.owed \in SUBSET Nat
    BY <1>0, Fields
  <2> QED BY <1>3, <2>1, Zenon DEF Record
<1> HIDE DEF q, f, v
<1>7. q \in PoolType
  <2> HIDE DEF w
  <2> QED BY <1>0, <1>5, <1>6, Zenon DEF PoolType
<1>8. /\ q.pfd = f /\ q.owed = w /\ SameGroups(p, q) /\ SameTimers(p, q) /\ q.links = p.links
      /\ q.index = p.index /\ q.fresh = p.fresh /\ q.count = p.count /\ q.opened = p.opened
  <2> HIDE DEF w
  <2> QED BY <1>0, <1>5 DEF PoolType, SameGroups, SameTimers
<1>9. Reported(q) = Reported(p) \ {i}
  BY <1>3, <1>6, <1>8, Zenon DEF Reported
<1>10. Reports(q)
  <2>1. ASSUME NEW j \in Reported(q) PROVE j < q.count /\ q.pfd[j].fd \in q.owed
    <3>1. j \in Reported(p) /\ j # i /\ j \in Slots
      BY <1>9 DEF Reported
    <3>2. j < p.count /\ p.pfd[j].fd \in p.owed
      BY <1>0, <3>1 DEF Body, Reports
    <3>a. Arrays(p) /\ p.links[j] \in Items
      BY <1>0, <3>1, Fields DEF Body
    <3>b. p.links[j] # v
      BY <1>3, <3>1, <3>a DEF Arrays, v
    <3>c. p.fd[p.links[j]] # 0 /\ p.pfd[j].fd = p.fd[p.links[j]]
      BY <3>1, <3>2, <3>a DEF Arrays
    <3>3. /\ p.links[j] \in Items /\ p.links[j] # v /\ p.fd[p.links[j]] # 0
          /\ p.pfd[j].fd = p.fd[p.links[j]]
      BY <3>a, <3>b, <3>c
    <3>4. p.fd[p.links[j]] # p.fd[v]
      BY <1>0, <1>4, <3>3 DEF Body, Arrays
    <3> QED BY <1>6, <1>8, <3>1, <3>2, <3>3, <3>4
  <2>2. ASSUME NEW x \in q.owed PROVE \E j \in Reported(q) : q.pfd[j].fd = x
    <3>1. x \in p.owed /\ x # p.fd[v]
      BY <1>8, <2>2
    <3>2. PICK j \in Reported(p) : p.pfd[j].fd = x
      BY <1>0, <3>1 DEF Body, Reports
    <3>3. j # i /\ j \in Slots
      BY <1>4, <3>1, <3>2 DEF Reported
    <3> QED BY <1>6, <1>8, <1>9, <3>2, <3>3
  <2> QED BY <2>1, <2>2 DEF Reports
<1>11. Body(q)
  BY <1>0, <1>6, <1>7, <1>8, <1>10, ScanBody
<1>12. Sound(q, {})
  BY <1>8, <1>11, GroupsSame DEF Sound
<1>13. Below(q, i - 1)
  <2> SUFFICES ASSUME NEW j \in Reported(q) PROVE j <= i - 1
    BY DEF Below
  <2>1. j \in Reported(p) /\ j # i /\ j \in Slots
    BY <1>9 DEF Reported
  <2> QED BY <1>0, <1>2, <1>3, <2>1 DEF Slots
<1>14. i - 1 \in -1 .. Size - 1
  BY <1>0, <1>3 DEF Slots
<1> QED BY <1>3, <1>4, <1>8, <1>12, <1>13, <1>14 DEF q, v, i

\* A round with no report left is over.
LEMMA RoundOverSound ==
  ASSUME NEW p, Sound(p, {}), Reported(p) = {}
  PROVE LET q == RoundOver(p)
        IN  Sound(q, {}) /\ \A i \in Slots : ~ q.pfd[i].rev
<1> DEFINE q == RoundOver(p) f == [i \in Slots |-> [p.pfd[i] EXCEPT !.rev = FALSE]]
           g == [v \in Items |-> FALSE]
<1>0. p \in PoolType /\ Body(p) /\ p.owed = {}
  BY DEF Sound, Body, Reports
<1>1. q = [p EXCEPT !.pfd = f, !.fresh = g]
  BY DEF RoundOver
<1>2. /\ f \in [Slots -> Record] /\ g \in [Items -> BOOLEAN]
      /\ \A i \in Slots : f[i].rev = FALSE /\ f[i].fd = p.pfd[i].fd /\ f[i].ev = p.pfd[i].ev
  <2>1. p.pfd \in [Slots -> Record]
    BY <1>0, Fields
  <2> QED BY <2>1, Zenon DEF Record
<1> HIDE DEF q, f, g
<1>3. q \in PoolType
  BY <1>0, <1>1, <1>2, Zenon DEF PoolType
<1>4. /\ q.pfd = f /\ q.owed = p.owed /\ SameGroups(p, q) /\ SameTimers(p, q) /\ q.links = p.links
      /\ q.index = p.index /\ q.count = p.count /\ q.opened = p.opened
  BY <1>0, <1>1 DEF PoolType, SameGroups, SameTimers
<1>5. Reported(q) = {} /\ Reports(q)
  BY <1>0, <1>2, <1>4 DEF Reported, Reports
<1>6. Body(q)
  BY <1>0, <1>2, <1>3, <1>4, <1>5, ScanBody
<1> QED BY <1>2, <1>4, <1>6, GroupsSame DEF Sound, q

\* After a callback.
LEMMA AfterInv ==
  ASSUME NEW q, Sound(q, {}), NEW o \in -1 .. Size - 1, Below(q, o),
         After(q, o), brk = "no", brk' = brk
  PROVE Inv'
<1>1. Deliverable(q, o) = Reported(q)
  BY AllDeliverable
<1>2. CASE Deliverable(q, o) # {}
  <2>1. pool' = q /\ offs' = o
    BY <1>2 DEF After
  <2>2. Below(pool', offs') /\ Reported(pool') # {} /\ Sound(pool', {}) /\ offs' \in -1 .. Size - 1
    BY <1>1, <1>2, <2>1
  <2> QED BY <2>2 DEF Inv
<1>3. CASE Deliverable(q, o) = {}
  <2> DEFINE r == RoundOver(q)
  <2>1. pool' = r /\ offs' = -1
    BY <1>3 DEF After
  <2>2. Sound(r, {}) /\ \A i \in Slots : ~ r.pfd[i].rev
    BY <1>1, <1>3, RoundOverSound, Zenon
  <2> HIDE DEF r
  <2>3. Reported(r) = {}
    BY <2>2 DEF Reported
  <2>4. /\ Sound(pool', {}) /\ Below(pool', offs') /\ offs' \in -1 .. Size - 1
        /\ \A i \in Slots : ~ pool'.pfd[i].rev
    BY <2>1, <2>2, <2>3, SizeNat DEF Below
  <2> QED BY <2>4 DEF Inv
<1> QED BY <1>2, <1>3
\* init_pool
LEMMA NewPoolSound ==
  /\ Sound(NewPool, {}) /\ Reported(NewPool) = {} /\ NewPool.count = 0
  /\ \A i \in Slots : ~ NewPool.pfd[i].rev
<1> DEFINE z == NewPool
<1>0. Size \in Nat /\ Size > 0 /\ NULL \in Refs /\ Slots = Items /\ 0 \in Slots
  BY Sizes DEF Slots
<1>1. z \in PoolType
  <2>1. /\ [i \in Slots |-> i] \in [Slots -> Items]
        /\ [i \in Slots |-> [fd |-> 0, ev |-> "none", rev |-> FALSE]] \in [Slots -> Record]
    BY <1>0 DEF Record, Masks
  <2>2. /\ [u \in Items |-> 0] \in [Items -> Nat] /\ [u \in Items |-> 0] \in [Items -> Slots]
        /\ [u \in Items |-> FALSE] \in [Items -> BOOLEAN] /\ [u \in Items |-> "none"] \in [Items -> Kinds]
        /\ [u \in Items |-> NULL] \in [Items -> Refs] /\ 0 \in 0 .. Size /\ {} \in SUBSET Nat
    BY <1>0 DEF Kinds
  <2> QED BY <1>0, <2>1, <2>2, Zenon DEF NewPool, PoolType
<1>2. /\ \A v \in Items : z.fd[v] = 0 /\ z.tv[v] = 0 /\ z.tvn[v] = NULL /\ z.tvp[v] = NULL
      /\ \A i \in Slots : z.links[i] = i /\ z.pfd[i].rev = FALSE
      /\ z.count = 0 /\ z.opened = 0 /\ z.owed = {} /\ z.start = NULL /\ z.end = NULL
  BY DEF NewPool
<1> HIDE DEF z
<1>3. Arrays(z)
  <2>1. \A i \in Slots : ~ (i < 0)
    BY <1>0 DEF Slots
  <2> QED BY <1>0, <1>2, <2>1 DEF Arrays
<1>4. Watched(z) /\ Timers(z) /\ Groups(z, {}) /\ Armed(z) = {}
  BY <1>2 DEF Watched, Timers, Groups, Armed
<1>5. Linked(z)
  <2>1. \E n \in Nat : \E r \in [Items -> 0 .. n] : \A v \in Items : z.tvp[v] # NULL => r[z.tvp[v]] < r[v]
    <3>1. [v \in Items |-> 0] \in [Items -> 0 .. 0] /\ 0 \in Nat
      OBVIOUS
    <3>2. \A v \in Items : z.tvp[v] = NULL
      BY <1>2
    <3> QED BY <3>1, <3>2, Zenon
  <2> QED BY <1>2, <1>4, <2>1 DEF Linked
<1>6. Reported(z) = {} /\ Reports(z)
  BY <1>2 DEF Reported, Reports
<1> QED BY <1>1, <1>2, <1>3, <1>4, <1>5, <1>6 DEF Body, Sound, z

\* The listening socket is added.
LEMMA InitInv == Init => Inv
<1> SUFFICES ASSUME Init PROVE Inv
  OBVIOUS
<1> DEFINE z == NewPool
<1>1. /\ Body(z) /\ z \in PoolType /\ Groups(z, {}) /\ Reported(z) = {} /\ z.count = 0
      /\ \A i \in Slots : ~ z.pfd[i].rev
  BY NewPoolSound DEF Sound, Body
<1>7. Size \in Nat /\ ~ Full(z)
  <2> HIDE DEF z
  <2> QED BY <1>1, SizeNat DEF Full
<1>8. pool = AddEvent(z, "accept", "in") /\ offs = -1 /\ brk = "no"
  BY DEF Init
<1> HIDE DEF z
<1>9. /\ Body(pool) /\ Joined(z, pool, Newest(pool), "accept")
      /\ \A o \in Int : Below(z, o) => Below(pool, o)
  BY <1>1, <1>7, <1>8, AddEventSound DEF Kinds, Masks
<1>10. Groups(pool, {})
  <2>1. pool \in PoolType
    BY <1>9 DEF Body
  <2> QED BY <1>1, <1>9, <2>1, JoinedGroups, Zenon
<1>11. Below(pool, offs) /\ offs \in -1 .. Size - 1
  BY <1>1, <1>7, <1>8, <1>9 DEF Below
<1>12. \A i \in Slots : ~ pool.pfd[i].rev
  <2>1. Added(z, pool, z.links[z.count], "accept", "in")
    BY <1>1, <1>7, <1>8, AddEventAdds DEF Kinds, Masks
  <2>2. pool.pfd = [z.pfd EXCEPT ![z.count] = [fd |-> z.opened + 1, ev |-> "in", rev |-> FALSE]]
    BY <2>1 DEF Added
  <2>3. z.pfd \in [Slots -> Record]
    BY <1>1, Fields
  <2> QED BY <1>1, <2>2, <2>3
<1> QED BY <1>8, <1>9, <1>10, <1>11, <1>12 DEF Inv, Sound

\* poll
LEMMA PollInv ==
  ASSUME Inv, Poll PROVE Inv'
<1>0. /\ Body(pool) /\ pool \in PoolType /\ Groups(pool, {}) /\ Below(pool, offs)
      /\ offs \in -1 .. Size - 1 /\ brk = "no"
  BY DEF Inv, Sound, Body, Poll
<1>1. \A i \in Slots : ~ pool.pfd[i].rev
  <2>1. Reported(pool) = {}
    BY <1>0, AllDeliverable DEF Poll
  <2> QED BY <1>0, <2>1 DEF Inv
<1>2. PICK rep \in SUBSET (0 .. pool.count - 1) :
        /\ Cardinality(rep) \in 1 .. MaxReported
        /\ pool' = [pool EXCEPT
               !.pfd = [i \in Slots |-> IF i < pool.count THEN [pool.pfd[i] EXCEPT !.rev = i \in rep]
                                                          ELSE pool.pfd[i]],
               !.fresh = [v \in Items |-> FALSE],
               !.owed = {pool.pfd[i].fd : i \in rep}]
  BY DEF Poll
<1>3. offs' = pool.count - 1 /\ brk' = brk
  BY DEF Poll
<1>4. rep # {}
  BY <1>2, FS_EmptySet
<1> DEFINE f == [i \in Slots |-> IF i < pool.count THEN [pool.pfd[i] EXCEPT !.rev = i \in rep]
                                                   ELSE pool.pfd[i]]
           g == [v \in Items |-> FALSE] w == {pool.pfd[i].fd : i \in rep} q == pool'
<1>5. /\ pool.pfd \in [Slots -> Record] /\ pool.count \in Nat /\ pool.count <= Size /\ Size \in Nat
      /\ pool.links \in [Slots -> Items]
  BY <1>0, Fields, SizeNat
<1>6. rep \subseteq Slots /\ \A i \in rep : i < pool.count /\ i <= pool.count - 1
  BY <1>5 DEF Slots
<1>7. /\ f \in [Slots -> Record] /\ g \in [Items -> BOOLEAN] /\ w \in SUBSET Nat
      /\ \A i \in Slots : f[i].fd = pool.pfd[i].fd /\ f[i].ev = pool.pfd[i].ev
  <2>1. /\ \A i \in Slots : f[i] \in Record /\ f[i].fd = pool.pfd[i].fd /\ f[i].ev = pool.pfd[i].ev
        /\ f = [i \in Slots |-> f[i]]
    <3>1. ASSUME NEW i \in Slots
          PROVE f[i] \in Record /\ f[i].fd = pool.pfd[i].fd /\ f[i].ev = pool.pfd[i].ev
      <4>1. pool.pfd[i] \in Record /\ (i \in rep) \in BOOLEAN
        BY <1>5
      <4>2. f[i] = IF i < pool.count THEN [pool.pfd[i] EXCEPT !.rev = i \in rep] ELSE pool.pfd[i]
        OBVIOUS
      <4> HIDE DEF f
      <4> QED BY <4>1, <4>2, Zenon DEF Record
    <3> QED BY <3>1
  <2>2. f \in [Slots -> Record]
    <3> HIDE DEF f
    <3> QED BY <2>1
  <2>3. \A i \in rep : pool.pfd[i].fd \in Nat
    BY <1>5, <1>6 DEF Record
  <2>4. w \in SUBSET Nat /\ g \in [Items -> BOOLEAN]
    BY <2>3, Zenon
  <2> QED BY <2>1, <2>2, <2>4
<1>8. \A i \in Slots : f[i].rev <=> i \in rep
  BY <1>1, <1>5, <1>6, Zenon DEF Record
<1>9. q = [pool EXCEPT !.pfd = f, !.fresh = g, !.owed = w]
  BY <1>2
<1>g. \A v \in Items : g[v] = FALSE
  OBVIOUS
<1>w. w = {pool.pfd[i].fd : i \in rep}
  OBVIOUS
<1> HIDE DEF f, g, w, q
<1>10. q \in PoolType
  BY <1>0, <1>7, <1>9, Zenon DEF PoolType
<1>11. /\ q.pfd = f /\ q.fresh = g /\ q.owed = w /\ SameGroups(pool, q) /\ SameTimers(pool, q)
       /\ q.links = pool.links /\ q.index = pool.index /\ q.count = pool.count
       /\ q.opened = pool.opened
  BY <1>0, <1>9 DEF PoolType, SameGroups, SameTimers
<1>12. Reported(q) = rep
  BY <1>5, <1>6, <1>8, <1>11, <1>g, Zenon DEF Reported
<1>13. Reports(q)
  <2>1. \A i \in rep : q.pfd[i].fd = pool.pfd[i].fd /\ i < q.count
    BY <1>6, <1>7, <1>11
  <2>2. q.owed = {pool.pfd[i].fd : i \in rep}
    BY <1>11, <1>w
  <2> QED BY <1>12, <2>1, <2>2, Zenon DEF Reports
<1>14. Sound(q, {})
  BY <1>0, <1>7, <1>10, <1>11, <1>13, ScanBody, GroupsSame DEF Sound
<1>15. Below(q, offs') /\ offs' \in -1 .. Size - 1
  <2>1. \A i \in Reported(q) : i <= offs'
    BY <1>3, <1>6, <1>12, Zenon
  <2>2. offs' \in -1 .. Size - 1
    BY <1>3, <1>5
  <2> QED BY <2>1, <2>2 DEF Below
<1> QED BY <1>0, <1>3, <1>4, <1>12, <1>14, <1>15, Zenon DEF Inv, q

\* The scan, with the callback it runs.
LEMMA ServeNextInv ==
  ASSUME Inv, ServeNext PROVE Inv'
<1>0. /\ Sound(pool, {}) /\ Below(pool, offs) /\ offs \in -1 .. Size - 1 /\ brk = "no"
      /\ Deliverable(pool, offs) # {}
  BY DEF Inv, ServeNext
<1> DEFINE i == Max(Deliverable(pool, offs)) v == pool.links[i] p == Taken(pool, i)
<1>1. /\ i \in Slots /\ i - 1 \in -1 .. Size - 1 /\ v \in Items /\ pool.fd[v] # 0
      /\ Sound(p, {}) /\ SameGroups(pool, p) /\ Below(p, i - 1)
  BY <1>0, TakenSound
<1>2. \/ (\E q \in Outcomes(p, v, FALSE) : After(q, i - 1)) /\ brk' = brk
      \/ pool' = DelEvent(p, v) /\ offs' = i - 1 /\ brk' = "set"
  BY Zenon DEF ServeNext
<1> HIDE DEF i, v, p
<1>3. p.fd[v] # 0 /\ i - 1 \in Int
  BY <1>1, SizeNat DEF SameGroups, Slots
<1>4. ASSUME NEW q \in Outcomes(p, v, FALSE), After(q, i - 1), brk' = brk PROVE Inv'
  <2>1. Good(p, q)
    BY <1>1, <1>3, OutcomesGood, Zenon
  <2>2. Sound(q, {}) /\ Below(q, i - 1)
    BY <1>1, <1>3, <2>1 DEF Good
  <2> QED BY <1>0, <1>1, <1>4, <2>2, AfterInv
<1>5. CASE pool' = DelEvent(p, v) /\ offs' = i - 1 /\ brk' = "set"
  <2>1. Good(p, DelEvent(p, v))
    BY <1>1, DelEventGood
  <2>2. Sound(pool', {}) /\ Below(pool', offs')
    BY <1>1, <1>3, <1>5, <2>1 DEF Good
  <2> QED BY <1>1, <1>5, <2>2 DEF Inv
<1> QED BY <1>2, <1>4, <1>5, Zenon

\* The earliest timer is one of an open remote.
LEMMA ServeTimerInv ==
  ASSUME Inv, ServeTimer PROVE Inv'
<1> DEFINE v == pool.start p == RemoveTimer(pool, v)
<1>0. /\ Sound(pool, {}) /\ Body(pool) /\ Below(pool, offs) /\ offs \in -1 .. Size - 1 /\ brk = "no"
      /\ v # NULL /\ brk' = brk
  BY DEF Inv, ServeTimer, Sound
<1>1. v \in Items /\ pool.fd[v] # 0 /\ pool.kind[v] = "tunnel" /\ pool.conn[v]
  BY <1>0 DEF Body, Linked, Timers, Armed
<1>2. Calm(pool, p)
  BY <1>0, <1>1, RemoveTimerCalm
<1>3. PICK q \in Outcomes(p, v, TRUE) : After(q, offs)
  BY Zenon DEF ServeTimer
<1> HIDE DEF v, p
<1>4. Sound(p, {}) /\ p.fd[v] # 0 /\ p.kind[v] = "tunnel" /\ p.conn[v]
  BY <1>1, <1>2 DEF Calm, Good, SameGroups
<1>5. Good(p, q)
  BY <1>1, <1>4, OutcomesGood, Zenon
<1>6. offs \in Int
  BY <1>0, SizeNat
<1>7. Sound(q, {}) /\ Below(q, offs)
  BY <1>0, <1>2, <1>5, <1>6 DEF Calm, Good
<1> QED BY <1>0, <1>3, <1>7, AfterInv
-----------------------------------------------------------------------------
(* destroy_pool                                                            *)

\* f is the run of destroy_pool's loop.
AllRun(f, p, n) == f[0] = p /\ \A k \in 0 .. n - 1 : f[k + 1] = DelFirst(f[k])

\* The recursive function in DelAll exists, and has the values it states.
LEMMA DelAllRuns ==
  ASSUME NEW p
  PROVE \E f : AllRun(f, p, Size) /\ DelAll(p) = f[Size]
<1> DEFINE Is(f, n) == f = [k \in 0 .. n |-> IF k = 0 THEN p ELSE DelFirst(f[k - 1])]
           K == {n \in Nat : \E f : Is(f, n)}
<1>0. Size \in Nat
  BY SizeNat
<1>1. 0 \in K
  <2> DEFINE g == [k \in 0 .. 0 |-> p]
  <2>1. \A k \in 0 .. 0 : k = 0
    OBVIOUS
  <2>2. g = [k \in 0 .. 0 |-> IF k = 0 THEN p ELSE DelFirst(g[k - 1])]
    BY <2>1
  <2> QED BY <2>2, Zenon
<1>2. ASSUME NEW n \in Nat, n \in K PROVE n + 1 \in K
  <2>1. PICK f : Is(f, n)
    BY <1>2
  <2> DEFINE g == [k \in 0 .. n + 1 |-> IF k = n + 1 THEN DelFirst(f[n]) ELSE f[k]]
  <2>2. ASSUME NEW k \in 0 .. n + 1 PROVE g[k] = IF k = 0 THEN p ELSE DelFirst(g[k - 1])
    <3>1. CASE k = n + 1
      <4>1. g[k] = DelFirst(f[n]) /\ g[n] = f[n] /\ k - 1 = n /\ k # 0
        BY <3>1
      <4> HIDE DEF g
      <4> QED BY <4>1
    <3>2. CASE k # n + 1
      <4>1. k \in 0 .. n /\ (k # 0 => k - 1 \in 0 .. n /\ k - 1 \in 0 .. n + 1 /\ k - 1 # n + 1)
        BY <3>2
      <4>2. g[k] = f[k] /\ (k # 0 => g[k - 1] = f[k - 1])
        BY <3>2, <4>1
      <4>3. f[k] = IF k = 0 THEN p ELSE DelFirst(f[k - 1])
        BY <2>1, <4>1
      <4> HIDE DEF g
      <4> QED BY <4>2, <4>3
    <3> QED BY <3>1, <3>2
  <2>3. Is(g, n + 1)
    <3>1. g = [k \in 0 .. n + 1 |-> g[k]]
      OBVIOUS
    <3> HIDE DEF g
    <3> QED BY <2>2, <3>1, Zenon
  <2> HIDE DEF g, Is
  <2> QED BY <2>3
<1>3. Size \in K
  <2> HIDE DEF K
  <2> QED BY <1>0, <1>1, <1>2, SetInduction
<1> DEFINE del == CHOOSE f : f = [k \in 0 .. Size |-> IF k = 0 THEN p ELSE DelFirst(f[k - 1])]
<1>4. del = [k \in 0 .. Size |-> IF k = 0 THEN p ELSE DelFirst(del[k - 1])]
  BY <1>3, Zenon
<1>5. DelAll(p) = del[Size]
  BY DEF DelAll
<1> HIDE DEF del
<1>6. AllRun(del, p, Size)
  <2>1. del[0] = p
    BY <1>0, <1>4
  <2>2. ASSUME NEW k \in 0 .. Size - 1 PROVE del[k + 1] = DelFirst(del[k])
    <3>1. k + 1 \in 0 .. Size /\ k + 1 # 0 /\ (k + 1) - 1 = k
      BY <1>0
    <3> QED BY <1>4, <3>1
  <2> QED BY <2>1, <2>2 DEF AllRun
<1> QED BY <1>5, <1>6

\* Each turn closes at least one connection.
LEMMA DelFirstSound ==
  ASSUME NEW p, Sound(p, {})
  PROVE LET q == DelFirst(p) IN Sound(q, {}) /\ (q.count < p.count \/ (p.count = 0 /\ q.count = 0))
<1>0. p \in PoolType /\ p.count \in 0 .. Size /\ Size \in Nat
  BY SizeNat, Fields DEF Sound, Body
<1>1. CASE p.count = 0
  BY <1>1 DEF DelFirst
<1>2. CASE p.count # 0
  <2>1. 0 \in Slots /\ 0 < p.count
    BY <1>0, <1>2 DEF Slots
  <2>a. Arrays(p) /\ p \in PoolType
    BY <1>0 DEF Sound, Body
  <2>2. p.links[0] \in Items /\ p.fd[p.links[0]] # 0
    BY <2>a, <2>1, Fields DEF Arrays
  <2>3. Ready(p, p.links[0]) /\ Alive(p, p.links[0])
    BY <2>2, Sizes DEF Ready, Sound, Refs, Alive
  <2>4. LET q == DelEvent(p, p.links[0]) IN Sound(q, {}) /\ q.count < p.count
    BY <2>3, DelEventSound
  <2> QED BY <1>2, <2>4 DEF DelFirst
<1> QED BY <1>1, <1>2

\* The loop of destroy_pool leaves no connection open, whatever is tied to
\* what.
LEMMA DelAllEmpties ==
  ASSUME NEW p, Sound(p, {})
  PROVE DelAll(p).count = 0
<1>0. Size \in Nat
  BY SizeNat
<1>f. PICK f : AllRun(f, p, Size) /\ DelAll(p) = f[Size]
  BY DelAllRuns
<1> DEFINE K == {k \in Nat : k <= Size => Sound(f[k], {}) /\ f[k].count <= Size - k}
<1>c. \A q : Sound(q, {}) => q.count \in 0 .. Size
  BY Fields DEF Sound, Body
<1>1. 0 \in K
  BY <1>0, <1>c, <1>f DEF AllRun
<1>2. ASSUME NEW k \in Nat, k \in K PROVE k + 1 \in K
  <2> SUFFICES ASSUME k + 1 <= Size PROVE Sound(f[k + 1], {}) /\ f[k + 1].count <= Size - (k + 1)
    OBVIOUS
  <2> DEFINE d == f[k] x == f[k + 1]
  <2>1. Sound(d, {}) /\ d.count <= Size - k /\ x = DelFirst(d)
    BY <1>0, <1>2, <1>f DEF AllRun
  <2>2. Sound(x, {}) /\ (x.count < d.count \/ (d.count = 0 /\ x.count = 0))
    BY <2>1, DelFirstSound
  <2> HIDE DEF d, x
  <2>3. x.count <= Size - (k + 1)
    BY <1>0, <1>c, <2>1, <2>2
  <2> QED BY <2>2, <2>3 DEF x
<1>3. Size \in K
  <2> HIDE DEF K
  <2> QED BY <1>0, <1>1, <1>2, SetInduction
<1>4. Sound(f[Size], {}) /\ f[Size].count <= 0
  BY <1>0, <1>3
<1>5. f[Size].count \in 0 .. Size
  BY <1>4, <1>c
<1> QED BY <1>0, <1>f, <1>4, <1>5

\* destroy_pool.
LEMMA DestroyPoolInv ==
  ASSUME Inv, DestroyPool PROVE Inv'
<1>1. DelAll(pool).count = 0
  BY DelAllEmpties DEF Inv
<1>2. pool' = [NewPool EXCEPT !.count = 0] /\ brk' = "gone" /\ offs' = -1
  BY <1>1 DEF DestroyPool
<1>3. pool' = NewPool
  BY <1>2 DEF NewPool
<1>4. Sound(pool', {}) /\ Reported(pool') = {}
  BY <1>3, NewPoolSound
<1>5. Below(pool', offs') /\ offs' \in -1 .. Size - 1
  BY <1>2, <1>4, SizeNat DEF Below
<1> QED BY <1>2, <1>4, <1>5 DEF Inv

-----------------------------------------------------------------------------
(* Theorems.                                                               *)

\* Inv is inductive: init_pool establishes it, and poll, the scan with every
\* outcome of every callback, the timers and destroy_pool keep it.
THEOREM PoolInv == Spec => []Inv
<1>1. Inv /\ [Next]_vars => Inv'
  <2> SUFFICES ASSUME Inv, [Next]_vars PROVE Inv'
    OBVIOUS
  <2>1. CASE UNCHANGED vars
    BY <2>1 DEF Inv, vars
  <2> QED BY <2>1, PollInv, ServeNextInv, ServeTimerInv, DestroyPoolInv DEF Next
<1> QED BY <1>1, InitInv, PTL DEF Spec

\* For a pool of any size, links, index and pfd describe the same connections
\* after every callback: the asserts of del_event, mod_etype and next_event
\* hold.
THEOREM ArraysAgree == Spec => []PoolConsistent
<1>1. Inv => PoolConsistent
  <2> SUFFICES ASSUME Inv PROVE PoolConsistent
    OBVIOUS
  <2>a. Body(pool) /\ offs \in -1 .. Size - 1
    BY DEF Inv, Sound
  <2>b. pool \in PoolType /\ Arrays(pool) /\ Reports(pool)
    BY <2>a DEF Body
  <2>c. pool.links \in [Slots -> Items] /\ pool.count \in 0 .. Size /\ Size \in Nat
    BY <2>b, SizeNat, Fields
  <2>0. /\ Body(pool) /\ pool \in PoolType /\ Arrays(pool) /\ Reports(pool) /\ Size \in Nat
        /\ pool.links \in [Slots -> Items] /\ pool.count \in Nat /\ pool.count <= Size
        /\ offs \in -1 .. Size - 1
    BY <2>a, <2>b, <2>c
  <2>1. {pool.links[i] : i \in Slots} = Items
    BY <2>0 DEF Arrays
  <2>2. 0 .. pool.count - 1 = {i \in Slots : i < pool.count} /\ 0 .. offs \subseteq Slots
    BY <2>0 DEF Slots
  <2>3. Live = {pool.links[i] : i \in {j \in Slots : j < pool.count}}
    <3>1. ASSUME NEW v \in Live PROVE \E i \in Slots : i < pool.count /\ pool.links[i] = v
      BY <2>0, LiveSlot DEF Live
    <3>2. ASSUME NEW i \in Slots, i < pool.count PROVE pool.links[i] \in Live
      BY <2>0, <3>2 DEF Arrays, Live
    <3> QED BY <3>1, <3>2 DEF Live
  <2>4. \A v \in Live : /\ pool.links[pool.index[v]] = v
                        /\ pool.pfd[pool.index[v]].fd = pool.fd[v]
    BY <2>0, LiveSlot DEF Live
  <2>5. \A i \in 0 .. offs : pool.pfd[i].rev => i < pool.count \/ pool.fresh[pool.links[i]]
    BY <2>0, <2>2 DEF Reports, Reported
  <2> QED BY <2>1, <2>2, <2>3, <2>4, <2>5 DEF PoolConsistent
<1> QED BY <1>1, PoolInv, PTL

\* The reports the scan will deliver are exactly those poll gave for
\* connections that are open and not served yet, however many connections the
\* callbacks close, open and move meanwhile.
THEOREM NoReportStrays == Spec => []ReportsIntact
<1>1. Inv => ReportsIntact
  <2> SUFFICES ASSUME Inv PROVE {pool.pfd[i].fd : i \in Deliverable(pool, offs)} = pool.owed
    BY DEF ReportsIntact
  <2>1. Deliverable(pool, offs) = Reported(pool)
    BY AllDeliverable DEF Inv
  <2>2. Reports(pool)
    BY DEF Inv, Sound, Body
  <2> QED BY <2>1, <2>2 DEF Reports
<1> QED BY <1>1, PoolInv, PTL

\* Tunnels and UDP associations open and close as a whole.
THEOREM NoTieToClosed == Spec => []GroupsWhole
<1>1. Inv => GroupsWhole
  <2> SUFFICES ASSUME Inv, NEW v \in Live
               PROVE /\ pool.kind[v] \in {"waiting", "connecting", "tunnel", "udp"} =>
                           /\ Alive(pool, pool.pair[v])
                           /\ LET w == pool.pair[pool.pair[v]]
                              IN  w = v \/ (Alive(pool, w) /\ pool.pair[w] = v)
                     /\ pool.kind[v] \in {"accept", "request"} => pool.pair[v] = NULL
    BY DEF GroupsWhole
  <2>1. Whole(pool, v)
    BY DEF Inv, Sound, Groups, Live
  <2> QED BY <2>1 DEF Whole, Tied, Ring
<1> QED BY <1>1, PoolInv, PTL

\* The list that next_event_tv reads the earliest deadline from is sorted and
\* linked both ways, and no closed connection is on it.
THEOREM TimerListSorted == Spec => []TimersSorted
<1>1. Inv => TimersSorted
  <2> SUFFICES ASSUME Inv PROVE TimersSorted
    OBVIOUS
  <2>1. Linked(pool) /\ Timers(pool)
    BY DEF Inv, Sound, Body
  <2> QED BY <2>1 DEF TimersSorted, Linked, Timers, Armed, Live
<1> QED BY <1>1, PoolInv, PTL

\* on_connect will hear of every connection that is being made.
THEOREM ConnectIsHeard == Spec => []ConnectingWatched
<1>1. Inv => ConnectingWatched
  BY DEF Inv, Sound, Body, Watched, ConnectingWatched, Live
<1> QED BY <1>1, PoolInv, PTL
=============================================================================
