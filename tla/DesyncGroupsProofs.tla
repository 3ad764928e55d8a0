------------------------- MODULE DesyncGroupsProofs -------------------------
(***************************************************************************)
(* The command line always leaves a group (parse_args), the groups are a   *)
(* doubly linked list however they are sorted (swop_groups), and no group  *)
(* that is ruled out is chosen (find_dp).                                  *)
(***************************************************************************)
EXTENDS DesyncGroups, TLAPS, WellFoundedInduction, FiniteSetTheorems, SequenceTheorems

-----------------------------------------------------------------------------
(* Numbers *)

\* Every non-empty set of natural numbers has a least element.
LEMMA LeastOf == \A T \in SUBSET Nat : T /= {} => \E x \in T : \A y \in T : x <= y
<1> SUFFICES ASSUME NEW T \in SUBSET Nat, T /= {} PROVE \E x \in T : \A y \in T : x <= y
  OBVIOUS
<1>1. PICK x \in T : \A y \in T : <<y, x>> \notin OpToRel(<, Nat)
  BY NatLessThanWellFounded, WFMin
<1>2. \A y \in T : x <= y
  <2> SUFFICES ASSUME NEW y \in T PROVE x <= y
    OBVIOUS
  <2>1. ~(y < x)
    BY <1>1 DEF OpToRel
  <2> QED BY <2>1
<1> QED BY <1>2

\* A set with 0 and the successor of each of its members holds every natural number.
LEMMA Inductive ==
  ASSUME NEW S, 0 \in S, \A k \in Nat : k \in S => k + 1 \in S
  PROVE  \A k \in Nat : k \in S
<1> DEFINE T == Nat \ S
<1> SUFFICES ASSUME T /= {} PROVE FALSE
  OBVIOUS
<1>1. PICK x \in T : \A y \in T : x <= y
  BY LeastOf
<1>2. x - 1 \in Nat /\ x - 1 \notin T
  BY <1>1
<1> QED BY <1>2

\* Max returns the greatest of a set of indexes.
LEMMA MaxIn ==
  ASSUME NEW k \in Nat, NEW T \in SUBSET (1..k), T /= {}
  PROVE  Max(T) \in T /\ \A i \in T : i <= Max(T)
<1> DEFINE U == {k - i : i \in T}
<1>1. U \in SUBSET Nat /\ U /= {}
  <2>1. \A i \in T : i \in Int /\ k - i \in Nat
    OBVIOUS
  <2> QED BY <2>1
<1>2. PICK x \in U : \A y \in U : x <= y
  <2> HIDE DEF U
  <2> QED BY <1>1, LeastOf
<1>3. PICK m \in T : x = k - m
  BY <1>2
<1>4. ASSUME NEW i \in T PROVE m >= i
  <2>1. k - m <= k - i
    BY <1>2, <1>3
  <2>2. i \in Int /\ m \in Int
    OBVIOUS
  <2> QED BY <2>1, <2>2
<1>5. \E y \in T : \A i \in T : y >= i
  BY <1>4
<1>6. Max(T) \in T /\ \A i \in T : Max(T) >= i
  BY <1>5 DEF Max
<1>7. ASSUME NEW i \in T PROVE i <= Max(T)
  <2>1. i \in 1..k /\ Max(T) \in 1..k /\ Max(T) >= i
    BY <1>6
  <2> QED BY <2>1
<1> QED BY <1>6, <1>7

\* The least index of a non-empty set of natural numbers is in the set.
LEMMA LeastIn == \A T \in SUBSET Nat : T /= {} => Least(T) \in T
<1> SUFFICES ASSUME NEW T \in SUBSET Nat, T /= {} PROVE Least(T) \in T
  OBVIOUS
<1>1. \E x \in T : \A y \in T : x <= y
  BY LeastOf
<1> QED BY <1>1 DEF Least

-----------------------------------------------------------------------------
(* The command line *)

\* What a connection, a request and the cache are matched with.
Fields == {"detect", "level", "proto", "hosts", "ipset", "pf", "file"}

\* A group with these; its file is one, or none.
Group(g) == Fields \subseteq DOMAIN g /\ (g.file = None \/ \E f : g.file = Some(f))

\* A list of groups, not empty.
GroupList(gs) ==
  /\ gs /= <<>> /\ \E S : gs \in Seq(S)
  /\ \A k \in 1..Len(gs) : Group(gs[k])

\* One of the first n groups takes whatever comes.
OpenBefore(gs, n) == \E k \in 1..n : Unlimited(gs[k])

\* The options read so far: the parameters hold at least one group, and one
\* that takes whatever comes was closed, unless they are noted as limited.
HasGroups(q) ==
  /\ {"groups", "limited"} \subseteq DOMAIN q /\ GroupList(q.groups)
  /\ q.limited \/ OpenBefore(q.groups, Len(q.groups) - 1)

\* What leaves the groups alone leaves at least one.
LEMMA HasSame ==
  \A q, r : HasGroups(q) /\ DOMAIN r = DOMAIN q /\ r.groups = q.groups /\ r.limited = q.limited
              => HasGroups(r)
BY DEF HasGroups

\* A group that is replaced is still a group.
LEMMA CurrentKeeps ==
  ASSUME NEW q, HasGroups(q), NEW g, Group(g)
  PROVE  LET r == WithCurrent(q, g)
         IN /\ HasGroups(r) /\ DOMAIN r = DOMAIN q /\ r.limited = q.limited
            /\ Len(r.groups) = Len(q.groups) /\ r.groups[Len(q.groups)] = g
<1>1. PICK S : q.groups \in Seq(S)
  BY DEF HasGroups, GroupList
<1> DEFINE T == S \cup {g}
           n == Len(q.groups)
           gs == [q.groups EXCEPT ![n] = g]
           r == WithCurrent(q, g)
<1>2. q.groups \in Seq(T) /\ n \in 1..n /\ g \in T /\ n \in Nat
  <2>1. S \subseteq T /\ g \in T
    OBVIOUS
  <2>2. n \in Nat /\ n /= 0
    BY <1>1 DEF HasGroups, GroupList
  <2> HIDE DEF T
  <2> QED BY <1>1, <2>1, <2>2
<1> HIDE DEF T
<1>3. /\ gs \in Seq(T) /\ Len(gs) = n
      /\ \A k \in 1..n : gs[k] = IF k = n THEN g ELSE q.groups[k]
  BY <1>2
<1>4. gs /= <<>>
  BY <1>2, <1>3
<1>5. r.groups = gs /\ DOMAIN r = DOMAIN q /\ r.limited = q.limited
  BY DEF WithCurrent, HasGroups
<1> HIDE DEF r, gs, n
<1>6. GroupList(gs)
  BY <1>3, <1>4 DEF HasGroups, GroupList, n
<1>7. OpenBefore(q.groups, n - 1) => OpenBefore(gs, n - 1)
  <2>1. \A k \in 1..(n - 1) : gs[k] = q.groups[k]
    BY <1>2, <1>3
  <2> QED BY <2>1 DEF OpenBefore
<1>8. HasGroups(r)
  BY <1>3, <1>5, <1>6, <1>7 DEF HasGroups, n
<1> QED BY <1>2, <1>3, <1>5, <1>8 DEF r, n

\* A refused option changes no group.
LEMMA RefuseKeeps == ASSUME NEW q, HasGroups(q) PROVE HasGroups(Refuse(q))
BY HasSame DEF Refuse, HasGroups

\* -p, -I, -b and -c set no field of a group.
LEMMA ListenKeeps == ASSUME NEW q, HasGroups(q), NEW a PROVE HasGroups(ListenOption(q, a))
<1> DEFINE Set(x) == DOMAIN x = DOMAIN q /\ x.groups = q.groups /\ x.limited = q.limited
           port == [q EXCEPT !.port = a.v]
           bind == [q EXCEPT !.bind = a.v]
           size == [q EXCEPT !.bfsize = a.v]
           most == [q EXCEPT !.maxOpen = a.v]
<1>1. HasGroups(port) /\ HasGroups(bind) /\ HasGroups(size) /\ HasGroups(most)
  <2>1. Set(port) /\ Set(bind) /\ Set(size) /\ Set(most)
    BY DEF HasGroups
  <2> HIDE DEF port, bind, size, most
  <2> QED BY <2>1, HasSame
<1>2. \A v, n, x : HasGroups(x) => HasGroups(Within(q, v, n, x))
  BY RefuseKeeps DEF Within
<1>3. ListenOption(q, a) =
        CASE a.o = "p" -> Within(q, a.v, 65535, port)
          [] a.o = "I" -> bind
          [] a.o = "b" -> Within(q, a.v, 536870911, size)
          [] a.o = "c" -> Within(q, a.v, 32766, most)
          [] OTHER     -> q
  BY DEF ListenOption
<1> HIDE DEF port, bind, size, most
<1> QED BY <1>1, <1>2, <1>3

\* -N, -X, -U, -i and -F set no field of a group.
LEMMA ServeKeeps ==
  ASSUME NEW q, HasGroups(q), NEW a, a.o \in {"N", "X", "U", "i", "F"}
  PROVE  HasGroups(ServeOption(q, a))
<1> DEFINE r == ServeOption(q, a)
<1>1. DOMAIN r = DOMAIN q /\ r.groups = q.groups /\ r.limited = q.limited
  BY DEF ServeOption, HasGroups
<1> HIDE DEF r
<1>2. HasGroups(r)
  BY <1>1, HasSame
<1> QED BY <1>2 DEF r

\* So do -g, -Z and -W,
LEMMA SendKeeps ==
  ASSUME NEW q, HasGroups(q), NEW a, a.o \in {"g", "Z", "W"} PROVE HasGroups(SendOption(q, a))
<1> DEFINE r == SendOption(q, a)
<1>1. r = Refuse(q) \/ (DOMAIN r = DOMAIN q /\ r.groups = q.groups /\ r.limited = q.limited)
  <2>1. CASE a.o = "g"
    BY <2>1 DEF SendOption, Within, HasGroups
  <2>2. CASE a.o \in {"Z", "W"}
    BY <2>2 DEF SendOption, HasGroups
  <2> QED BY <2>1, <2>2
<1> HIDE DEF r
<1>2. HasGroups(r)
  BY <1>1, RefuseKeeps, HasSame
<1> QED BY <1>2 DEF r

\* and -T and -/.
LEMMA TimeoutKeeps == ASSUME NEW q, HasGroups(q), NEW a PROVE HasGroups(TimeoutOption(q, a))
<1> DEFINE r == TimeoutOption(q, a)
<1>1. r = Refuse(q) \/ (DOMAIN r = DOMAIN q /\ r.groups = q.groups /\ r.limited = q.limited)
  BY DEF TimeoutOption, HasGroups
<1> HIDE DEF r
<1>2. HasGroups(r)
  BY <1>1, RefuseKeeps, HasSame
<1> QED BY <1>2 DEF r

\* A group that is added makes one more.
LEMMA AppendKeeps ==
  ASSUME NEW gs, GroupList(gs), NEW g, Group(g)
  PROVE  LET all == Append(gs, g)
         IN /\ GroupList(all) /\ Len(all) = Len(gs) + 1 /\ all[Len(all)] = g
            /\ \A k \in 1..Len(gs) : all[k] = gs[k]
<1>1. PICK S : gs \in Seq(S)
  BY DEF GroupList
<1> DEFINE T == S \cup {g}
           n == Len(gs)
           all == Append(gs, g)
<1>2. gs \in Seq(T) /\ g \in T /\ n \in Nat
  <2>1. S \subseteq T
    OBVIOUS
  <2> HIDE DEF T
  <2> QED BY <1>1, <2>1 DEF T
<1> HIDE DEF T
<1>3. /\ all \in Seq(T) /\ Len(all) = n + 1 /\ all[n + 1] = g
      /\ \A k \in 1..n : all[k] = gs[k]
  BY <1>2
<1>4. all /= <<>>
  BY <1>2, <1>3
<1>5. \A k \in 1..(n + 1) : k = n + 1 \/ k \in 1..n
  BY <1>2
<1> HIDE DEF all
<1>6. GroupList(all)
  BY <1>3, <1>4, <1>5 DEF GroupList, n
<1> QED BY <1>3, <1>6 DEF n, all

\* The current group is a group.
LEMMA CurrentGroup == ASSUME NEW q, HasGroups(q) PROVE Group(Current(q))
<1>1. Len(q.groups) \in Nat \ {0}
  BY DEF HasGroups, GroupList
<1>2. Len(q.groups) \in 1..Len(q.groups)
  BY <1>1
<1> QED BY <1>2 DEF HasGroups, GroupList, Current

\* -A closes the current group and opens the next one.
LEMMA AutoKeeps == ASSUME NEW q, HasGroups(q), NEW a PROVE HasGroups(AutoOption(q, a))
<1> DEFINE cur == Current(q)
           n == Len(q.groups)
           closed == IF a.v.pri = None THEN cur ELSE [cur EXCEPT !.pri = a.v.pri[1]]
           w == WithCurrent(q, closed)
           next == [EmptyGroup EXCEPT !.detect = a.v.detect]
           r == [w EXCEPT !.limited = @ /\ ~Unlimited(cur), !.groups = Append(@, next),
                          !.auto = @ \/ a.v.detect /= {}]
<1>1. AutoOption(q, a) = r
  BY DEF AutoOption
<1>2. n \in Nat \ {0} /\ Group(cur)
  BY CurrentGroup DEF HasGroups, GroupList
<1> HIDE DEF cur, n
<1>3. Group(closed) /\ (Unlimited(cur) => Unlimited(closed))
  BY <1>2 DEF Group, Fields, Unlimited
<1>4. Group(next)
  BY DEF Group, EmptyGroup, Fields
<1> HIDE DEF closed, next
<1>5. /\ HasGroups(w) /\ DOMAIN w = DOMAIN q /\ w.limited = q.limited
      /\ Len(w.groups) = n /\ w.groups[n] = closed
  BY <1>3, CurrentKeeps DEF n
<1> HIDE DEF w
<1>6. /\ DOMAIN r = DOMAIN w /\ r.groups = Append(w.groups, next)
      /\ ~r.limited => ~w.limited \/ Unlimited(cur)
  BY <1>5 DEF HasGroups
<1> HIDE DEF r
<1>7. /\ GroupList(r.groups) /\ Len(r.groups) = n + 1
      /\ \A k \in 1..n : r.groups[k] = w.groups[k]
  BY <1>4, <1>5, <1>6, AppendKeeps DEF HasGroups
<1>8. ASSUME ~r.limited PROVE OpenBefore(r.groups, n)
  <2>1. n \in 1..n /\ \A k \in 1..(n - 1) : k \in 1..n
    BY <1>2
  <2>2. CASE ~w.limited
    BY <1>5, <1>7, <2>1, <2>2 DEF HasGroups, OpenBefore
  <2>3. CASE Unlimited(cur)
    BY <1>3, <1>5, <1>7, <2>1, <2>3 DEF OpenBefore
  <2> QED BY <1>6, <1>8, <2>2, <2>3
<1>9. HasGroups(r)
  <2>1. Len(r.groups) - 1 = n
    BY <1>2, <1>7
  <2> QED BY <1>5, <1>6, <1>7, <1>8, <2>1 DEF HasGroups
<1> QED BY <1>1, <1>9

\* The options of a group: each of them sets fields of the current group, or is refused.
OfGroup(q, r) ==
  r = Refuse(q) \/ \E g : Group(g) /\ r = WithCurrent(q, g)

\* Setting fields of the current group takes none away.
LEMMA OfGroupKeeps == ASSUME NEW q, HasGroups(q), NEW r, OfGroup(q, r) PROVE HasGroups(r)
BY RefuseKeeps, CurrentKeeps DEF OfGroup

\* A group of which a field is set is one, the file being set to a file.
LEMMA FieldSet ==
  ASSUME NEW q, HasGroups(q), NEW x, NEW v, x = "file" => \E f : v = Some(f)
  PROVE  OfGroup(q, WithCurrent(q, [Current(q) EXCEPT ![x] = v]))
<1> DEFINE cur == Current(q)
           new == [cur EXCEPT ![x] = v]
<1>1. Group(cur)
  BY CurrentGroup
<1>2. DOMAIN new = DOMAIN cur /\ (x /= "file" => new.file = cur.file) /\ (x = "file" => new.file = v)
  <2> HIDE DEF cur
  <2>1. "file" \in DOMAIN cur
    BY <1>1 DEF Group, Fields
  <2> QED BY <2>1
<1> HIDE DEF cur, new
<1>3. Group(new)
  BY <1>1, <1>2 DEF Group
<1> QED BY <1>3 DEF OfGroup, new, cur

\* The options that set fields of the current group.
LEMMA GroupOptions ==
  ASSUME NEW q, HasGroups(q), NEW a
  PROVE  /\ OfGroup(q, LevelOption(q, a)) /\ OfGroup(q, TlsRecOption(q, a))
         /\ OfGroup(q, CacheOption(q, a)) /\ OfGroup(q, LifetimeOption(q, a))
         /\ OfGroup(q, PartOption(q, a)) /\ OfGroup(q, ModOption(q, a))
         /\ OfGroup(q, NumberOption(q, a))
         /\ a.o \in {"K", "H", "j"} => OfGroup(q, FilterOption(q, a))
         /\ a.o \in {"V", "R"} => OfGroup(q, RangeOption(q, a))
         /\ a.o \in {"t", "O", "Q", "n", "l", "e"} => OfGroup(q, FakeOption(q, a))
<1> DEFINE cur == Current(q)
           Set(x, v) == WithCurrent(q, [cur EXCEPT ![x] = v])
<1>1. \A x, v : x /= "file" => OfGroup(q, Set(x, v))
  BY FieldSet
<1>2. OfGroup(q, Refuse(q))
  BY DEF OfGroup
<1>3. LevelOption(q, a) = Refuse(q) \/ \E v : LevelOption(q, a) = Set("level", v)
  BY DEF LevelOption
<1>4. TlsRecOption(q, a) = Refuse(q) \/ \E v : TlsRecOption(q, a) = Set("tlsrec", v)
  <2>1. TlsRecOption(q, a) \in {Refuse(q), Set("tlsrec", Append(cur.tlsrec, ParseOffset(a.v)[1]))}
    BY DEF TlsRecOption
  <2> HIDE DEF Set
  <2> QED BY <2>1
<1>5. OfGroup(q, CacheOption(q, a))
  <2>1. CacheOption(q, a) = Set("file", Some(a.v))
    BY DEF CacheOption
  <2> QED BY <2>1, FieldSet
<1>6. LifetimeOption(q, a) = Refuse(q) \/ \E v : LifetimeOption(q, a) = Set("cacheTtl", v)
  BY DEF LifetimeOption
<1>7. PartOption(q, a) = Refuse(q) \/ \E v : PartOption(q, a) = Set("parts", v)
  BY DEF PartOption
<1>8. \E v : ModOption(q, a) = Set("modHttp", v)
  BY DEF ModOption
<1>9. \/ NumberOption(q, a) = Refuse(q)
      \/ \E v : NumberOption(q, a) = Set("tlsMinor", v) \/ NumberOption(q, a) = Set("udpFakes", v)
  BY DEF NumberOption
<1>10. a.o \in {"K", "H", "j"} => \E x \in {"proto", "hosts", "ipset"} : \E v : FilterOption(q, a) = Set(x, v)
  <2> DEFINE More(set) == Some(IF set = None THEN a.v ELSE set[1] \cup a.v)
             more == cur.proto \cup UNION {ProtoOf(x) : x \in a.v}
  <2>1. a.o = "K" => FilterOption(q, a) = Set("proto", more)
    BY DEF FilterOption
  <2>2. a.o = "H" => FilterOption(q, a) = Set("hosts", More(cur.hosts))
    BY DEF FilterOption
  <2>3. a.o = "j" => FilterOption(q, a) = Set("ipset", More(cur.ipset))
    BY DEF FilterOption
  <2> HIDE DEF More, more, Set
  <2> QED BY <2>1, <2>2, <2>3
<1>11. a.o \in {"V", "R"} => \/ RangeOption(q, a) = Refuse(q)
                            \/ \E x \in {"rounds", "pf"} : \E v : RangeOption(q, a) = Set(x, v)
  <2> DEFINE pf == <<Htons(a.v[1]), Htons(a.v[2])>>
  <2>1. a.o = "R" => RangeOption(q, a) \in {Refuse(q), Set("rounds", a.v)}
    BY DEF RangeOption
  <2>2. a.o = "V" => RangeOption(q, a) \in {Refuse(q), Set("pf", pf)}
    BY DEF RangeOption
  <2> HIDE DEF Set, pf
  <2> QED BY <2>1, <2>2
<1>12. a.o \in {"t", "O", "Q", "n", "l", "e"} => OfGroup(q, FakeOption(q, a))
  <2>1. a.o = "t" => FakeOption(q, a) \in {Refuse(q), Set("ttl", a.v)}
    BY DEF FakeOption, Within
  <2>2. a.o = "O" => FakeOption(q, a) \in {Refuse(q), Set("fakeOffset", ParseOffset(a.v))}
    BY DEF FakeOption
  <2>3. a.o = "n" => FakeOption(q, a) = Set("fakeSni", Append(cur.fakeSni, a.v))
    BY DEF FakeOption
  <2>4. a.o = "l" => \E v : FakeOption(q, a) = Set("fakeData", v)
    BY DEF FakeOption
  <2>5. a.o = "e" => FakeOption(q, a) = Set("oobChar", Some(a.v))
    BY DEF FakeOption
  <2>6. a.o = "Q" => OfGroup(q, FakeOption(q, a))
    <3> DEFINE new == [cur EXCEPT !.fakeMod = @ \cup a.v.mods,
                                  !.fakeTlsSize = IF a.v.size = None THEN @ ELSE a.v.size[1]]
    <3>1. a.o = "Q" => FakeOption(q, a) = WithCurrent(q, new)
      BY DEF FakeOption
    <3>2. Group(cur)
      BY CurrentGroup
    <3> HIDE DEF cur
    <3>3. DOMAIN new = DOMAIN cur /\ new.file = cur.file
      BY <3>2 DEF Group, Fields
    <3> HIDE DEF new
    <3>4. Group(new)
      BY <3>2, <3>3 DEF Group
    <3> QED BY <3>1, <3>4 DEF OfGroup
  <2> HIDE DEF Set
  <2> QED BY <1>1, <1>2, <2>1, <2>2, <2>3, <2>4, <2>5, <2>6
<1> HIDE DEF Set
<1>13. /\ OfGroup(q, LevelOption(q, a)) /\ OfGroup(q, TlsRecOption(q, a))
       /\ OfGroup(q, LifetimeOption(q, a)) /\ OfGroup(q, PartOption(q, a))
       /\ OfGroup(q, ModOption(q, a)) /\ OfGroup(q, NumberOption(q, a))
  BY <1>1, <1>2, <1>3, <1>4, <1>6, <1>7, <1>8, <1>9
<1>14. /\ a.o \in {"K", "H", "j"} => OfGroup(q, FilterOption(q, a))
       /\ a.o \in {"V", "R"} => OfGroup(q, RangeOption(q, a))
  BY <1>1, <1>2, <1>10, <1>11
<1> QED BY <1>5, <1>12, <1>13, <1>14

\* -C sets a field of the group and one of the parameters.
LEMMA OutKeeps == ASSUME NEW q, HasGroups(q), NEW a PROVE HasGroups(OutOption(q, a))
<1> DEFINE g == [Current(q) EXCEPT !.out = Some(a.v)]
           w == WithCurrent(q, g)
           r == [w EXCEPT !.delay = TRUE]
<1>1. OutOption(q, a) = r
  BY DEF OutOption
<1>2. HasGroups(w)
  <2>1. OfGroup(q, w)
    BY FieldSet
  <2> HIDE DEF w
  <2> QED BY <2>1, OfGroupKeeps
<1> HIDE DEF w
<1>3. DOMAIN r = DOMAIN w /\ r.groups = w.groups /\ r.limited = w.limited
  BY <1>2 DEF HasGroups
<1> HIDE DEF r
<1> QED BY <1>1, <1>2, <1>3, HasSame

\* Whatever option is read, at least one group is left.
LEMMA ReadKeeps == ASSUME NEW q, HasGroups(q), NEW a PROVE HasGroups(ReadOption(q, a))
BY ListenKeeps, ServeKeeps, SendKeeps, TimeoutKeeps, AutoKeeps, OutKeeps, GroupOptions,
   OfGroupKeeps DEF ReadOption

\* One turn of the loop of parse_args over the options in t, the last of them read last.
ReadLast(f, args, t) ==
  IF t = {} THEN Defaults ELSE ReadOption(f[t \ {Max(t)}], args[Max(t)])

\* There is a function that reads the options turn by turn.
LEMMA ReadExists ==
  ASSUME NEW args, NEW m \in Nat
  PROVE  \E f : f = [t \in SUBSET (1..m) |-> ReadLast(f, args, t)]
<1> DEFINE S == {k \in Nat : \E f : f = [t \in SUBSET (1..k) |-> ReadLast(f, args, t)]}
<1>1. 0 \in S
  <2> DEFINE f == [t \in SUBSET (1..0) |-> Defaults]
  <2>1. \A t \in SUBSET (1..0) : t = {}
    OBVIOUS
  <2>2. f = [t \in SUBSET (1..0) |-> ReadLast(f, args, t)]
    BY <2>1 DEF ReadLast
  <2> QED BY <2>2
<1>2. ASSUME NEW k \in Nat, k \in S PROVE k + 1 \in S
  <2>1. PICK f : f = [t \in SUBSET (1..k) |-> ReadLast(f, args, t)]
    BY <1>2
  <2> DEFINE g == [t \in SUBSET (1..(k + 1)) |->
                     IF k + 1 \in t THEN ReadOption(f[t \ {k + 1}], args[k + 1]) ELSE f[t]]
  <2>2. ASSUME NEW t \in SUBSET (1..(k + 1)) PROVE g[t] = ReadLast(g, args, t)
    <3>1. CASE k + 1 \in t
      <4>1. Max(t) = k + 1
        <5>0. k + 1 \in Nat /\ t /= {}
          BY <3>1
        <5>1. Max(t) \in t /\ \A i \in t : i <= Max(t)
          BY <5>0, MaxIn
        <5>2. k + 1 <= Max(t) /\ Max(t) \in 1..(k + 1)
          BY <3>1, <5>1
        <5> QED BY <5>2
      <4>2. t \ {k + 1} \in SUBSET (1..(k + 1)) /\ k + 1 \notin t \ {k + 1}
        OBVIOUS
      <4>3. g[t \ {k + 1}] = f[t \ {k + 1}]
        BY <4>2
      <4>4. g[t] = ReadOption(f[t \ {k + 1}], args[k + 1])
        BY <3>1
      <4> HIDE DEF g
      <4> QED BY <3>1, <4>1, <4>3, <4>4 DEF ReadLast
    <3>2. CASE k + 1 \notin t
      <4>1. t \in SUBSET (1..k)
        BY <3>2
      <4>2. g[t] = f[t] /\ f[t] = ReadLast(f, args, t)
        BY <2>1, <3>2, <4>1
      <4>3. CASE t = {}
        BY <4>2, <4>3 DEF ReadLast
      <4>4. CASE t /= {}
        <5> DEFINE u == t \ {Max(t)}
        <5>1. u \in SUBSET (1..(k + 1)) /\ k + 1 \notin u
          BY <3>2
        <5>2. g[u] = f[u]
          BY <5>1
        <5> HIDE DEF g
        <5> QED BY <4>2, <4>4, <5>2 DEF ReadLast
      <4> QED BY <4>3, <4>4
    <3> QED BY <3>1, <3>2
  <2>3. g = [t \in SUBSET (1..(k + 1)) |-> ReadLast(g, args, t)]
    <3>1. g = [t \in SUBSET (1..(k + 1)) |-> g[t]]
      OBVIOUS
    <3> HIDE DEF g
    <3> QED BY <2>2, <3>1
  <2> HIDE DEF g
  <2> QED BY <2>3
<1>3. \A k \in Nat : k \in S
  <2> HIDE DEF S
  <2> QED BY <1>1, <1>2, Inductive
<1> QED BY <1>3

\* The parameters that parse_args leaves hold at least one group, and one
\* that takes whatever comes: a closed one, or the one it adds at the end.
LEMMA ParsedGroups ==
  ASSUME NEW args, NEW m \in Nat, DOMAIN args = 1..m
  PROVE  LET r == ParseArgs(args)
         IN /\ "groups" \in DOMAIN r /\ GroupList(r.groups)
            /\ ~r.invalid => OpenBefore(r.groups, Len(r.groups))
<1> DEFINE f == CHOOSE h : h = [t \in SUBSET (1..m) |-> ReadLast(h, args, t)]
           read == FoldLeft(ReadOption, Defaults, args)
<1>1. f = [t \in SUBSET (1..m) |-> ReadLast(f, args, t)]
  BY ReadExists
<1>2. read = f[1..m]
  BY DEF FoldLeft, MapThenFoldSet, ReadLast
<1> HIDE DEF f
<1> DEFINE S == {k \in Nat : \A t \in SUBSET (1..m) : t \subseteq 1..k => HasGroups(f[t])}
<1>3. HasGroups(Defaults)
  <2> DEFINE gs == <<EmptyGroup>>
  <2>1. gs \in Seq({EmptyGroup}) /\ gs /= <<>> /\ Len(gs) = 1 /\ gs[1] = EmptyGroup
    OBVIOUS
  <2>2. Defaults.groups = gs /\ {"groups", "limited"} \subseteq DOMAIN Defaults /\ Defaults.limited
    BY DEF Defaults
  <2>3. Group(EmptyGroup)
    BY DEF Group, Fields, EmptyGroup
  <2> HIDE DEF gs
  <2>4. GroupList(gs)
    BY <2>1, <2>3 DEF GroupList
  <2> QED BY <2>2, <2>4 DEF HasGroups
<1>4. 0 \in S
  BY <1>1, <1>3 DEF ReadLast
<1>5. ASSUME NEW k \in Nat, k \in S PROVE k + 1 \in S
  <2> SUFFICES ASSUME NEW t \in SUBSET (1..m), t \subseteq 1..(k + 1) PROVE HasGroups(f[t])
    OBVIOUS
  <2>1. CASE t = {}
    BY <1>1, <1>3, <2>1 DEF ReadLast
  <2>2. CASE t /= {}
    <3> DEFINE u == t \ {Max(t)}
    <3>1. Max(t) \in t /\ \A i \in t : i <= Max(t)
      BY <2>2, MaxIn
    <3>2. u \in SUBSET (1..m) /\ u \subseteq 1..k
      <4>1. ASSUME NEW i \in u PROVE i \in 1..k
        <5>1. i \in 1..(k + 1) /\ Max(t) \in 1..(k + 1) /\ i <= Max(t) /\ i /= Max(t)
          BY <3>1
        <5> QED BY <5>1
      <4> QED BY <4>1
    <3>3. HasGroups(f[u])
      BY <1>5, <3>2
    <3>4. f[t] = ReadOption(f[u], args[Max(t)])
      BY <1>1, <2>2 DEF ReadLast
    <3> HIDE DEF u
    <3> QED BY <3>3, <3>4, ReadKeeps
  <2> QED BY <2>1, <2>2
<1>6. m \in S
  <2> HIDE DEF S
  <2> QED BY <1>4, <1>5, Inductive
<1>7. HasGroups(read)
  BY <1>2, <1>6
<1> HIDE DEF read
<1> DEFINE w == LastGroup(read)
           z == [w EXCEPT !.ipv6 = @ /\ read.bind = "v6",
                          !.mode = IF @ = {} THEN {"socks4", "socks5"} ELSE @]
<1>8. ParseArgs(args) = IF read.invalid THEN read ELSE z
  BY DEF ParseArgs, read
<1>9. /\ "groups" \in DOMAIN w /\ GroupList(w.groups) /\ OpenBefore(w.groups, Len(w.groups))
  <2> DEFINE gs == read.groups
             n == Len(gs)
  <2>1. n \in Nat /\ GroupList(gs)
    BY <1>7 DEF HasGroups, GroupList
  <2>2. CASE read.limited
    <3> DEFINE all == Append(gs, EmptyGroup)
    <3>1. "groups" \in DOMAIN w /\ w.groups = all
      BY <1>7, <2>2 DEF LastGroup, HasGroups
    <3>2. Group(EmptyGroup) /\ Unlimited(EmptyGroup)
      BY DEF Group, Fields, EmptyGroup, Unlimited
    <3>3. GroupList(all) /\ Len(all) = n + 1 /\ all[Len(all)] = EmptyGroup
      BY <2>1, <3>2, AppendKeeps
    <3>4. n + 1 \in 1..(n + 1)
      BY <2>1
    <3> HIDE DEF all, w
    <3> QED BY <3>1, <3>2, <3>3, <3>4 DEF OpenBefore
  <2>3. CASE ~read.limited
    <3>1. w = read
      BY <2>3 DEF LastGroup
    <3>2. OpenBefore(gs, n - 1)
      BY <1>7, <2>3 DEF HasGroups
    <3>3. \A k \in 1..(n - 1) : k \in 1..n
      BY <2>1
    <3> HIDE DEF w
    <3> QED BY <1>7, <2>1, <3>1, <3>2, <3>3 DEF OpenBefore, HasGroups
  <2> QED BY <2>2, <2>3
<1> HIDE DEF w
<1>10. "groups" \in DOMAIN z /\ z.groups = w.groups
  BY <1>9
<1> HIDE DEF z
<1> QED BY <1>7, <1>8, <1>9, <1>10 DEF HasGroups

-----------------------------------------------------------------------------
(* The list of groups *)

\* Groups that can be linked into a list.
Linkable(grp, n) ==
  DOMAIN grp = 1..n /\ \A g \in 1..n : {"next", "prev"} \subseteq DOMAIN grp[g]

\* ord names each of the groups 1..n once.
Order(ord, n) ==
  /\ ord \in [1..n -> 1..n]
  /\ \A i, j \in 1..n : ord[i] = ord[j] => i = j
  /\ \A g \in 1..n : \E i \in 1..n : ord[i] = g

\* The links of grp lead through the groups in the order ord, both ways.
Follows(grp, n, ord) ==
  \A i \in 1..n : /\ grp[ord[i]].next = IF i = n THEN 0 ELSE ord[i + 1]
                  /\ grp[ord[i]].prev = IF i = 1 THEN 0 ELSE ord[i - 1]

Chain(st, n, ord) ==
  /\ {"head", "grp"} \subseteq DOMAIN st
  /\ n \in Nat \ {0} /\ Order(ord, n) /\ Linkable(st.grp, n)
  /\ st.head = ord[1] /\ Follows(st.grp, n, ord)

\* The inductive form of ListWhole.
ListOk(st) == \E n, ord : Chain(st, n, ord)

\* A walk along the next links meets the groups in their order.
LEMMA GroupsAre ==
  ASSUME NEW st, NEW n, NEW ord, Chain(st, n, ord)
  PROVE  Groups(st) = ord /\ Ids(st) = 1..n
<1> DEFINE At(h) == [i \in 1..n |-> IF i = 1 THEN st.head
                                    ELSE IF h[i - 1] = 0 THEN 0 ELSE st.grp[h[i - 1]].next]
           at == CHOOSE h : h = At(h)
<1>0. \A i \in 1..n : ord[i] \in 1..n /\ ord[i] /= 0
  <2>1. n \in Nat /\ \A i \in 1..n : ord[i] \in 1..n
    BY DEF Chain, Order
  <2> QED BY <2>1
<1>1. Ids(st) = 1..n /\ Cardinality(1..n) = n /\ n \in Nat \ {0}
  <2>1. n \in Int /\ n >= 1
    BY DEF Chain
  <2>2. Cardinality(1..n) = n
    BY <2>1, FS_Interval
  <2> QED BY <2>1, <2>2 DEF Ids, Chain, Linkable
<1>2. ASSUME NEW i \in 1..n, i /= 1
      PROVE  ord[i - 1] /= 0 /\ st.grp[ord[i - 1]].next = ord[i]
  <2>1. i - 1 \in 1..n /\ i - 1 /= n
    BY <1>1, <1>2
  <2>2. st.grp[ord[i - 1]].next = ord[(i - 1) + 1]
    BY <2>1 DEF Chain, Follows
  <2> QED BY <1>0, <1>1, <2>1, <2>2
<1>3. ord = At(ord)
  <2>1. DOMAIN ord = 1..n /\ ord = [i \in 1..n |-> ord[i]]
    BY DEF Chain, Order
  <2>2. \A i \in 1..n : ord[i] = At(ord)[i]
    BY <1>2 DEF Chain
  <2> QED BY <2>1, <2>2
<1>4. at = At(at)
  BY <1>3
<1>5. ASSUME NEW i \in 1..n PROVE at[i] = ord[i]
  <2> DEFINE S == {k \in Nat : k \in 1..n => at[k] = ord[k]}
  <2> HIDE DEF at
  <2>1. 0 \in S
    OBVIOUS
  <2>2. ASSUME NEW k \in Nat, k \in S PROVE k + 1 \in S
    <3> SUFFICES ASSUME k + 1 \in 1..n PROVE at[k + 1] = ord[k + 1]
      OBVIOUS
    <3>1. CASE k = 0
      BY <1>4, <3>1 DEF Chain
    <3>2. CASE k /= 0
      <4>1. k \in 1..n /\ k + 1 /= 1 /\ (k + 1) - 1 = k
        BY <1>1, <3>2
      <4>2. at[k + 1] = IF at[k] = 0 THEN 0 ELSE st.grp[at[k]].next
        BY <1>4, <4>1
      <4> QED BY <1>2, <2>2, <4>1, <4>2
    <3> QED BY <3>1, <3>2
  <2> HIDE DEF S
  <2>3. \A k \in Nat : k \in S
    BY <2>1, <2>2, Inductive
  <2> QED BY <1>1, <2>3 DEF S
<1>6. ListFrom(st, st.head) = SubSeq(at, 1, Cardinality({i \in 1..n : at[i] /= 0}))
  BY <1>1 DEF ListFrom
<1> HIDE DEF at
<1>7. {i \in 1..n : at[i] /= 0} = 1..n
  BY <1>0, <1>5
<1>8. ListFrom(st, st.head) = SubSeq(at, 1, n)
  BY <1>1, <1>6, <1>7
<1>9. /\ SubSeq(at, 1, n) \in Seq(1..n) /\ Len(SubSeq(at, 1, n)) = n
      /\ \A i \in 1..n : SubSeq(at, 1, n)[i] = at[i]
  <2>1. \A i \in 1..n : at[i] \in 1..n
    BY <1>0, <1>5
  <2>2. n \in Int /\ 1 \in Int /\ 1 <= n
    BY <1>1
  <2>3. /\ SubSeq(at, 1, n) \in Seq(1..n)
        /\ Len(SubSeq(at, 1, n)) = IF 1 <= n THEN n - 1 + 1 ELSE 0
        /\ \A i \in 1..(n - 1 + 1) : SubSeq(at, 1, n)[i] = at[1 + i - 1]
    BY <2>1, <2>2, SubSeqProperties
  <2> QED BY <2>2, <2>3
<1>10. SubSeq(at, 1, n) = ord
  <2>1. DOMAIN SubSeq(at, 1, n) = 1..n
    BY <1>9
  <2>2. ord = [i \in 1..n |-> ord[i]]
    BY DEF Chain, Order
  <2>3. SubSeq(at, 1, n) = [i \in 1..n |-> SubSeq(at, 1, n)[i]]
    BY <1>9
  <2>4. [i \in 1..n |-> SubSeq(at, 1, n)[i]] = [i \in 1..n |-> ord[i]]
    BY <1>5, <1>9
  <2> QED BY <2>2, <2>3, <2>4
<1> QED BY <1>1, <1>8, <1>10 DEF Groups

\* Setting one link changes nothing else.
LEMMA LinkSets ==
  ASSUME NEW grp, NEW n \in Nat, Linkable(grp, n), NEW g \in 0..n, NEW field, NEW v
  PROVE  LET new == Link(grp, g, field, v)
         IN /\ Linkable(new, n)
            /\ \A h \in 1..n : \A f \in {"next", "prev"} :
                 new[h][f] = IF h = g /\ f = field THEN v ELSE grp[h][f]
BY DEF Linkable, Link

\* Two groups, each in the place of the other; only their links are yet to follow.
Moved(grp, c, m) == [grp EXCEPT ![c] = InPlaceOf(@, grp[m]), ![m] = InPlaceOf(@, grp[c])]

\* Each of two groups gets the links of the other.
LEMMA MovedLinks ==
  ASSUME NEW grp, NEW n \in Nat, Linkable(grp, n), NEW c \in 1..n, NEW m \in 1..n, c /= m
  PROVE  /\ Linkable(Moved(grp, c, m), n)
         /\ \A h \in 1..n : \A f \in {"next", "prev"} :
              Moved(grp, c, m)[h][f] = IF h = c THEN grp[m][f]
                                       ELSE IF h = m THEN grp[c][f] ELSE grp[h][f]
<1> DEFINE new == Moved(grp, c, m)
<1>1. /\ DOMAIN new = 1..n
      /\ new[c] = InPlaceOf(grp[c], grp[m]) /\ new[m] = InPlaceOf(grp[m], grp[c])
      /\ \A h \in 1..n : h /= c /\ h /= m => new[h] = grp[h]
  BY DEF Moved, Linkable
<1>2. ASSUME NEW g, NEW h, {"next", "prev"} \subseteq DOMAIN g, NEW f \in {"next", "prev"}
      PROVE  f \in DOMAIN InPlaceOf(g, h) /\ InPlaceOf(g, h)[f] = h[f]
  BY <1>2 DEF InPlaceOf
<1> HIDE DEF new
<1>3. \A h \in 1..n : {"next", "prev"} \subseteq DOMAIN grp[h]
  BY DEF Linkable
<1>4. \A h \in 1..n : {"next", "prev"} \subseteq DOMAIN new[h]
  BY <1>1, <1>2, <1>3
<1>5. \A h \in 1..n : \A f \in {"next", "prev"} :
        new[h][f] = IF h = c THEN grp[m][f] ELSE IF h = m THEN grp[c][f] ELSE grp[h][f]
  BY <1>1, <1>2, <1>3
<1>6. Linkable(new, n)
  BY <1>1, <1>4 DEF Linkable
<1> QED BY <1>5, <1>6 DEF new

\* The links after swop_groups.
LEMMA LinkedLinks ==
  ASSUME NEW grp, NEW n \in Nat, Linkable(grp, n), NEW c \in 1..n, NEW m \in 1..n,
         NEW at, NEW to, at.prev \in 0..n, at.next \in 0..n, to.prev \in 0..n, to.next \in 0..n
  PROVE  LET new == Linked(grp, c, m, at, to)
         IN /\ Linkable(new, n)
            /\ \A h \in 1..n :
                 /\ new[h].next = IF h = (IF at.next = m THEN m ELSE to.prev) THEN c
                                  ELSE IF h = at.prev THEN m ELSE grp[h].next
                 /\ new[h].prev = IF h = (IF at.next = m THEN c ELSE at.next) THEN m
                                  ELSE IF h = to.next THEN c ELSE grp[h].prev
<1> DEFINE g1 == Link(grp, at.prev, "next", m)
           g2 == Link(g1, to.next, "prev", c)
           g3 == Link(g2, IF at.next = m THEN c ELSE at.next, "prev", m)
           g4 == Link(g3, IF at.next = m THEN m ELSE to.prev, "next", c)
<1>1. /\ Linkable(g1, n)
      /\ \A h \in 1..n : \A f \in {"next", "prev"} :
           g1[h][f] = IF h = at.prev /\ f = "next" THEN m ELSE grp[h][f]
  BY LinkSets
<1> HIDE DEF g1
<1>2. /\ Linkable(g2, n)
      /\ \A h \in 1..n : \A f \in {"next", "prev"} :
           g2[h][f] = IF h = to.next /\ f = "prev" THEN c ELSE g1[h][f]
  BY <1>1, LinkSets
<1> HIDE DEF g2
<1> DEFINE a == IF at.next = m THEN c ELSE at.next
           b == IF at.next = m THEN m ELSE to.prev
<1>3. a \in 0..n /\ b \in 0..n
  OBVIOUS
<1>4. g3 = Link(g2, a, "prev", m) /\ g4 = Link(g3, b, "next", c)
  OBVIOUS
<1>5. Linked(grp, c, m, at, to) = g4
  BY DEF Linked, g2, g1
<1> HIDE DEF a, b, g3, g4
<1>6. /\ Linkable(g3, n)
      /\ \A h \in 1..n : \A f \in {"next", "prev"} :
           g3[h][f] = IF h = a /\ f = "prev" THEN m ELSE g2[h][f]
  BY <1>2, <1>3, <1>4, LinkSets
<1>7. /\ Linkable(g4, n)
      /\ \A h \in 1..n : \A f \in {"next", "prev"} :
           g4[h][f] = IF h = b /\ f = "next" THEN c ELSE g3[h][f]
  BY <1>3, <1>4, <1>6, LinkSets
<1>8. ASSUME NEW h \in 1..n
      PROVE  /\ g4[h].next = IF h = b THEN c ELSE IF h = at.prev THEN m ELSE grp[h].next
             /\ g4[h].prev = IF h = a THEN m ELSE IF h = to.next THEN c ELSE grp[h].prev
  BY <1>1, <1>2, <1>6, <1>7
<1> QED BY <1>5, <1>7, <1>8 DEF a, b

\* The order after the groups at the places i and j trade them.
Exchanged(ord, i, j) == [ord EXCEPT ![i] = ord[j], ![j] = ord[i]]

\* An exchange keeps an order an order.
LEMMA ExchangedOrder ==
  ASSUME NEW n \in Nat, NEW ord, Order(ord, n), NEW i \in 1..n, NEW j \in 1..n
  PROVE  /\ Order(Exchanged(ord, i, j), n)
         /\ \A k \in 1..n : Exchanged(ord, i, j)[k] = IF k = j THEN ord[i]
                                                     ELSE IF k = i THEN ord[j] ELSE ord[k]
<1> DEFINE new == Exchanged(ord, i, j)
<1>1. \A k \in 1..n : new[k] = IF k = j THEN ord[i] ELSE IF k = i THEN ord[j] ELSE ord[k]
  BY DEF Exchanged, Order
<1>2. new \in [1..n -> 1..n]
  BY DEF Exchanged, Order
<1>3. /\ \A k \in 1..n : ord[k] \in 1..n
      /\ \A k, l \in 1..n : ord[k] = ord[l] => k = l
      /\ \A g \in 1..n : \E k \in 1..n : ord[k] = g
  BY DEF Order
<1> HIDE DEF new
<1>4. \A k, l \in 1..n : new[k] = new[l] => k = l
  BY <1>1, <1>3
<1>5. ASSUME NEW g \in 1..n PROVE \E k \in 1..n : new[k] = g
  <2>1. PICK k \in 1..n : ord[k] = g
    BY <1>3
  <2>2. new[IF k = i THEN j ELSE IF k = j THEN i ELSE k] = g
    BY <1>1, <2>1
  <2> QED BY <2>2
<1>6. Order(new, n)
  BY <1>2, <1>4, <1>5 DEF Order
<1> QED BY <1>1, <1>6 DEF new

\* swop_groups leaves a list, if the group it moves back comes first.
LEMMA SwopChain ==
  ASSUME NEW st, NEW n, NEW ord, Chain(st, n, ord), NEW i \in 1..n, NEW j \in 1..n, i < j
  PROVE  Chain(Swop(st, ord[i], ord[j]), n, Exchanged(ord, i, j))
<1> DEFINE c == ord[i]
           m == ord[j]
           grp == st.grp
           moved == Moved(grp, c, m)
           at == grp[c]
           to == grp[m]
           new == Linked(moved, c, m, at, to)
           r == Swop(st, c, m)
           e == Exchanged(ord, i, j)
<1>1. n \in Nat \ {0} /\ Order(ord, n) /\ Linkable(grp, n) /\ Follows(grp, n, ord)
  BY DEF Chain
<1>2. /\ \A k \in 1..n : ord[k] \in 1..n /\ ord[k] /= 0
      /\ \A k, l \in 1..n : ord[k] = ord[l] => k = l
  <2>1. \A k \in 1..n : ord[k] \in 1..n
    BY <1>1 DEF Order
  <2>2. \A k, l \in 1..n : ord[k] = ord[l] => k = l
    BY <1>1 DEF Order
  <2> QED BY <1>1, <2>1, <2>2
<1>3. c \in 1..n /\ m \in 1..n /\ c /= m
  BY <1>2
<1>4. \A k \in 1..n : /\ grp[ord[k]].next = IF k = n THEN 0 ELSE ord[k + 1]
                      /\ grp[ord[k]].prev = IF k = 1 THEN 0 ELSE ord[k - 1]
  BY <1>1 DEF Follows
<1>5. at.prev \in 0..n /\ at.next \in 0..n /\ to.prev \in 0..n /\ to.next \in 0..n
  <2>1. \A k \in 1..n : (k /= n => k + 1 \in 1..n) /\ (k /= 1 => k - 1 \in 1..n)
    BY <1>1
  <2>2. \A x \in 1..n : x \in 0..n
    BY <1>1
  <2>3. 0 \in 0..n
    BY <1>1
  <2> QED BY <1>2, <1>4, <2>1, <2>2, <2>3
<1>6. /\ Linkable(moved, n)
      /\ \A h \in 1..n : \A f \in {"next", "prev"} :
           moved[h][f] = IF h = c THEN to[f] ELSE IF h = m THEN at[f] ELSE grp[h][f]
  <2> HIDE DEF c, m
  <2> QED BY <1>1, <1>3, MovedLinks
<1>7. DOMAIN r = DOMAIN st /\ r.grp = new /\ r.head = IF st.head = c THEN m ELSE st.head
  BY DEF Swop, Moved, Chain
<1> HIDE DEF moved
<1>8. /\ Linkable(new, n)
      /\ \A h \in 1..n :
           /\ new[h].next = IF h = (IF at.next = m THEN m ELSE to.prev) THEN c
                            ELSE IF h = at.prev THEN m ELSE moved[h].next
           /\ new[h].prev = IF h = (IF at.next = m THEN c ELSE at.next) THEN m
                            ELSE IF h = to.next THEN c ELSE moved[h].prev
  <2> HIDE DEF c, m, at, to
  <2> QED BY <1>1, <1>3, <1>5, <1>6, LinkedLinks
<1> HIDE DEF new, r
<1>9. Order(e, n) /\ \A k \in 1..n : e[k] = IF k = j THEN c ELSE IF k = i THEN m ELSE ord[k]
  BY <1>1, ExchangedOrder
<1> HIDE DEF e
<1>10. r.head = e[1]
  <2>1. st.head = ord[1] /\ 1 \in 1..n /\ j /= 1
    BY <1>1 DEF Chain
  <2> QED BY <1>2, <1>7, <1>9, <2>1
<1>11. \A h \in 1..n :
         /\ moved[h].next = IF h = c THEN to.next ELSE IF h = m THEN at.next ELSE grp[h].next
         /\ moved[h].prev = IF h = c THEN to.prev ELSE IF h = m THEN at.prev ELSE grp[h].prev
  BY <1>6
<1>12. ASSUME NEW k \in 1..n
       PROVE  /\ new[e[k]].next = IF k = n THEN 0 ELSE e[k + 1]
              /\ new[e[k]].prev = IF k = 1 THEN 0 ELSE e[k - 1]
  <2>1. /\ at.next = ord[i + 1] /\ i + 1 \in 1..n
        /\ at.prev = IF i = 1 THEN 0 ELSE ord[i - 1]
        /\ to.next = IF j = n THEN 0 ELSE ord[j + 1]
        /\ to.prev = ord[j - 1] /\ j - 1 \in 1..n
    BY <1>1, <1>4
  <2>2. at.next = m <=> j = i + 1
    BY <1>2, <2>1
  <2> HIDE DEF at, to, grp
  <2>3. CASE k = i
    <3>1. e[k] = m /\ m \in 1..n /\ k /= n /\ k + 1 \in 1..n
      BY <1>1, <1>3, <1>9, <2>3
    <3>2. new[m].next = e[k + 1]
      BY <1>1, <1>2, <1>3, <1>8, <1>9, <1>11, <2>1, <2>2, <2>3, <3>1
    <3>3. new[m].prev = at.prev
      BY <1>1, <1>2, <1>3, <1>8, <1>11, <2>1, <2>2
    <3>4. k /= 1 => k - 1 \in 1..n /\ e[k - 1] = ord[i - 1]
      BY <1>1, <1>9, <2>3
    <3> QED BY <2>1, <2>3, <3>1, <3>2, <3>3, <3>4
  <2>4. CASE k = j
    BY <1>1, <1>2, <1>3, <1>8, <1>9, <1>11, <2>1, <2>2, <2>4
  <2>5. CASE k /= i /\ k /= j
    <3> DEFINE h == ord[k]
    <3>1. e[k] = h /\ h \in 1..n /\ h /= c /\ h /= m
      BY <1>2, <1>9, <2>5
    <3>2. /\ new[h].next = IF h = (IF j = i + 1 THEN m ELSE to.prev) THEN c
                           ELSE IF h = at.prev THEN m ELSE grp[h].next
          /\ new[h].prev = IF h = (IF j = i + 1 THEN c ELSE at.next) THEN m
                           ELSE IF h = to.next THEN c ELSE grp[h].prev
      BY <1>8, <1>11, <2>2, <3>1
    <3>3. /\ h = to.prev <=> k = j - 1
          /\ h = at.next <=> k = i + 1
          /\ h = at.prev <=> k = i - 1
          /\ h = to.next <=> k = j + 1
      BY <1>1, <1>2, <2>1, <3>1
    <3>4. /\ grp[h].next = IF k = n THEN 0 ELSE ord[k + 1]
          /\ grp[h].prev = IF k = 1 THEN 0 ELSE ord[k - 1]
      BY <1>4
    <3>5. new[h].next = IF k = n THEN 0 ELSE e[k + 1]
      <4>1. k /= n => k + 1 \in 1..n
        BY <1>1
      <4> HIDE DEF h, c, m
      <4> QED BY <1>9, <2>5, <3>1, <3>2, <3>3, <3>4, <4>1 DEF c, m
    <3>6. new[h].prev = IF k = 1 THEN 0 ELSE e[k - 1]
      <4>1. k /= 1 => k - 1 \in 1..n
        BY <1>1
      <4> HIDE DEF h, c, m
      <4> QED BY <1>9, <2>5, <3>1, <3>2, <3>3, <3>4, <4>1 DEF c, m
    <3> QED BY <3>1, <3>5, <3>6
  <2> QED BY <2>3, <2>4, <2>5
<1>13. Follows(new, n, e)
  BY <1>12 DEF Follows
<1>14. Chain(r, n, e)
  BY <1>1, <1>7, <1>8, <1>9, <1>10, <1>13 DEF Chain
<1> QED BY <1>14 DEF r, e

\* Whatever becomes of the cache, the list stays.
LEMMA CacheKeepsList ==
  ASSUME NEW st, ListOk(st), NEW cache PROVE ListOk([st EXCEPT !.cache = cache])
<1>1. PICK n, ord : Chain(st, n, ord)
  BY DEF ListOk
<1> DEFINE r == [st EXCEPT !.cache = cache]
<1>2. DOMAIN r = DOMAIN st /\ r.head = st.head /\ r.grp = st.grp
  BY <1>1 DEF Chain
<1> HIDE DEF r
<1>3. Chain(r, n, ord)
  BY <1>1, <1>2 DEF Chain
<1> QED BY <1>3 DEF ListOk, r

\* on_trigger rates a group down: the links stay.
LEMMA RatingKeepsList ==
  ASSUME NEW st, ListOk(st), NEW g PROVE ListOk([st EXCEPT !.grp[g].pri = @ + 1])
<1>1. PICK n, ord : Chain(st, n, ord)
  BY DEF ListOk
<1> DEFINE new == [st.grp EXCEPT ![g].pri = @ + 1]
           r == [st EXCEPT !.grp = new]
<1>2. Linkable(st.grp, n) /\ Order(ord, n) /\ Follows(st.grp, n, ord)
  BY <1>1 DEF Chain
<1>3. /\ DOMAIN new = 1..n
      /\ \A h \in 1..n : /\ DOMAIN new[h] = DOMAIN st.grp[h]
                         /\ \A f \in {"next", "prev"} : new[h][f] = st.grp[h][f]
  BY <1>2 DEF Linkable
<1>4. DOMAIN r = DOMAIN st /\ r.head = st.head /\ r.grp = new
  BY <1>1 DEF Chain
<1>5. r = [st EXCEPT !.grp[g].pri = @ + 1]
  BY <1>1 DEF Chain
<1> HIDE DEF r, new
<1>6. Linkable(new, n)
  BY <1>2, <1>3 DEF Linkable
<1>7. \A i \in 1..n : ord[i] \in 1..n
  BY <1>2 DEF Order
<1>8. Follows(new, n, ord)
  BY <1>2, <1>3, <1>7 DEF Follows
<1>9. Chain(r, n, ord)
  BY <1>1, <1>4, <1>6, <1>8 DEF Chain
<1> QED BY <1>5, <1>9 DEF ListOk

\* The walk of on_trigger ends at a place of the list, or at its end.
LEMMA WalkPlace ==
  ASSUME NEW st, NEW n, NEW ord, Chain(st, n, ord), NEW mask, NEW type, NEW can
  PROVE  \E j \in 0..n : Walk(st, mask, type, can) = WalkEnd(st, mask, ord, j)
<1> DEFINE Takes(d) == (d.detect = {} \/ d.detect \cap type /= {}) /\ ("o" \in d.level => can)
           ends == {k \in 1..Len(ord) : \/ WalkStops(st, mask, ord, k)
                                        \/ ord[k] \notin mask /\ Takes(st.grp[ord[k]])}
           j == Least(ends)
<1>1. Walk(st, mask, type, can) = WalkEnd(st, mask, ord, j)
  <2>1. Walk(st, mask, type, can) = WalkIn(st, mask, type, can, ord)
    BY GroupsAre DEF Walk
  <2>2. WalkIn(st, mask, type, can, ord) = WalkEnd(st, mask, ord, j)
    BY DEF WalkIn, FirstIndex
  <2> QED BY <2>1, <2>2
<1>2. n \in Nat /\ Len(ord) = n
  <2>1. n \in Nat /\ ord \in [1..n -> 1..n]
    BY DEF Chain, Order
  <2>2. ord \in Seq(1..n)
    BY <2>1
  <2> QED BY <2>1, <2>2
<1>3. j \in 0..n
  <2>1. ends \in SUBSET Nat /\ ends \subseteq 1..n
    BY <1>2
  <2>2. j = 0 \/ j \in 1..n
    <3> HIDE DEF ends
    <3> QED BY <2>1, LeastIn DEF Least
  <2> HIDE DEF j
  <2> QED BY <1>2, <2>2
<1> HIDE DEF j
<1> QED BY <1>1, <1>3

\* The strategy r that a trigger leaves: perhaps the group at place i of the
\* list gives its place to the one at place j, which asks for it (-L s), a
\* group is rated, and the address is assigned a group.
Moves(st, n, ord, m) ==
  m = st \/ \E i, j \in 1..n : i < j /\ "s" \in st.grp[ord[j]].level /\ m = Swop(st, ord[i], ord[j])
Rates(m, rated) == rated = m \/ \E g : rated = [m EXCEPT !.grp[g].pri = @ + 1]
Assigns(st, n, a, rated, r) ==
  \E e : /\ r = [rated EXCEPT !.cache[a] = Some(e)]
         /\ "dp" \in DOMAIN CacheAdd(st, a) => "dp" \in DOMAIN e /\ (e.dp = rated.head \/ e.dp \in 1..n)

\* on_trigger is of this form: it sorts only a group it has passed.
LEMMA TriggerForm ==
  ASSUME NEW st, NEW n, NEW ord, Chain(st, n, ord), NEW c, NEW a, NEW type, NEW alive
  PROVE  \E m, rated : /\ Moves(st, n, ord, m) /\ Rates(m, rated)
                       /\ Assigns(st, n, a, rated, Trigger(st, c, a, type, alive).s)
<1> DEFINE cur == c.dp[1]
           mask == c.mask \cup {cur}
           can == CanReconn(c, alive)
           w == Walk(st, mask, type, can)
           known == CacheAdd(st, a)
           sorted == IF Sorts(st, cur, w, mask) THEN Swop(st, cur, w.next) ELSE st
           rated == Rated(st, cur, known.mask, w, mask)
           t == Trigger(st, c, a, type, alive)
           e == IF w.next = 0
                THEN [known EXCEPT !.mask = {}, !.detect = {}, !.dp = rated.head]
                ELSE [known EXCEPT !.mask = @ \cup mask \cup w.passed, !.detect = type, !.dp = w.next]
<1>1. t.s = [rated EXCEPT !.cache[a] = Some(e)]
  BY DEF Trigger, TriggerWalked, Learnt
<1>2. rated = st \/ rated = [sorted EXCEPT !.grp[cur].pri = @ + 1]
  BY DEF Rated
<1>3. cur \in mask
  OBVIOUS
<1>4. PICK j \in 0..n : w = WalkEnd(st, mask, ord, j)
  BY WalkPlace
<1> HIDE DEF cur, mask, can, known, w
<1>5. n \in Nat /\ \A k \in 1..n : ord[k] \in 1..n
  BY DEF Chain, Order
<1>6. /\ w.next = 0 \/ (j \in 1..n /\ w.next = ord[j] /\ w.passed = {ord[k] : k \in 1..(j - 1)})
      /\ w.next = 0 \/ w.next \in 1..n
  <2>1. w.next = 0 \/ (j /= 0 /\ w.next = ord[j] /\ w.passed = {ord[k] : k \in 1..(j - 1)})
    BY <1>4 DEF WalkEnd
  <2>2. j /= 0 => j \in 1..n
    BY <1>5
  <2> QED BY <1>5, <2>1, <2>2
<1>7. Moves(st, n, ord, sorted)
  <2>1. CASE ~Sorts(st, cur, w, mask)
    BY <2>1 DEF Moves
  <2>2. CASE Sorts(st, cur, w, mask)
    <3>1. w.next /= 0 /\ cur \in w.passed /\ "s" \in st.grp[w.next].level
      BY <1>3, <2>2 DEF Sorts
    <3>2. PICK i \in 1..(j - 1) : cur = ord[i]
      BY <1>6, <3>1
    <3>3. i \in 1..n /\ i < j
      BY <1>5
    <3> QED BY <1>6, <2>2, <3>1, <3>2, <3>3 DEF Moves
  <2> QED BY <2>1, <2>2
<1>8. "dp" \in DOMAIN known => "dp" \in DOMAIN e /\ (e.dp = rated.head \/ e.dp \in 1..n)
  <2> HIDE DEF rated
  <2> QED BY <1>6
<1> HIDE DEF e
<1>9. Assigns(st, n, a, rated, t.s)
  <2> HIDE DEF rated, t
  <2> QED BY <1>1, <1>8 DEF Assigns, known
<1>10. \/ Moves(st, n, ord, rated) /\ Rates(rated, rated)
       \/ Moves(st, n, ord, sorted) /\ Rates(sorted, rated)
  <2> HIDE DEF sorted, rated
  <2> QED BY <1>2, <1>7 DEF Rates, Moves
<1> HIDE DEF sorted, rated
<1> QED BY <1>9, <1>10 DEF t

\* on_trigger leaves the list whole.
LEMMA TriggerList ==
  ASSUME NEW st, ListOk(st), NEW c, NEW a, NEW type, NEW alive
  PROVE  ListOk(Trigger(st, c, a, type, alive).s)
<1>1. PICK n, ord : Chain(st, n, ord)
  BY DEF ListOk
<1> DEFINE r == Trigger(st, c, a, type, alive).s
<1>2. PICK m, rated : Moves(st, n, ord, m) /\ Rates(m, rated) /\ Assigns(st, n, a, rated, r)
  BY <1>1, TriggerForm
<1> HIDE DEF r
<1>3. ListOk(m)
  <2>1. CASE m = st
    BY <2>1
  <2>2. ASSUME NEW i \in 1..n, NEW j \in 1..n, i < j, m = Swop(st, ord[i], ord[j]) PROVE ListOk(m)
    BY <1>1, <2>2, SwopChain DEF ListOk
  <2> QED BY <1>2, <2>1, <2>2 DEF Moves
<1>4. ListOk(rated)
  <2>1. ASSUME NEW g, rated = [m EXCEPT !.grp[g].pri = @ + 1] PROVE ListOk(rated)
    BY <1>3, <2>1, RatingKeepsList, Zenon
  <2> QED BY <1>2, <1>3, <2>1 DEF Rates
<1>5. \E cache : r = [rated EXCEPT !.cache = cache]
  <2>1. PICK e : r = [rated EXCEPT !.cache[a] = Some(e)]
    BY <1>2 DEF Assigns
  <2>2. r = [rated EXCEPT !.cache = [rated.cache EXCEPT ![a] = Some(e)]]
    BY <2>1
  <2> QED BY <2>2
<1> QED BY <1>4, <1>5, CacheKeepsList DEF r

\* The list that parse_args builds, of a command line with at least one group.
LEMMA NewStrategyList ==
  ASSUME NEW q, GroupList(q.groups), NEW addrs PROVE ListOk(NewStrategy(q, addrs))
<1> DEFINE n == Len(q.groups)
           ord == [i \in 1..n |-> i]
           st == NewStrategy(q, addrs)
           Next1(g) == IF g = n THEN 0 ELSE g + 1
<1>1. n \in Nat \ {0}
  BY DEF GroupList
<1>2. /\ {"head", "grp"} \subseteq DOMAIN st /\ st.head = 1 /\ DOMAIN st.grp = 1..n
      /\ \A g \in 1..n : st.grp[g] = Listed(q.groups[g], Next1(g), g - 1)
  BY DEF NewStrategy
<1>3. \A g, next, prev : LET l == Listed(g, next, prev)
                         IN {"next", "prev"} \subseteq DOMAIN l /\ l.next = next /\ l.prev = prev
  BY DEF Listed
<1> HIDE DEF st, n
<1>4. Linkable(st.grp, n)
  BY <1>2, <1>3 DEF Linkable
<1>5. Order(ord, n)
  BY <1>1 DEF Order
<1>6. Follows(st.grp, n, ord)
  BY <1>1, <1>2, <1>3 DEF Follows
<1>7. Chain(st, n, ord)
  BY <1>1, <1>2, <1>4, <1>5, <1>6 DEF Chain
<1> QED BY <1>7 DEF ListOk, st

\* load_cache fills the cache only.
LEMMA LoadCacheList == ASSUME NEW st, ListOk(st), NEW d PROVE ListOk(LoadCache(st, d))
<1>1. \E cache : LoadCache(st, d) = [st EXCEPT !.cache = cache]
  BY DEF LoadCache
<1> QED BY <1>1, CacheKeepsList

-----------------------------------------------------------------------------
(* Choosing a group *)

\* find_dp never takes a group that is ruled out, and only rules out more.
LEMMA FindDpFresh ==
  ASSUME NEW st, NEW c, NEW buff, NEW dst
  PROVE  LET f == FindDp(st, c, buff, dst)
         IN c.mask \subseteq f.mask /\ (f.dp /= None => f.dp[1] \notin c.mask)
<1> DEFINE order == ListFrom(st, IF c.dp = None THEN st.head ELSE c.dp[1]) \o Groups(st)
           good == {k \in 1..Len(order) : Suits(st, c, order[k], buff, dst)}
           i == Least(good)
<1>1. FindDp(st, c, buff, dst) = FoundAt(st, c, order, i)
  BY DEF FindDp, FindIn, FirstIndex
<1>2. good = {} \/ i \in good
  <2>1. good \in SUBSET Nat
    OBVIOUS
  <2> QED BY <2>1, LeastIn
<1>3. good = {} => i = 0
  BY DEF Least
<1>4. i \in good => order[i] \notin c.mask
  BY DEF Suits
<1> HIDE DEF order, good, i
<1> QED BY <1>1, <1>2, <1>3, <1>4 DEF FoundAt, None, Some

\* A group that waits for no trigger, or for one of those seen.
Fits(g, seen, st) == st.grp[g].detect = {} \/ st.grp[g].detect \cap seen /= {}

\* The group that find_dp comes to is the connection's, or fits.
LEMMA FindDpFits ==
  ASSUME NEW st, NEW c, NEW buff, NEW dst
  PROVE  LET f == FindDp(st, c, buff, dst)
         IN f.dp = None \/ f.dp = c.dp \/ Fits(f.dp[1], c.detect, st)
<1> DEFINE order == ListFrom(st, IF c.dp = None THEN st.head ELSE c.dp[1]) \o Groups(st)
           good == {k \in 1..Len(order) : Suits(st, c, order[k], buff, dst)}
           i == Least(good)
<1>1. FindDp(st, c, buff, dst) = FoundAt(st, c, order, i)
  BY DEF FindDp, FindIn, FirstIndex
<1>2. good = {} \/ i \in good
  <2>1. good \in SUBSET Nat
    OBVIOUS
  <2> QED BY <2>1, LeastIn
<1>3. good = {} => i = 0
  BY DEF Least
<1>4. i \in good => c.dp = Some(order[i]) \/ Fits(order[i], c.detect, st)
  BY DEF Suits, Fits
<1> HIDE DEF order, good, i
<1>5. \A g : Some(g)[1] = g
  BY DEF Some
<1> QED BY <1>1, <1>2, <1>3, <1>4, <1>5 DEF FoundAt

\* on_trigger rules out the connection's group, and a replay needs a stored
\* request or a client that has sent none.
LEMMA TriggerFacts ==
  ASSUME NEW st, NEW c, NEW a, NEW type, NEW alive
  PROVE  LET t == Trigger(st, c, a, type, alive)
         IN /\ c.mask \cup {c.dp[1]} \subseteq t.mask
            /\ t.retry => c.sq /= None \/ c.recv = 0
<1> DEFINE mask == c.mask \cup {c.dp[1]}
           can == CanReconn(c, alive)
           w == Walk(st, mask, type, can)
           known == CacheAdd(st, a)
           rated == Rated(st, c.dp[1], known.mask, w, mask)
           t == Trigger(st, c, a, type, alive)
<1>1. t = Learnt(rated, known, a, type, can, w, mask)
  BY DEF Trigger, TriggerWalked
<1> HIDE DEF mask, can, w, known, rated, t
<1>2. t.mask = mask \cup w.passed /\ (t.retry => can)
  BY <1>1 DEF Learnt
<1>3. can => c.sq /= None \/ c.recv = 0
  BY DEF can, CanReconn
<1> QED BY <1>2, <1>3 DEF t, mask
=============================================================================
