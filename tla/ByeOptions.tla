----------------------------- MODULE ByeOptions -----------------------------
(***************************************************************************)
(* The command line of the ByeDPI worker (main.c, parse_args): the server  *)
(* parameters and the list of desync groups that an option list stands     *)
(* for.  An option is [o |-> letter, v |-> value]; the value is what the   *)
(* text of the argument denotes (a number, a set of letters, an offset).   *)
(* Left out: text that denotes nothing (an unreadable file or number), -B, *)
(* which re-reads the options of an earlier group, -x and -#, and the      *)
(* options that the Windows build does not have.                           *)
(*                                                                         *)
(* A group is known by its place in the command line (id + 1).             *)
(***************************************************************************)
EXTENDS Integers, Sequences, SequencesExt, FiniteSets

None == <<>>
Some(v) == <<v>>

\* parse_offset: where to cut, pos from an anchor given by flags, r times, s
\* apart; v.rs holds the numbers between the colons.
ParseOffset(v) ==
  IF \/ \E k \in DOMAIN v.rs : v.rs[k] < 0
     \/ v.rs /= <<>> /\ v.rs[1] = 0
     \/ Len(v.rs) > 2
  THEN None
  ELSE Some([m |-> "none", pos |-> v.pos, flag |-> v.flag,
             r |-> IF v.rs = <<>> THEN 0 ELSE v.rs[1],
             s |-> IF Len(v.rs) < 2 THEN 0 ELSE v.rs[2]])

\* htons on a little-endian machine, for a 16-bit number.
Htons(v) == (v % 256) * 256 + v \div 256

\* One zeroed group (struct desync_params).
EmptyGroup ==
  [detect |-> {}, level |-> {}, proto |-> {}, hosts |-> None, ipset |-> None,
   pf |-> <<0, 0>>, rounds |-> <<0, 0>>, cacheTtl |-> 0, file |-> None, pri |-> 0,
   parts |-> <<>>, tlsrec |-> <<>>, modHttp |-> {}, tlsMinor |-> None,
   ttl |-> 0, fakeOffset |-> None, fakeMod |-> {}, fakeTlsSize |-> 0,
   fakeSni |-> <<>>, fakeData |-> None, oobChar |-> None, udpFakes |-> 0,
   out |-> None]

\* The parameters before the first option, the first group included.
Defaults ==
  [groups |-> <<EmptyGroup>>, limited |-> TRUE, auto |-> FALSE,
   delay |-> FALSE, waitSend |-> FALSE, await |-> 10, timeout |-> 0,
   ptimeout |-> 0, toCount |-> 0, toBytes |-> 0, cachePre |-> 0,
   mode |-> {}, port |-> 1080, udp |-> TRUE, resolve |-> TRUE, ipv6 |-> TRUE, bind |-> "v6",
   tfo |-> FALSE, maxOpen |-> 512, bfsize |-> 16384, defTtl |-> 0,
   customTtl |-> FALSE, invalid |-> FALSE]

Refuse(p) == [p EXCEPT !.invalid = TRUE]

\* An option whose number must be in 1..max, and what it sets.
Within(p, v, max, set) == IF v \in 1..max THEN set ELSE Refuse(p)

\* The group that options apply to: the last one.
Current(p) == p.groups[Len(p.groups)]
WithCurrent(p, g) == [p EXCEPT !.groups[Len(p.groups)] = g]

-----------------------------------------------------------------------------
\* Options of the server: what it serves.
ServeOption(p, a) ==
  CASE a.o = "N" -> [p EXCEPT !.resolve = FALSE]
    [] a.o = "X" -> [p EXCEPT !.ipv6 = FALSE]
    [] a.o = "U" -> [p EXCEPT !.udp = FALSE]
    [] a.o = "i" -> [p EXCEPT !.mode = @ \cup a.v]
    [] a.o = "F" -> [p EXCEPT !.tfo = TRUE]

\* Where it listens, and how much it takes.
ListenOption(p, a) ==
  CASE a.o = "p" -> Within(p, a.v, 65535, [p EXCEPT !.port = a.v])
    [] a.o = "I" -> [p EXCEPT !.bind = a.v]
    [] a.o = "b" -> Within(p, a.v, 536870911, [p EXCEPT !.bfsize = a.v])
    [] a.o = "c" -> Within(p, a.v, 32766, [p EXCEPT !.maxOpen = a.v])
    [] OTHER     -> p

\* How it sends: the TTL of its packets (-g), pauses between parts (-Z, -W).
SendOption(p, a) ==
  CASE a.o = "g" -> Within(p, a.v, 255, [p EXCEPT !.defTtl = a.v, !.customTtl = TRUE])
    [] a.o = "Z" -> [p EXCEPT !.waitSend = TRUE]
    [] a.o = "W" -> [p EXCEPT !.await = a.v]

\* -T timeout:partial timeout:number of them:bytes; -/ width of a cached net.
TimeoutOption(p, a) ==
  IF a.o = "T"
  THEN [p EXCEPT !.timeout = a.v[1], !.ptimeout = a.v[2],
                 !.toCount = a.v[3], !.toBytes = a.v[4]]
  ELSE IF a.v \in 0..32 THEN [p EXCEPT !.cachePre = 32 - a.v] ELSE Refuse(p)

\* A group nothing narrows: any connection may use it from the start.
Unlimited(g) ==
  g.hosts = None /\ g.proto = {} /\ g.pf[1] = 0 /\ g.detect = {} /\ g.ipset = None

\* -A: close the current group and open the next, tried after the triggers
\* a.v.detect; a.v.pri (the "p=" form) is the priority of the closed group.
AutoOption(p, a) ==
  LET closed == IF a.v.pri = None THEN Current(p)
                ELSE [Current(p) EXCEPT !.pri = a.v.pri[1]]
  IN [WithCurrent(p, closed) EXCEPT
        !.limited = @ /\ ~Unlimited(Current(p)),
        !.groups = Append(@, [EmptyGroup EXCEPT !.detect = a.v.detect]),
        !.auto = @ \/ a.v.detect /= {}]

\* -L: o = only where a retry is possible, s = sort, n = no retry at once.
LevelOption(p, a) ==
  IF a.v \subseteq {"o", "s", "n"}
  THEN WithCurrent(p, [Current(p) EXCEPT !.level = @ \cup a.v])
  ELSE Refuse(p)

\* The protocols one letter of -K stands for.
ProtoOf(letter) ==
  CASE letter = "t" -> {"tcp", "https"}
    [] letter = "h" -> {"tcp", "http"}
    [] letter = "u" -> {"udp"}
    [] letter = "i" -> {"ipv4"}

\* The options that narrow a group by what is sent and to whom.
FilterOption(p, a) ==
  LET g == Current(p)
      More(set) == Some(IF set = None THEN a.v ELSE set[1] \cup a.v)
  IN CASE a.o = "K" -> WithCurrent(p,
                         [g EXCEPT !.proto = @ \cup UNION {ProtoOf(x) : x \in a.v}])
       [] a.o = "H" -> WithCurrent(p, [g EXCEPT !.hosts = More(@)])
       [] a.o = "j" -> WithCurrent(p, [g EXCEPT !.ipset = More(@)])

\* -V, ports (kept in network order), and -R, rounds.
RangeOption(p, a) ==
  LET g == Current(p)
      good == a.v[1] > 0 /\ a.v[2] > 0
  IN CASE ~good -> Refuse(p)
       [] good /\ a.o = "R" -> WithCurrent(p, [g EXCEPT !.rounds = a.v])
       [] good /\ a.o = "V" ->
            IF a.v[1] < 65536 /\ a.v[2] < 65536
            THEN WithCurrent(p, [g EXCEPT !.pf = <<Htons(a.v[1]), Htons(a.v[2])>>])
            ELSE Refuse(p)

\* -y: the file that keeps the cache entries of the group.
CacheOption(p, a) == WithCurrent(p, [Current(p) EXCEPT !.file = Some(a.v)])

\* -u: how long they are valid.
LifetimeOption(p, a) ==
  IF a.v > 0 THEN WithCurrent(p, [Current(p) EXCEPT !.cacheTtl = a.v]) ELSE Refuse(p)

\* The options that say where and how the request is cut.
PartOption(p, a) ==
  LET how == [s |-> "split", d |-> "disorder", o |-> "oob", q |-> "disoob", f |-> "fake"]
      part == ParseOffset(a.v)
  IN IF part = None THEN Refuse(p)
     ELSE WithCurrent(p, [Current(p) EXCEPT !.parts = Append(@, [part[1] EXCEPT !.m = how[a.o]])])

\* -r: where TLS records are split.
TlsRecOption(p, a) ==
  LET part == ParseOffset(a.v)
  IN IF part = None \/ a.v.pos > 65535 THEN Refuse(p)
     ELSE WithCurrent(p, [Current(p) EXCEPT !.tlsrec = Append(@, part[1])])

\* What the fakes look like: -t -O -Q -n -l -e.
FakeOption(p, a) ==
  LET g == Current(p) IN
  CASE a.o = "t" -> Within(p, a.v, 255, WithCurrent(p, [g EXCEPT !.ttl = a.v]))
    [] a.o = "O" -> IF ParseOffset(a.v) = None THEN Refuse(p)
                    ELSE WithCurrent(p, [g EXCEPT !.fakeOffset = ParseOffset(a.v)])
    [] a.o = "Q" -> WithCurrent(p, [g EXCEPT !.fakeMod = @ \cup a.v.mods,
                                             !.fakeTlsSize = IF a.v.size = None THEN @ ELSE a.v.size[1]])
    [] a.o = "n" -> WithCurrent(p, [g EXCEPT !.fakeSni = Append(@, a.v)])
    [] a.o = "l" -> WithCurrent(p, [g EXCEPT !.fakeData = IF @ = None THEN Some(a.v) ELSE @])
    [] a.o = "e" -> WithCurrent(p, [g EXCEPT !.oobChar = Some(a.v)])

\* -M: what is changed in the header of an HTTP request.
ModOption(p, a) == WithCurrent(p, [Current(p) EXCEPT !.modHttp = @ \cup a.v])

\* -m: the version written into a TLS record; -a: fakes before a datagram.
NumberOption(p, a) ==
  LET g == Current(p) IN
  CASE a.o = "m" /\ a.v \in 1..255 -> WithCurrent(p, [g EXCEPT !.tlsMinor = Some(a.v)])
    [] a.o = "a" /\ a.v >= 0       -> WithCurrent(p, [g EXCEPT !.udpFakes = a.v])
    [] OTHER                       -> Refuse(p)

\* -C: the group goes out through another proxy, and the connection to it
\* waits for the request where the group looks into the request.
OutOption(p, a) ==
  [WithCurrent(p, [Current(p) EXCEPT !.out = Some(a.v)]) EXCEPT !.delay = TRUE]

ReadOption(p, a) ==
  CASE p.invalid                                   -> p
    [] a.o = "A"                                   -> AutoOption(p, a)
    [] a.o = "L"                                   -> LevelOption(p, a)
    [] a.o = "C"                                   -> OutOption(p, a)
    [] a.o = "r"                                   -> TlsRecOption(p, a)
    [] a.o \in {"T", "/"}                          -> TimeoutOption(p, a)
    [] a.o \in {"g", "Z", "W"}                     -> SendOption(p, a)
    [] a.o \in {"K", "H", "j"}                     -> FilterOption(p, a)
    [] a.o \in {"V", "R"}                          -> RangeOption(p, a)
    [] a.o = "y"                                   -> CacheOption(p, a)
    [] a.o = "u"                                   -> LifetimeOption(p, a)
    [] a.o \in {"s", "d", "o", "q", "f"}           -> PartOption(p, a)
    [] a.o \in {"t", "O", "Q", "n", "l", "e"}      -> FakeOption(p, a)
    [] a.o = "M"                                   -> ModOption(p, a)
    [] a.o \in {"m", "a"}                          -> NumberOption(p, a)
    [] a.o \in {"N", "X", "U", "i", "F"}           -> ServeOption(p, a)
    [] OTHER                                       -> ListenOption(p, a)

\* A mutant of LastGroup: the extra group is forgotten.
LastGroupNever(p) == p

\* A group for whatever the others leave, when all of them but the last one
\* named are limited.
LastGroup(p) ==
  IF p.limited THEN [p EXCEPT !.groups = Append(@, EmptyGroup)] ELSE p

ParseArgs(args) ==
  LET read == FoldLeft(ReadOption, Defaults, args)
  IN IF read.invalid THEN read
     ELSE [LastGroup(read) EXCEPT !.ipv6 = @ /\ read.bind = "v6",
                                  !.mode = IF @ = {} THEN {"socks4", "socks5"} ELSE @]
=============================================================================
