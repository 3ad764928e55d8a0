--------------------------- MODULE PacketStreamOps ---------------------------
(***************************************************************************)
(* What the operators of PacketFilter make of a request: the options leave *)
(* sizes that are numbers (Sized), a request that is rewritten tells the   *)
(* same (Retold), and its pieces cover it (Cover).  PacketFilterProofs     *)
(* builds on these.                                                        *)
(***************************************************************************)
EXTENDS PacketFilter, TLAPS, WellFoundedInduction, FiniteSetTheorems, SequenceTheorems

-----------------------------------------------------------------------------
(* Numbers *)

\* Every non-empty set of natural numbers has a least element.
LEMMA LeastOf == \A T \in SUBSET Nat : T # {} => \E x \in T : \A y \in T : x <= y
<1> SUFFICES ASSUME NEW T \in SUBSET Nat, T # {} PROVE \E x \in T : \A y \in T : x <= y
  OBVIOUS
<1>1. PICK x \in T : \A y \in T : <<y, x>> \notin OpToRel(<, Nat)
  BY NatLessThanWellFounded, WFMin
<1>2. \A y \in T : x <= y
  <2> SUFFICES ASSUME NEW y \in T PROVE x <= y
    OBVIOUS
  <2>1. ~(y < x)
    BY <1>1 DEF OpToRel
  <2> QED
    BY <2>1
<1> QED
  BY <1>2

\* A set with 0 and the successor of each of its members holds every natural number.
LEMMA Inductive ==
  ASSUME NEW S, 0 \in S, \A k \in Nat : k \in S => k + 1 \in S
  PROVE  \A k \in Nat : k \in S
<1> DEFINE T == Nat \ S
<1> SUFFICES ASSUME T # {} PROVE FALSE
  OBVIOUS
<1>1. PICK x \in T : \A y \in T : x <= y
  BY LeastOf
<1>2. x - 1 \in Nat /\ x - 1 \notin T
  BY <1>1
<1> QED
  BY <1>2

\* Max returns the greatest of a set of places.
LEMMA MaxIn ==
  ASSUME NEW k \in Nat, NEW T \in SUBSET (1 .. k), T # {}
  PROVE  Max(T) \in T /\ \A i \in T : i <= Max(T)
<1> DEFINE U == {k - i : i \in T}
<1>1. U \in SUBSET Nat /\ U # {}
  <2>1. \A i \in T : i \in Int /\ k - i \in Nat
    OBVIOUS
  <2> QED
    BY <2>1
<1>2. PICK x \in U : \A y \in U : x <= y
  <2> HIDE DEF U
  <2> QED
    BY <1>1, LeastOf
<1>3. PICK m \in T : x = k - m
  BY <1>2
<1>4. ASSUME NEW i \in T PROVE m >= i
  <2>1. k - m <= k - i
    BY <1>2, <1>3
  <2>2. i \in Int /\ m \in Int
    OBVIOUS
  <2> QED
    BY <2>1, <2>2
<1>5. \E y \in T : \A i \in T : y >= i
  BY <1>4
<1>6. Max(T) \in T /\ \A i \in T : Max(T) >= i
  BY <1>5 DEF Max
<1>7. ASSUME NEW i \in T PROVE i <= Max(T)
  <2>1. i \in 1 .. k /\ Max(T) \in 1 .. k /\ Max(T) >= i
    BY <1>6
  <2> QED
    BY <2>1
<1> QED
  BY <1>6, <1>7

-----------------------------------------------------------------------------
(* The option loops: from_profile and to_command_args of goodbye.rs, main *)

Listing(s) == \E S : s \in Seq(S)

\* The sizes the worker splits at are numbers.
Sized(c) == {"http", "https", "on"} \subseteq DOMAIN c /\ c.http \in Nat /\ c.https \in Nat

Gathered(g) == "custom" \in DOMAIN g /\ Listing(g.custom)

\* What is put together from lists is a list.
LEMMA CatListing == ASSUME NEW s, NEW t, Listing(s), Listing(t) PROVE Listing(s \o t)
<1>1. PICK S : s \in Seq(S)
  BY DEF Listing
<1>2. PICK T : t \in Seq(T)
  BY DEF Listing
<1> DEFINE U == S \cup T
<1>3. S \subseteq U /\ T \subseteq U
  OBVIOUS
<1> HIDE DEF U
<1>4. s \in Seq(U) /\ t \in Seq(U)
  BY <1>1, <1>2, <1>3
<1>5. s \o t \in Seq(U)
  BY <1>4
<1> QED
  BY <1>5 DEF Listing

\* An option that is there or not is a list of options.
LEMMA IfListing == \A b, a : Listing(If(b, a))
<1> SUFFICES ASSUME NEW b, NEW a PROVE Listing(If(b, a))
  OBVIOUS
<1>1. <<a>> \in Seq({a}) /\ <<>> \in Seq({a})
  OBVIOUS
<1> QED
  BY <1>1 DEF If, Listing

\* What the service passes on for a valued option is a list.
LEMMA ValueListing == \A g, o : Listing(ValueArg(g, o))
<1> SUFFICES ASSUME NEW g, NEW o PROVE Listing(ValueArg(g, o))
  OBVIOUS
<1> DEFINE a == Opt(o, g.val[o][1])
<1>1. ValueArg(g, o) \in {<<a>>, <<>>}
  BY DEF ValueArg
<1> HIDE DEF a
<1>2. <<a>> \in Seq({a}) /\ <<>> \in Seq({a})
  OBVIOUS
<1> QED
  BY <1>1, <1>2 DEF Listing

\* to_command_args returns a list of options.
LEMMA CommandListing == ASSUME NEW g, Gathered(g) PROVE Listing(ToCommandArgs(g, TRUE))
<1>1. Listing(g.custom)
  BY DEF Gathered
<1>2. Listing(TtlArgs(g))
  BY ValueListing DEF TtlArgs
<1>3. Listing(DnsArgs(g))
  <2> DEFINE a == ValueArg(g, "--dns-addr") \o ValueArg(g, "--dns-port")
             b == a \o ValueArg(g, "--dnsv6-addr")
  <2>1. Listing(a)
    BY ValueListing, CatListing
  <2> HIDE DEF a
  <2>2. Listing(b)
    BY <2>1, ValueListing, CatListing
  <2> HIDE DEF b
  <2>3. Listing(b \o ValueArg(g, "--dnsv6-port"))
    BY <2>2, ValueListing, CatListing
  <2> QED
    BY <2>3 DEF DnsArgs, b, a
<1>f. \A o : Listing(FlagArg(g, o))
  BY IfListing DEF FlagArg
<1> DEFINE a1 == FlagArg(g, "-p") \o FlagArg(g, "-q")
           a2 == a1 \o FlagArg(g, "-r")
           a3 == a2 \o FlagArg(g, "-s")
           a4 == a3 \o FlagArg(g, "-m")
           a5 == a4 \o ValueArg(g, "-f")
           a6 == a5 \o ValueArg(g, "-e")
           a7 == a6 \o FlagArg(g, "--native-frag")
           a8 == a7 \o FlagArg(g, "--reverse-frag")
           a9 == a8 \o FlagArg(g, "--wrong-seq")
           b1 == a9 \o FlagArg(g, "--wrong-chksum")
           b2 == b1 \o TtlArgs(g)
           b3 == b2 \o ValueArg(g, "--min-ttl")
           b4 == b3 \o ValueArg(g, "--max-payload")
           b5 == b4 \o (IF TRUE THEN DnsArgs(g) ELSE <<>>)
           b6 == b5 \o g.custom
<1> HIDE DEF a1, a2, a3, a4, a5, a6, a7, a8, a9, b1, b2, b3, b4, b5, b6
<1>4. Listing(a2)
  <2>1. Listing(a1)
    BY <1>f, CatListing DEF a1
  <2> QED
    BY <1>f, <2>1, CatListing DEF a2
<1>5. Listing(a4)
  <2>1. Listing(a3)
    BY <1>f, <1>4, CatListing DEF a3
  <2> QED
    BY <1>f, <2>1, CatListing DEF a4
<1>6. Listing(a6)
  <2>1. Listing(a5)
    BY <1>5, ValueListing, CatListing DEF a5
  <2> QED
    BY <2>1, ValueListing, CatListing DEF a6
<1>7. Listing(a8)
  <2>1. Listing(a7)
    BY <1>f, <1>6, CatListing DEF a7
  <2> QED
    BY <1>f, <2>1, CatListing DEF a8
<1>8. Listing(b1)
  <2>1. Listing(a9)
    BY <1>f, <1>7, CatListing DEF a9
  <2> QED
    BY <1>f, <2>1, CatListing DEF b1
<1>9. Listing(b3)
  <2>1. Listing(b2)
    BY <1>2, <1>8, CatListing DEF b2
  <2> QED
    BY <2>1, ValueListing, CatListing DEF b3
<1>10. Listing(b5)
  <2>1. Listing(b4)
    BY <1>9, ValueListing, CatListing DEF b4
  <2> QED
    BY <1>3, <2>1, CatListing DEF b5
<1>11. Listing(b6)
  BY <1>1, <1>10, CatListing DEF b6
<1> QED
  BY <1>11 DEF ToCommandArgs, b6, b5, b4, b3, b2, b1, a9, a8, a7, a6, a5, a4, a3, a2, a1

\* An option that sets neither size leaves them numbers.
LEMMA SameSizes ==
  \A c, d : Sized(c) /\ DOMAIN d = DOMAIN c /\ d.http \in Nat /\ d.https \in Nat => Sized(d)
BY DEF Sized

\* A size that main reads with atousi or atoub is a number within its limit, and what ends the
\* program sets no size.
LEMMA TurnOnSized == ASSUME NEW c, Sized(c) PROVE \A s : Sized(TurnOn(c, s))
BY SameSizes DEF TurnOn, Sized

\* An error leaves the sizes.
LEMMA ErrorSized == ASSUME NEW c, Sized(c) PROVE Sized(Error(c))
BY SameSizes DEF Error, Sized

\* A bounded number leaves the sizes or sets one of them.
LEMMA LimitedSized ==
  ASSUME NEW c, Sized(c), NEW v, NEW n, NEW d, v \in Nat => Sized(d)
  PROVE  Sized(Limited(c, v, n, d))
BY ErrorSized DEF Limited

\* The HTTP fragment size is set to a number.
LEMMA HttpSized ==
  ASSUME NEW c, Sized(c), NEW v \in Nat PROVE Sized(SetHttpSize(c, v))
BY SameSizes DEF SetHttpSize, Sized

\* So is the HTTPS one.
LEMMA HttpsSized ==
  ASSUME NEW c, Sized(c), NEW v \in Nat PROVE Sized(SetHttpsSize(c, v))
BY SameSizes DEF SetHttpsSize, Sized

\* The modes set sizes that are numbers.
LEMMA ModeSized ==
  ASSUME NEW c, Sized(c), NEW m
  PROVE  /\ m \in {"-1", "-2", "-3", "-4"} => Sized(LegacyMode(c, m))
         /\ Sized(ModernMode(c, m))
<1>1. ASSUME m \in {"-1", "-2", "-3", "-4"} PROVE Sized(LegacyMode(c, m))
  <2> DEFINE t1 == TurnOn(c, Blocked \cup Persistent \cup {"fragHttp", "fragHttps"})
             t2 == TurnOn(c, Blocked \cup {"fragHttps"})
             t3 == TurnOn(c, Blocked)
  <2>1. Sized(t1) /\ Sized(t2) /\ Sized(t3)
    BY TurnOnSized
  <2> HIDE DEF t1, t2, t3
  <2>2. Sized(SetHttpsSize(t1, 40)) /\ Sized(SetHttpsSize(t2, 40))
    BY <2>1, HttpsSized
  <2> QED
    BY <1>1, <2>1, <2>2 DEF LegacyMode, t1, t2, t3
<1>2. Sized(ModernMode(c, m))
  <2> DEFINE extra == CASE m = "-5" -> {"autoTtl"}
                        [] m = "-6" -> {"wrongSeq"}
                        [] m = "-7" -> {"wrongChksum"}
                        [] m = "-8" -> {"wrongChksum", "wrongSeq"}
                        [] m = "-9" -> {"wrongChksum", "wrongSeq", "quic"}
             t == TurnOn(c, Persistent \cup {"fragHttp", "fragHttps", "reverse", "native", "fake"} \cup extra)
             d == [t EXCEPT !.http = 2, !.https = 2, !.maxPayload = 1200]
  <2>1. ModernMode(c, m) = d
    BY DEF ModernMode
  <2>2. Sized(t)
    BY TurnOnSized
  <2> HIDE DEF t
  <2>3. Sized(d)
    BY <2>2, SameSizes DEF Sized
  <2> QED
    BY <2>1, <2>3
<1> QED
  BY <1>1, <1>2

\* -f, -k and -e set a size within two bytes, the other letters none.
LEMMA ShortSized ==
  ASSUME NEW c, Sized(c), NEW a, a.o \in ShortOptions PROVE Sized(ShortOption(c, a))
<1> DEFINE f == SetHttpSize(TurnOn(c, {"fragHttp"}), a.v)
           k == SetHttpSize(TurnOn(c, {"persistent", "native"}), a.v)
           e == SetHttpsSize(TurnOn(c, {"fragHttps"}), a.v)
<1>1. Sized(Limited(c, a.v, MaxShort, f)) /\ Sized(Limited(c, a.v, MaxShort, k))
  <2>1. a.v \in Nat => Sized(f) /\ Sized(k)
    BY TurnOnSized, HttpSized
  <2> HIDE DEF f, k
  <2> QED
    BY <2>1, LimitedSized
<1>2. Sized(Limited(c, a.v, MaxShort, e))
  <2>1. a.v \in Nat => Sized(e)
    BY TurnOnSized, HttpsSized
  <2> HIDE DEF e
  <2> QED
    BY <2>1, LimitedSized
<1>3. \A s : Sized(TurnOn(c, s))
  BY TurnOnSized
<1> QED
  BY <1>1, <1>2, <1>3 DEF ShortOption, ShortOptions

\* The options of the filter string and of the list of names set no size.
LEMMA FilterSized ==
  ASSUME NEW c, Sized(c), NEW a, a.o \in FilterOptions PROVE Sized(FilterOption(c, a))
<1>1. ASSUME NEW d, Sized(d), NEW n
      PROVE  Sized(AddTcpPort(d, n)) /\ Sized(AddUdpPort(d, n)) /\ Sized(AddIpId(d, n))
  BY <1>1, SameSizes DEF AddTcpPort, AddUdpPort, AddIpId, Sized
<1>2. ASSUME NEW d, Sized(d), NEW n PROVE Sized(LoadList(d, n))
  BY <1>2, ErrorSized, SameSizes DEF LoadList, Sized
<1>3. \A s : Sized(TurnOn(c, s)) /\ Sized(Error(c))
  BY TurnOnSized, ErrorSized
<1>4. \A s, n : Sized(AddUdpPort(TurnOn(c, s), n)) /\ Sized(LoadList(TurnOn(c, s), n))
  BY <1>1, <1>2, <1>3
<1>5. Sized(ExtraPort(c, a.v)) /\ \A s : Sized(DnsAddr(c, s))
  BY <1>1, <1>3, <1>4 DEF ExtraPort, DnsAddr
<1>6. Sized(Limited(c, a.v, MaxShort, AddIpId(c, a.v)))
  BY <1>1, LimitedSized
<1> QED
  BY <1>3, <1>4, <1>5, <1>6 DEF FilterOption, FilterOptions

\* --dns-port and --dnsv6-port set no size.
LEMMA DnsPortSized == ASSUME NEW c, Sized(c), NEW a PROVE Sized(DnsPort(c, a))
<1> DEFINE d == AddUdpPort(c, a.v)
<1>1. Sized(d)
  BY SameSizes DEF AddUdpPort, Sized
<1> HIDE DEF d
<1>2. Sized([d EXCEPT !.port4 = a.v]) /\ Sized([d EXCEPT !.port6 = a.v])
  BY <1>1, SameSizes DEF Sized
<1> QED
  BY <1>2, ErrorSized DEF DnsPort, d

\* The options for fake requests set no size.
LEMMA AutoSized == ASSUME NEW c, Sized(c), NEW v PROVE Sized(AutoTtlOption(c, v))
<1> DEFINE d == TurnOn(c, {"fake", "autoTtl"})
           one == [d EXCEPT !.ttl1 = v[1], !.ttl2 = v[1]]
           all == [d EXCEPT !.ttl1 = v[1], !.ttl2 = v[2], !.ttlMax = v[3]]
<1>1. Sized(d)
  BY TurnOnSized
<1> HIDE DEF d
<1>2. Sized(one) /\ Sized(all)
  BY <1>1, SameSizes DEF Sized
<1> HIDE DEF one, all
<1>3. Sized(Limited(c, v[1], MaxByte, one)) /\ Sized(Error(c))
  BY <1>2, ErrorSized, LimitedSized
<1> QED
  BY <1>1, <1>2, <1>3 DEF AutoTtlOption, d, one, all

\* Adding a fake payload leaves the sizes.
LEMMA AddSized == ASSUME NEW c, Sized(c), NEW n PROVE Sized(FakeAdd(c, n))
<1>1. Sized([c EXCEPT !.fakes = @ + n])
  BY SameSizes DEF Sized
<1> QED
  BY <1>1 DEF FakeAdd

\* So does every option about fakes.
LEMMA FakeSized == ASSUME NEW c, Sized(c), NEW a PROVE Sized(FakeOption(c, a))
<1> DEFINE t1 == SetTtl(c, a.v)
           t2 == SetMinHops(c, a.v)
           t3 == SetMaxPayload(c, a.v)
           t4 == SetResend(c, a.v)
<1>1. Sized(t1) /\ Sized(t3) /\ Sized(t4)
  BY SameSizes DEF Sized, SetTtl, SetMaxPayload, SetResend
<1>2. Sized(t2)
  BY TurnOnSized, SameSizes DEF Sized, SetMinHops
<1>3. Sized(FakeFromSni(c, a.v)) /\ Sized(FakeFromHex(c, a.v)) /\ Sized(FakeRandom(c, a.v))
  BY AddSized DEF FakeFromSni, FakeFromHex, FakeRandom
<1> HIDE DEF t1, t2, t3, t4
<1>4. ASSUME NEW n, NEW d, Sized(d) PROVE Sized(Limited(c, a.v, n, d))
  BY <1>4, LimitedSized
<1>5. /\ Sized(Limited(c, a.v, MaxByte, t1)) /\ Sized(Limited(c, a.v, MaxByte, t2))
      /\ Sized(Limited(c, a.v, MaxShort, t3)) /\ Sized(Limited(c, a.v, MaxByte, t4))
      /\ Sized(Limited(c, a.v, MaxByte, FakeRandom(c, a.v)))
  BY <1>1, <1>2, <1>3, <1>4
<1>6. (\A s : Sized(TurnOn(c, s))) /\ Sized(Error(c)) /\ Sized(AutoTtlOption(c, a.v))
  BY TurnOnSized, ErrorSized, AutoSized
<1> QED
  BY <1>3, <1>5, <1>6 DEF FakeOption, t1, t2, t3, t4

\* Whatever option main reads, the sizes stay numbers.
LEMMA ApplySized == ASSUME NEW c, Sized(c), NEW a PROVE Sized(ApplyOption(c, a))
BY ModeSized, ShortSized, FilterSized, DnsPortSized, FakeSized DEF ApplyOption

\* from_profile keeps the options it does not know as a list.
LEMMA AdapterGathers == ASSUME NEW g, Gathered(g), NEW a PROVE Gathered(AdapterOption(g, a))
<1>1. ASSUME NEW h, Gathered(h)
      PROVE  \A o, v : Gathered(SetFlags(h, o)) /\ Gathered(SetValue(h, o, v)) /\ Gathered(Clear(h, o))
  BY <1>1 DEF Gathered, SetFlags, SetValue, Clear
<1>2. Gathered(AdapterMode(g, a.o)) \/ a.o \notin AdapterModes
  <2> DEFINE sizes == SetValue(SetValue(g, "-f", 2), "-e", 2)
             split == SetValue(SetFlags(sizes, {"--native-frag", "--reverse-frag"}), "--max-payload", 1200)
             plain == [split EXCEPT !.flags = @ \ {"--wrong-seq", "--wrong-chksum", "-q"}]
             auto == Clear(SetValue(plain, "--auto-ttl", <<1, 4, 10>>), "--set-ttl")
  <2>1. Gathered(SetValue(g, "-f", 2))
    BY <1>1
  <2>2. Gathered(sizes)
    BY <1>1, <2>1
  <2> HIDE DEF sizes
  <2>3. Gathered(SetFlags(sizes, {"--native-frag", "--reverse-frag"}))
    BY <1>1, <2>2
  <2>4. Gathered(split)
    BY <1>1, <2>3
  <2> HIDE DEF split
  <2>5. Gathered(plain)
    BY <2>4 DEF Gathered
  <2> HIDE DEF plain
  <2>6. Gathered(SetValue(plain, "--auto-ttl", <<1, 4, 10>>))
    BY <1>1, <2>5
  <2>7. Gathered(auto) /\ \A s : Gathered(SetFlags(sizes, s)) /\ Gathered(SetFlags(split, s))
    BY <1>1, <2>2, <2>4, <2>6
  <2> QED
    BY <2>7 DEF AdapterMode, AdapterModes, sizes, split, plain
<1> DEFINE h == [g EXCEPT !.custom = Append(@, a)]
<1>3. Gathered(h)
  <2>2. DOMAIN h = DOMAIN g /\ h.custom = Append(g.custom, a)
    BY DEF Gathered
  <2> HIDE DEF h
  <2>3. PICK S : g.custom \in Seq(S)
    BY DEF Gathered, Listing
  <2> DEFINE T == S \cup {a}
  <2>4. S \subseteq T /\ a \in T
    OBVIOUS
  <2> HIDE DEF T
  <2>5. g.custom \in Seq(T)
    BY <2>3, <2>4
  <2>6. Append(g.custom, a) \in Seq(T)
    BY <2>4, <2>5
  <2> QED
    BY <2>2, <2>6 DEF Gathered, Listing
<1> DEFINE x == IF a.v = <<>> THEN <<1, 4, 10>> ELSE a.v
           y == Clear(SetValue(g, a.o, x), "--set-ttl")
           z == Clear(SetValue(g, a.o, a.v), "--auto-ttl")
<1>4. Gathered(y) /\ Gathered(z) /\ Gathered(SetValue(g, a.o, a.v)) /\ Gathered(SetFlags(g, {a.o}))
  <2> HIDE DEF x
  <2> QED
    BY <1>1
<1> HIDE DEF h
<1> QED
  BY <1>2, <1>3, <1>4 DEF AdapterOption, h

\* One turn of an option loop: the adapter's over a profile, the worker's over its arguments.
Turn(loop, q, a) == IF loop = "adapter" THEN AdapterOption(q, a) ELSE ApplyOption(q, a)
Before(loop) == IF loop = "adapter" THEN NoConfig ELSE Unset
WellRead(loop, q) == IF loop = "adapter" THEN Gathered(q) ELSE Sized(q)

\* The turns over the options in t, the last of them read last.
TurnLast(loop, f, args, t) ==
  IF t = {} THEN Before(loop) ELSE Turn(loop, f[t \ {Max(t)}], args[Max(t)])

\* f takes the turns over the first m options one by one.
Turns(loop, args, m, f) == f = [t \in SUBSET (1 .. m) |-> TurnLast(loop, f, args, t)]

\* There is a function that takes the turns one by one.
LEMMA TurnsExist ==
  ASSUME NEW loop, NEW args, NEW m \in Nat
  PROVE  \E f : Turns(loop, args, m, f)
<1> DEFINE S == {k \in Nat : \E f : Turns(loop, args, k, f)}
<1>1. 0 \in S
  <2> DEFINE f == [t \in SUBSET (1 .. 0) |-> Before(loop)]
  <2>1. \A t \in SUBSET (1 .. 0) : t = {}
    OBVIOUS
  <2>2. f = [t \in SUBSET (1 .. 0) |-> TurnLast(loop, f, args, t)]
    BY <2>1 DEF TurnLast
  <2> HIDE DEF f
  <2> QED
    BY <2>2 DEF Turns
<1>2. ASSUME NEW k \in Nat, k \in S PROVE k + 1 \in S
  <2>0. PICK f : Turns(loop, args, k, f)
    BY <1>2
  <2>1. f = [t \in SUBSET (1 .. k) |-> TurnLast(loop, f, args, t)]
    BY <2>0 DEF Turns
  <2> DEFINE g == [t \in SUBSET (1 .. (k + 1)) |->
                     IF k + 1 \in t THEN Turn(loop, f[t \ {k + 1}], args[k + 1]) ELSE f[t]]
  <2>2. ASSUME NEW t \in SUBSET (1 .. (k + 1)) PROVE g[t] = TurnLast(loop, g, args, t)
    <3>1. CASE k + 1 \in t
      <4>1. Max(t) = k + 1
        <5>1. k + 1 \in Nat /\ t # {}
          BY <3>1
        <5>2. Max(t) \in t /\ \A i \in t : i <= Max(t)
          BY <5>1, MaxIn
        <5>3. k + 1 <= Max(t) /\ Max(t) \in 1 .. (k + 1)
          BY <3>1, <5>2
        <5> QED
          BY <5>3
      <4>2. t \ {k + 1} \in SUBSET (1 .. (k + 1)) /\ k + 1 \notin t \ {k + 1}
        OBVIOUS
      <4>3. g[t \ {k + 1}] = f[t \ {k + 1}]
        BY <4>2
      <4>4. g[t] = Turn(loop, f[t \ {k + 1}], args[k + 1])
        BY <3>1
      <4> HIDE DEF g
      <4> QED
        BY <3>1, <4>1, <4>3, <4>4 DEF TurnLast
    <3>2. CASE k + 1 \notin t
      <4>1. t \in SUBSET (1 .. k)
        BY <3>2
      <4>2. g[t] = f[t] /\ f[t] = TurnLast(loop, f, args, t)
        BY <2>1, <3>2, <4>1
      <4>3. CASE t = {}
        BY <4>2, <4>3 DEF TurnLast
      <4>4. CASE t # {}
        <5> DEFINE u == t \ {Max(t)}
        <5>1. u \in SUBSET (1 .. (k + 1)) /\ k + 1 \notin u
          BY <3>2
        <5>2. g[u] = f[u]
          BY <5>1
        <5> HIDE DEF g
        <5> QED
          BY <4>2, <4>4, <5>2 DEF TurnLast
      <4> QED
        BY <4>3, <4>4
    <3> QED
      BY <3>1, <3>2
  <2>3. g = [t \in SUBSET (1 .. (k + 1)) |-> TurnLast(loop, g, args, t)]
    <3>1. g = [t \in SUBSET (1 .. (k + 1)) |-> g[t]]
      OBVIOUS
    <3> HIDE DEF g
    <3> QED
      BY <2>2, <3>1
  <2> HIDE DEF g
  <2> QED
    BY <2>3 DEF Turns
<1>3. \A k \in Nat : k \in S
  <2> HIDE DEF S
  <2> QED
    BY <1>1, <1>2, Inductive
<1> QED
  BY <1>3

\* However many turns are taken, what is read stays well formed.
LEMMA TurnsKeep ==
  ASSUME NEW loop, NEW args, NEW m \in Nat, NEW f
  PROVE  Turns(loop, args, m, f) => WellRead(loop, f[1 .. m])
<1>0. SUFFICES ASSUME f = [t \in SUBSET (1 .. m) |-> TurnLast(loop, f, args, t)]
               PROVE  WellRead(loop, f[1 .. m])
  BY DEF Turns
<1> DEFINE S == {k \in Nat : \A t \in SUBSET (1 .. m) : t \subseteq 1 .. k => WellRead(loop, f[t])}
<1>1. WellRead(loop, Before(loop))
  <2>1. Gathered(NoConfig)
    <3>1. <<>> \in Seq({})
      OBVIOUS
    <3> QED
      BY <3>1 DEF NoConfig, Gathered, Listing
  <2>2. Sized(Unset)
    BY DEF Unset, Sized
  <2> QED
    BY <2>1, <2>2 DEF WellRead, Before
<1>2. \A q, a : WellRead(loop, q) => WellRead(loop, Turn(loop, q, a))
  BY AdapterGathers, ApplySized DEF WellRead, Turn
<1>3. 0 \in S
  BY <1>0, <1>1 DEF TurnLast
<1>4. ASSUME NEW k \in Nat, k \in S PROVE k + 1 \in S
  <2> SUFFICES ASSUME NEW t \in SUBSET (1 .. m), t \subseteq 1 .. (k + 1) PROVE WellRead(loop, f[t])
    OBVIOUS
  <2>1. CASE t = {}
    BY <1>0, <1>1, <2>1 DEF TurnLast
  <2>2. CASE t # {}
    <3> DEFINE u == t \ {Max(t)}
    <3>1. Max(t) \in t /\ \A i \in t : i <= Max(t)
      BY <2>2, MaxIn
    <3>2. u \in SUBSET (1 .. m) /\ u \subseteq 1 .. k
      <4>1. ASSUME NEW i \in u PROVE i \in 1 .. k
        <5>1. i \in 1 .. (k + 1) /\ Max(t) \in 1 .. (k + 1) /\ i <= Max(t) /\ i # Max(t)
          BY <3>1
        <5> QED
          BY <5>1
      <4> QED
        BY <4>1
    <3>3. WellRead(loop, f[u])
      BY <1>4, <3>2
    <3>4. f[t] = Turn(loop, f[u], args[Max(t)])
      BY <1>0, <2>2 DEF TurnLast
    <3> HIDE DEF u
    <3> QED
      BY <1>2, <3>3, <3>4
  <2> QED
    BY <2>1, <2>2
<1>5. m \in S
  <2> HIDE DEF S
  <2> QED
    BY <1>3, <1>4, Inductive
<1> QED
  BY <1>5

\* from_profile returns a well-formed configuration for every list of options.
LEMMA ProfileGathered ==
  ASSUME NEW args, NEW m \in Nat, DOMAIN args = 1 .. m PROVE Gathered(FromProfile(args))
<1> DEFINE P(h) == h = [t \in SUBSET (1 .. m) |-> IF t = {} THEN NoConfig
                                                   ELSE AdapterOption(h[t \ {Max(t)}], args[Max(t)])]
           f == CHOOSE h : P(h)
<1>1. \A h : TurnLast("adapter", h, args, {}) = NoConfig
  BY DEF TurnLast, Before
<1>2. ASSUME NEW h, NEW t PROVE TurnLast("adapter", h, args, t) =
                                  IF t = {} THEN NoConfig ELSE AdapterOption(h[t \ {Max(t)}], args[Max(t)])
  BY DEF TurnLast, Before, Turn
<1>3. \A h : P(h) <=> Turns("adapter", args, m, h)
  BY <1>2 DEF Turns
<1>4. \E h : P(h)
  <2> HIDE DEF P
  <2> QED
    BY <1>3, TurnsExist
<1>5. P(f)
  <2> HIDE DEF P
  <2> QED
    BY <1>4
<1>6. FromProfile(args) = f[1 .. m]
  BY DEF FromProfile, FoldLeft, MapThenFoldSet
<1> HIDE DEF f
<1>7. WellRead("adapter", f[1 .. m])
  <2> HIDE DEF P
  <2> QED
    BY <1>3, <1>5, TurnsKeep
<1> QED
  BY <1>6, <1>7 DEF WellRead

\* main leaves sizes that are numbers, whatever arguments it is given.
LEMMA ConfigureSized ==
  ASSUME NEW args, NEW m \in Nat, DOMAIN args = 1 .. m PROVE Sized(Configure(args))
<1> DEFINE P(h) == h = [t \in SUBSET (1 .. m) |-> IF t = {} THEN Unset
                                                   ELSE ApplyOption(h[t \ {Max(t)}], args[Max(t)])]
           f == CHOOSE h : P(h)
           read == FoldLeft(ApplyOption, Unset, args)
<1>1. ASSUME NEW h, NEW t PROVE TurnLast("worker", h, args, t) =
                                  IF t = {} THEN Unset ELSE ApplyOption(h[t \ {Max(t)}], args[Max(t)])
  BY DEF TurnLast, Before, Turn
<1>2. \A h : P(h) <=> Turns("worker", args, m, h)
  BY <1>1 DEF Turns
<1>3. \E h : P(h)
  <2> HIDE DEF P
  <2> QED
    BY <1>2, TurnsExist
<1>4. P(f)
  <2> HIDE DEF P
  <2> QED
    BY <1>3
<1>5. read = f[1 .. m]
  BY DEF FoldLeft, MapThenFoldSet
<1> HIDE DEF f, read
<1>6. Sized(read)
  <2>1. WellRead("worker", f[1 .. m])
    <3> HIDE DEF P
    <3> QED
      BY <1>2, <1>4, TurnsKeep
  <2> QED
    BY <1>5, <2>1 DEF WellRead
<1> DEFINE c == IF args = <<>> THEN ModernMode(Unset, "-9") ELSE read
<1>7. Sized(c)
  <2>1. Sized(Unset)
    BY DEF Unset, Sized
  <2> QED
    BY <1>6, <2>1, ModeSized
<1>8. Configure(args) = Defaults(c)
  BY DEF Configure, read
<1> HIDE DEF c
<1>9. Sized(Defaults(c))
  <2> DEFINE auto == "autoTtl" \in c.on
             d == [c EXCEPT !.http = Or(@, 2), !.https = Or(@, 2), !.ttl1 = Or(@, 1), !.ttl2 = Or(@, 4),
                            !.minHops = IF auto THEN Or(@, 3) ELSE @,
                            !.ttlMax = IF auto THEN Or(@, 10) ELSE @]
  <2>1. DOMAIN d = DOMAIN c /\ d.http = Or(c.http, 2) /\ d.https = Or(c.https, 2)
    BY <1>7 DEF Sized
  <2>2. Or(c.http, 2) \in Nat /\ Or(c.https, 2) \in Nat
    BY <1>7 DEF Or, Sized
  <2>3. Defaults(c) = IF "native" \in c.on /\ {"fragHttp", "fragHttps"} \cap c.on = {} THEN Error(d) ELSE d
    BY DEF Defaults
  <2> HIDE DEF d
  <2>4. Sized(d)
    BY <1>7, <2>1, <2>2, SameSizes
  <2> QED
    BY <2>3, <2>4, ErrorSized
<1> QED
  BY <1>8, <1>9

\* The worker's sizes are numbers, whatever the profile.
LEMMA StartedSized == ASSUME NEW p \in Profiles PROVE Sized(Started(p))
<1>1. Len(p) \in Nat /\ DOMAIN p = 1 .. Len(p)
  BY ProfilesAreLists
<1>2. Gathered(FromProfile(p))
  BY <1>1, ProfileGathered
<1> DEFINE args == ToCommandArgs(FromProfile(p), TRUE)
<1>3. Listing(args)
  BY <1>2, CommandListing
<1> HIDE DEF args
<1>4. Len(args) \in Nat /\ DOMAIN args = 1 .. Len(args)
  BY <1>3 DEF Listing
<1>5. Sized(Configure(args))
  BY <1>4, ConfigureSized
<1> QED
  BY <1>5 DEF Started, args

-----------------------------------------------------------------------------
(* Text: the bytes that are no spaces, in their order *)

\* f takes the letters of d to those of e, in their order, and keeps what they are.
Carries(f, d, e) ==
  /\ f \in [Letters(d) -> Letters(e)]
  /\ \A j \in Letters(e) : \E i \in Letters(d) : f[i] = j
  /\ \A i, j \in Letters(d) : i < j => f[i] < f[j]
  /\ \A i \in Letters(d) : Lower(d[i]) = Lower(e[f[i]])

\* A stream has finitely many letters, at places that are numbers.
LEMMA FiniteLetters ==
  ASSUME NEW d, NEW n \in Nat, DOMAIN d = 1 .. n
  PROVE  /\ IsFiniteSet(Letters(d)) /\ Letters(d) \subseteq Int
         /\ \A i : IsFiniteSet({j \in Letters(d) : j <= i})
<1>1. IsFiniteSet(1 .. n)
  BY FS_Interval
<1>2. \A T : T \subseteq 1 .. n => IsFiniteSet(T)
  BY <1>1, FS_Subset
<1>3. Letters(d) \subseteq 1 .. n
  BY DEF Letters
<1>4. \A i : {j \in Letters(d) : j <= i} \subseteq 1 .. n
  BY <1>3
<1> QED
  BY <1>2, <1>3, <1>4

\* Two letters have different ranks.
LEMMA RankInjective ==
  ASSUME NEW d, NEW n \in Nat, DOMAIN d = 1 .. n, NEW i \in Letters(d), NEW j \in Letters(d),
         Rank(d, i) = Rank(d, j)
  PROVE  i = j
<1>1. \A k, l \in Letters(d) : k < l => Rank(d, k) # Rank(d, l)
  <2> SUFFICES ASSUME NEW k \in Letters(d), NEW l \in Letters(d), k < l PROVE Rank(d, k) # Rank(d, l)
    OBVIOUS
  <2> DEFINE K == {x \in Letters(d) : x <= k} M == {x \in Letters(d) : x <= l}
  <2>1. IsFiniteSet(M) /\ IsFiniteSet(K) /\ Letters(d) \subseteq Int
    BY FiniteLetters
  <2>2. K \subseteq M /\ l \in M /\ l \notin K
    BY <2>1
  <2> HIDE DEF K, M
  <2>3. Cardinality(K) # Cardinality(M)
    <3>1. K # M /\ K \in SUBSET M
      BY <2>2
    <3> QED
      BY <2>1, <3>1, FS_Subset
  <2> QED
    BY <2>3 DEF Rank, K, M
<1>2. i \in Int /\ j \in Int
  BY FiniteLetters
<1>3. i < j \/ j < i \/ i = j
  BY <1>2
<1> QED
  BY <1>1, <1>3

\* What carries the letters over keeps their ranks, so the text is the same.
LEMMA CarriedText ==
  ASSUME NEW d, NEW e, NEW n \in Nat, DOMAIN d = 1 .. n, DOMAIN e = 1 .. n, NEW f, Carries(f, d, e)
  PROVE  SameText(d, e)
<1>0. /\ f \in [Letters(d) -> Letters(e)]
      /\ \A j \in Letters(e) : \E i \in Letters(d) : f[i] = j
      /\ \A i, j \in Letters(d) : i < j => f[i] < f[j]
      /\ \A i \in Letters(d) : Lower(d[i]) = Lower(e[f[i]])
  BY DEF Carries
<1>1. /\ IsFiniteSet(Letters(d)) /\ Letters(d) \subseteq Int /\ Letters(e) \subseteq Int
      /\ \A i : IsFiniteSet({j \in Letters(d) : j <= i})
  BY FiniteLetters
<1>2. \A i, j \in Letters(d) : f[i] = f[j] => i = j
  <2> SUFFICES ASSUME NEW i \in Letters(d), NEW j \in Letters(d), f[i] = f[j] PROVE i = j
    OBVIOUS
  <2>1. i \in Int /\ j \in Int /\ f[i] \in Int /\ f[j] \in Int
    BY <1>0, <1>1
  <2>2. ~ (i < j) /\ ~ (j < i)
    BY <1>0, <2>1
  <2> QED
    BY <2>1, <2>2
<1>3. \A i, j \in Letters(d) : i <= j <=> f[i] <= f[j]
  <2> SUFFICES ASSUME NEW i \in Letters(d), NEW j \in Letters(d) PROVE i <= j <=> f[i] <= f[j]
    OBVIOUS
  <2>1. i \in Int /\ j \in Int /\ f[i] \in Int /\ f[j] \in Int
    BY <1>0, <1>1
  <2>2. (i < j => f[i] < f[j]) /\ (j < i => f[j] < f[i]) /\ (i = j => f[i] = f[j])
    BY <1>0
  <2> QED
    BY <2>1, <2>2
<1>4. ASSUME NEW S \in SUBSET Letters(d), NEW T \in SUBSET Letters(e), IsFiniteSet(S),
             \A i \in Letters(d) : i \in S <=> f[i] \in T
      PROVE  Cardinality(S) = Cardinality(T)
  <2> DEFINE g == [i \in S |-> f[i]]
  <2>1. g \in [S -> T] /\ \A i, j \in S : g[i] = g[j] => i = j
    BY <1>0, <1>2, <1>4
  <2>2. \A j \in T : \E i \in S : g[i] = j
    BY <1>0, <1>4
  <2> HIDE DEF g
  <2>3. g \in Bijection(S, T)
    BY <2>1, <2>2 DEF Bijection, Injection, Surjection, IsInjective
  <2> QED
    BY <1>4, <2>3, FS_Bijection DEF ExistsBijection
<1>5. Cardinality(Letters(d)) = Cardinality(Letters(e))
  BY <1>0, <1>1, <1>4
<1>6. ASSUME NEW i \in Letters(d) PROVE Rank(e, f[i]) = Rank(d, i)
  <2> DEFINE S == {x \in Letters(d) : x <= i} T == {x \in Letters(e) : x <= f[i]}
  <2>1. S \in SUBSET Letters(d) /\ T \in SUBSET Letters(e) /\ IsFiniteSet(S)
    BY <1>1
  <2>2. \A x \in Letters(d) : x \in S <=> f[x] \in T
    BY <1>0, <1>3
  <2> HIDE DEF S, T
  <2>3. Cardinality(S) = Cardinality(T)
    BY <1>4, <2>1, <2>2
  <2> QED
    BY <2>3 DEF Rank, S, T
<1>7. ASSUME NEW i \in Letters(d), NEW j \in Letters(e), Rank(d, i) = Rank(e, j)
      PROVE  Lower(d[i]) = Lower(e[j])
  <2>1. PICK k \in Letters(d) : f[k] = j
    BY <1>0
  <2>2. Rank(d, k) = Rank(d, i)
    BY <1>6, <1>7, <2>1
  <2>3. k = i
    BY <2>2, RankInjective
  <2> QED
    BY <1>0, <2>1, <2>3
<1> QED
  BY <1>5, <1>7 DEF SameText

\* What a stream consists of, before and after the rewriting.
Bytes == STRING \cup {"SP", "A", "B", "hoSt:"}

\* Two streams that differ in case and the spelling of Host only.
Spelled(d, e) ==
  /\ d \in Seq(Bytes) /\ e \in Seq(Bytes) /\ Len(e) = Len(d)
  /\ \A i \in 1 .. Len(d) : Lower(d[i]) = Lower(e[i]) /\ (d[i] = "SP" <=> e[i] = "SP")

\* Where byte i is after the one at a has gone to b.
Shift(i, a, b) == IF a < i /\ i <= b THEN i - 1 ELSE IF b <= i /\ i < a THEN i + 1 ELSE i

\* The space at a of d has gone to b of r.
Moved(d, r, a, b) ==
  /\ r \in Seq(Bytes) /\ Len(r) = Len(d) /\ a \in 1 .. Len(d) /\ b \in 1 .. Len(d)
  /\ d[a] = "SP" /\ r[b] = "SP"
  /\ \A i \in 1 .. Len(d) : i # a => r[Shift(i, a, b)] = d[i]

\* The bytes stay in their order, and there is a way back.
Ordered(n, a, b) ==
  /\ \A i \in 1 .. n : i # a => Shift(i, a, b) \in 1 .. n
  /\ \A i, j \in 1 .. n : i # a /\ j # a /\ i < j => Shift(i, a, b) < Shift(j, a, b)
  /\ \A j \in 1 .. n : j # b => /\ Shift(j, b, a) \in 1 .. n /\ Shift(j, b, a) # a
                                /\ Shift(Shift(j, b, a), a, b) = j

\* Moving one byte keeps the others in their order.
LEMMA ShiftKeeps ==
  ASSUME NEW n \in Nat, NEW a \in 1 .. n, NEW b \in 1 .. n
  PROVE  Ordered(n, a, b)
BY DEF Ordered, Shift

\* Spelling is no concern of the text.
LEMMA SpelledText == ASSUME NEW d, NEW e, Spelled(d, e) PROVE SameText(d, e)
<1> DEFINE f == [i \in Letters(d) |-> i]
<1>0. d \in Seq(Bytes) /\ e \in Seq(Bytes) /\ Len(e) = Len(d) /\ Len(d) \in Nat
  BY DEF Spelled
<1>1. DOMAIN d = 1 .. Len(d) /\ DOMAIN e = 1 .. Len(d)
  BY <1>0
<1>2. Letters(d) = Letters(e)
  BY <1>1 DEF Letters, Spelled
<1>3. \A i \in Letters(d) : Lower(d[i]) = Lower(e[i])
  BY <1>1 DEF Letters, Spelled
<1>4. Carries(f, d, e)
  BY <1>2, <1>3 DEF Carries
<1> HIDE DEF f
<1> QED
  BY <1>0, <1>1, <1>4, CarriedText

\* Nor is the place of a space.
LEMMA MovedText ==
  ASSUME NEW d, NEW e, NEW r, NEW a, NEW b, Spelled(d, e), Moved(e, r, a, b)
  PROVE  SameText(d, r)
<1> DEFINE n == Len(d) f == [i \in Letters(d) |-> Shift(i, a, b)]
<1>0. d \in Seq(Bytes) /\ e \in Seq(Bytes) /\ Len(e) = n /\ n \in Nat
  BY DEF Spelled
<1>1. /\ r \in Seq(Bytes) /\ Len(r) = n /\ a \in 1 .. n /\ b \in 1 .. n
      /\ e[a] = "SP" /\ r[b] = "SP" /\ \A i \in 1 .. n : i # a => r[Shift(i, a, b)] = e[i]
  BY <1>0 DEF Moved
<1>2. DOMAIN d = 1 .. n /\ DOMAIN r = 1 .. n
  BY <1>0, <1>1
<1>3. \A i \in 1 .. n : Lower(d[i]) = Lower(e[i]) /\ (d[i] = "SP" <=> e[i] = "SP")
  BY DEF Spelled
<1> HIDE DEF n
<1>4. \A i : i \in Letters(d) <=> i \in 1 .. n /\ e[i] # "SP"
  BY <1>2, <1>3 DEF Letters
<1>5. \A i : i \in Letters(r) <=> i \in 1 .. n /\ r[i] # "SP"
  BY <1>2 DEF Letters
<1>6. /\ \A i \in 1 .. n : i # a => Shift(i, a, b) \in 1 .. n
      /\ \A i, j \in 1 .. n : i # a /\ j # a /\ i < j => Shift(i, a, b) < Shift(j, a, b)
      /\ \A j \in 1 .. n : j # b => /\ Shift(j, b, a) \in 1 .. n /\ Shift(j, b, a) # a
                                    /\ Shift(Shift(j, b, a), a, b) = j
  <2>1. Ordered(n, a, b)
    BY <1>0, <1>1, ShiftKeeps
  <2> QED
    BY <2>1 DEF Ordered
<1>7. \A i \in Letters(d) : i \in 1 .. n /\ i # a
  BY <1>1, <1>4
<1>8. \A i \in Letters(d) : Shift(i, a, b) \in Letters(r) /\ Lower(d[i]) = Lower(r[Shift(i, a, b)])
  BY <1>1, <1>3, <1>4, <1>5, <1>6, <1>7
<1>9. ASSUME NEW j \in Letters(r) PROVE \E i \in Letters(d) : Shift(i, a, b) = j
  <2> DEFINE i == Shift(j, b, a)
  <2>1. j \in 1 .. n /\ j # b /\ r[j] # "SP"
    BY <1>1, <1>5
  <2>2. i \in 1 .. n /\ i # a /\ Shift(i, a, b) = j
    BY <1>6, <2>1
  <2> HIDE DEF i
  <2>3. i \in Letters(d)
    BY <1>1, <1>4, <2>1, <2>2
  <2> QED
    BY <2>2, <2>3
<1>10. \A i, j \in Letters(d) : i < j => Shift(i, a, b) < Shift(j, a, b)
  BY <1>6, <1>7
<1>11. Carries(f, d, r)
  <2>1. f \in [Letters(d) -> Letters(r)] /\ \A i \in Letters(d) : f[i] = Shift(i, a, b)
    BY <1>8
  <2> HIDE DEF f
  <2> QED
    BY <1>8, <1>9, <1>10, <2>1 DEF Carries
<1> HIDE DEF f
<1> QED
  BY <1>0, <1>2, <1>11, CarriedText

-----------------------------------------------------------------------------
(* The headers *)

\* The end of a line is the first one.
LEMMA EndFound ==
  ASSUME NEW d \in Seq(Bytes), NEW i \in Nat
  PROVE  \/ LineEnd(d, i) = 0 /\ \A j \in i .. Len(d) : d[j] # "\n"
         \/ /\ LineEnd(d, i) \in i .. Len(d) /\ d[LineEnd(d, i)] = "\n"
            /\ \A j \in i .. Len(d) : d[j] = "\n" => LineEnd(d, i) <= j
<1> DEFINE ends == {j \in i .. Len(d) : d[j] = "\n"}
<1>1. LineEnd(d, i) = IF ends = {} THEN 0 ELSE CHOOSE j \in ends : \A m \in ends : j <= m
  BY DEF LineEnd
<1>2. ends # {} => \E j \in ends : \A m \in ends : j <= m
  <2>1. ends \in SUBSET Nat
    OBVIOUS
  <2> HIDE DEF ends
  <2> QED
    BY <2>1, LeastOf
<1>3. CASE ends = {}
  BY <1>1, <1>3
<1>4. CASE ends # {}
  <2>1. LineEnd(d, i) \in ends /\ \A m \in ends : LineEnd(d, i) <= m
    <3> HIDE DEF ends
    <3> QED
      BY <1>1, <1>2, <1>4
  <2> QED
    BY <2>1
<1> QED
  BY <1>3, <1>4

\* The value of a header begins after a line's end, the name and a space.
LEMMA ValueFound ==
  ASSUME NEW d \in Seq(Bytes), NEW name, NEW h, h = ValueAt(d, name), h # 0
  PROVE  /\ h \in 4 .. Len(d) /\ d[h - 3] = "\n" /\ d[h - 2] = name /\ d[h - 1] = "SP"
         /\ LineEnd(d, h) \in h + 3 .. Len(d)
<1> DEFINE at == {i \in 2 .. Len(d) - 2 : d[i - 1] = "\n" /\ d[i] = name /\ d[i + 1] = "SP"}
           least == CHOOSE i \in at : \A j \in at : i <= j
           v == least + 2
<1>1. h = IF at = {} THEN 0 ELSE IF LineEnd(d, v) - v \in 3 .. HOST_MAXLEN THEN v ELSE 0
  BY DEF ValueAt
<1>2. at # {} /\ h = v /\ LineEnd(d, v) - v \in 3 .. HOST_MAXLEN
  BY <1>1
<1>3. \E i \in at : \A j \in at : i <= j
  <2>1. at \in SUBSET Nat
    OBVIOUS
  <2> HIDE DEF at
  <2> QED
    BY <1>2, <2>1, LeastOf
<1>4. least \in at
  <2> HIDE DEF at
  <2> QED
    BY <1>3
<1> HIDE DEF least
<1>5. h \in 4 .. Len(d) /\ d[h - 3] = "\n" /\ d[h - 2] = name /\ d[h - 1] = "SP" /\ Len(d) \in Nat
  <2>1. least \in 2 .. Len(d) - 2 /\ d[least - 1] = "\n" /\ d[least] = name /\ d[least + 1] = "SP"
    BY <1>4
  <2>2. h = least + 2 /\ least - 1 = h - 3 /\ least = h - 2 /\ least + 1 = h - 1
    BY <1>2, <2>1
  <2> QED
    BY <2>1, <2>2
<1> HIDE DEF at, v
<1>6. LineEnd(d, h) \in h .. Len(d) \/ LineEnd(d, h) = 0
  BY <1>5, EndFound
<1>7. LineEnd(d, h) - h \in 3 .. HOST_MAXLEN
  BY <1>2
<1>8. LineEnd(d, h) \in h + 3 .. Len(d)
  <2> DEFINE e == LineEnd(d, h) n == Len(d)
  <2>1. h \in 4 .. n /\ n \in Nat /\ (e \in h .. n \/ e = 0) /\ e - h \in 3 .. HOST_MAXLEN
    BY <1>5, <1>6, <1>7
  <2> HIDE DEF e, n
  <2>2. e - h >= 3 /\ h \in Int /\ e \in Int
    <3>1. HOST_MAXLEN \in Int
      BY DEF HOST_MAXLEN
    <3> QED
      BY <2>1, <3>1
  <2>3. e \in h + 3 .. n
    BY <2>1, <2>2
  <2> QED
    BY <2>3 DEF e, n
<1> QED
  BY <1>5, <1>8

\* A function on 1 .. n is a sequence of length n.
LEMMA StreamOf ==
  ASSUME NEW n \in Nat, NEW f \in [1 .. n -> Bytes]
  PROVE  f \in Seq(Bytes) /\ Len(f) = n
<1>1. f \in Seq(Bytes)
  BY SeqDef
<1>2. DOMAIN f = 1 .. Len(f) /\ Len(f) \in Nat /\ DOMAIN f = 1 .. n
  BY <1>1
<1> QED
  BY <1>1, <1>2

\* mix_case changes nothing but case.
LEMMA UpperText ==
  \A c \in Bytes : Upper(c) \in Bytes /\ Lower(Upper(c)) = Lower(c) /\ (Upper(c) = "SP" <=> c = "SP")
<1> SUFFICES ASSUME NEW c \in Bytes
             PROVE  Upper(c) \in Bytes /\ Lower(Upper(c)) = Lower(c) /\ (Upper(c) = "SP" <=> c = "SP")
  OBVIOUS
<1>1. CASE c = "a"
  <2>1. Upper(c) = "A" /\ Lower("A") = "a" /\ Lower("a") = "a"
    BY <1>1 DEF Upper, Lower
  <2> QED
    BY <1>1, <2>1 DEF Bytes
<1>2. CASE c = "b"
  <2>1. Upper(c) = "B" /\ Lower("B") = "b" /\ Lower("b") = "b"
    BY <1>2 DEF Upper, Lower
  <2> QED
    BY <1>2, <2>1 DEF Bytes
<1>3. CASE c \notin {"a", "b"}
  <2>1. Upper(c) = c
    BY <1>3 DEF Upper
  <2> QED
    BY <2>1
<1> QED
  BY <1>1, <1>2, <1>3

\* e is d spelled otherwise from place h - 2 on, with the same bytes around the name.
Named(d, e, h) ==
  /\ Spelled(d, e) /\ e[h - 3] = "\n" /\ e[h - 1] = "SP" /\ e[h - 2] \in {"Host:", "hoSt:"}
  /\ \A i \in 1 .. h - 3 : e[i] = d[i]

\* -m keeps the spelling up to case, and the Host header where it is.
LEMMA MixedNamed ==
  ASSUME NEW d \in Seq(Bytes), NEW h, h = ValueAt(d, "Host:"), h # 0
  PROVE  Named(d, d, h) /\ Named(d, MixCase(d), h)
         /\ MixCase(d)[h - 2] = "Host:"
<1> DEFINE n == Len(d) e == MixCase(d)
<1>1. h \in 4 .. n /\ d[h - 3] = "\n" /\ d[h - 2] = "Host:" /\ d[h - 1] = "SP" /\ n \in Nat
  BY ValueFound
<1>2. DOMAIN d = 1 .. n /\ \A i \in 1 .. n : d[i] \in Bytes
  OBVIOUS
<1>3. Named(d, d, h)
  BY <1>1 DEF Named, Spelled
<1> DEFINE P(i) == i \in h .. LineEnd(d, h) - 1 /\ (i - h) % 2 = 1
<1>4. e = [i \in 1 .. n |-> IF P(i) THEN Upper(d[i]) ELSE d[i]]
  BY <1>2 DEF MixCase
<1>5. \A i \in 1 .. h - 1 : ~ P(i)
  BY <1>1
<1> HIDE DEF P, n, e
<1>6. e \in [1 .. n -> Bytes]
  BY <1>2, <1>4, UpperText
<1>7. e \in Seq(Bytes) /\ Len(e) = n
  BY <1>1, <1>6, StreamOf
<1>8. \A i \in 1 .. n : Lower(d[i]) = Lower(e[i]) /\ (d[i] = "SP" <=> e[i] = "SP")
  BY <1>2, <1>4, UpperText
<1>9. \A i \in 1 .. h - 1 : e[i] = d[i]
  <2>1. \A i \in 1 .. h - 1 : i \in 1 .. n
    BY <1>1
  <2> QED
    BY <1>4, <1>5, <2>1
<1>10. Spelled(d, e)
  BY <1>7, <1>8 DEF Spelled, n
<1>11. h - 3 \in 1 .. h - 1 /\ h - 2 \in 1 .. h - 1 /\ h - 1 \in 1 .. h - 1 /\ \A i \in 1 .. h - 3 : i \in 1 .. h - 1
  BY <1>1
<1>12. e[h - 3] = "\n" /\ e[h - 1] = "SP" /\ e[h - 2] = "Host:" /\ \A i \in 1 .. h - 3 : e[i] = d[i]
  BY <1>1, <1>9, <1>11
<1> QED
  BY <1>3, <1>10, <1>12 DEF Named, e

\* -r changes the spelling of Host only.
LEMMA ReplacedNamed ==
  ASSUME NEW d \in Seq(Bytes), NEW h \in 4 .. Len(d), NEW m, Named(d, m, h), m[h - 2] = "Host:", d[h - 2] = "Host:"
  PROVE  Named(d, ReplaceHost(m, h), h)
<1> DEFINE e == ReplaceHost(m, h) n == Len(d)
<1>1. m \in Seq(Bytes) /\ Len(m) = n /\ n \in Nat /\ h - 2 \in 1 .. n /\ h - 1 \in 1 .. n /\ h - 3 \in 1 .. n /\ h \in Int
  BY DEF Named, Spelled
<1>2. DOMAIN m = 1 .. n /\ \A i \in 1 .. n : m[i] \in Bytes
  BY <1>1
<1>3. e = [m EXCEPT ![h - 2] = "hoSt:"]
  BY DEF ReplaceHost
<1> HIDE DEF e, n
<1>a. e \in [1 .. n -> Bytes] /\ e[h - 2] = "hoSt:" /\ \A i \in 1 .. n : i # h - 2 => e[i] = m[i]
  <2>1. m = [i \in 1 .. n |-> m[i]]
    BY <1>1, <1>2
  <2> QED
    BY <1>1, <1>2, <1>3, <2>1 DEF Bytes
<1>4. /\ e \in Seq(Bytes) /\ Len(e) = n /\ e[h - 2] = "hoSt:"
      /\ \A i \in 1 .. n : i # h - 2 => e[i] = m[i]
  BY <1>1, <1>a, StreamOf
<1>5. Spelled(d, e)
  <2>1. \A i \in 1 .. n : Lower(d[i]) = Lower(m[i]) /\ (d[i] = "SP" <=> m[i] = "SP")
    BY DEF Named, Spelled, n
  <2>2. Lower(e[h - 2]) = Lower(d[h - 2]) /\ e[h - 2] # "SP" /\ d[h - 2] # "SP"
    BY <1>4 DEF Lower
  <2>3. \A i \in 1 .. n : Lower(d[i]) = Lower(e[i]) /\ (d[i] = "SP" <=> e[i] = "SP")
    BY <1>4, <2>1, <2>2
  <2> QED
    BY <1>4, <2>3 DEF Spelled, n
<1>6. e[h - 3] = "\n" /\ e[h - 1] = "SP"
  <2>1. m[h - 3] = "\n" /\ m[h - 1] = "SP" /\ h - 3 # h - 2 /\ h - 1 # h - 2
    BY <1>1 DEF Named
  <2> QED
    BY <1>1, <1>4, <2>1
<1>7. \A i \in 1 .. h - 3 : e[i] = d[i]
  <2>1. \A i \in 1 .. h - 3 : m[i] = d[i] /\ i \in 1 .. n /\ i # h - 2
    BY <1>1 DEF Named
  <2> QED
    BY <1>4, <2>1
<1> QED
  BY <1>4, <1>5, <1>6, <1>7 DEF Named, e

-----------------------------------------------------------------------------
(* Moving the space *)

\* What a part of a stream holds.
LEMMA CutStream ==
  ASSUME NEW d \in Seq(Bytes), NEW i \in 1 .. Len(d) + 1, NEW j \in i - 1 .. Len(d)
  PROVE  /\ SubSeq(d, i, j) \in Seq(Bytes) /\ Len(SubSeq(d, i, j)) = j - i + 1
         /\ \A k \in 1 .. j - i + 1 : SubSeq(d, i, j)[k] = d[i + k - 1]
<1>1. \A k \in i .. j : k \in 1 .. Len(d)
  OBVIOUS
<1>2. j - i + 1 \in Nat
  OBVIOUS
<1> QED
  BY <1>1, <1>2, SubSeqProperties

\* What two streams put together hold.
LEMMA JoinStreams ==
  ASSUME NEW s \in Seq(Bytes), NEW t \in Seq(Bytes)
  PROVE  /\ s \o t \in Seq(Bytes) /\ Len(s \o t) = Len(s) + Len(t)
         /\ \A k \in 1 .. Len(s) : (s \o t)[k] = s[k]
         /\ \A k \in Len(s) + 1 .. Len(s) + Len(t) : (s \o t)[k] = t[k - Len(s)]
OBVIOUS

\* r is d, of n bytes, with the space at a moved to the left, to b.
Leftwards(d, r, n, a, b) ==
  /\ r \in Seq(Bytes) /\ n \in Nat /\ Len(d) = n /\ Len(r) = n
  /\ a \in 1 .. n /\ b \in 1 .. a /\ d[a] = "SP" /\ r[b] = "SP"
  /\ \A k \in 1 .. b - 1 : r[k] = d[k]
  /\ \A k \in b + 1 .. a : r[k] = d[k - 1]
  /\ \A k \in a + 1 .. n : r[k] = d[k]

\* Or to the right.
Rightwards(d, r, n, a, b) ==
  /\ r \in Seq(Bytes) /\ n \in Nat /\ Len(d) = n /\ Len(r) = n
  /\ b \in 1 .. n /\ a \in 1 .. b /\ d[a] = "SP" /\ r[b] = "SP"
  /\ \A k \in 1 .. a - 1 : r[k] = d[k]
  /\ \A k \in a .. b - 1 : r[k] = d[k + 1]
  /\ \A k \in b + 1 .. n : r[k] = d[k]

\* A space that moves to the left.
LEMMA MovedLeft ==
  ASSUME NEW d, NEW r, NEW n, NEW a, NEW b, Leftwards(d, r, n, a, b)
  PROVE  Moved(d, r, a, b)
<1>0. /\ r \in Seq(Bytes) /\ n \in Nat /\ Len(d) = n /\ Len(r) = n
      /\ a \in 1 .. n /\ b \in 1 .. a /\ d[a] = "SP" /\ r[b] = "SP"
      /\ \A k \in 1 .. b - 1 : r[k] = d[k]
      /\ \A k \in b + 1 .. a : r[k] = d[k - 1]
      /\ \A k \in a + 1 .. n : r[k] = d[k]
  BY DEF Leftwards
<1>1. ASSUME NEW i \in 1 .. n, i # a PROVE r[Shift(i, a, b)] = d[i]
  <2>1. CASE i < b
    <3>1. Shift(i, a, b) = i /\ i \in 1 .. b - 1
      BY <1>0, <1>1, <2>1 DEF Shift
    <3> QED
      BY <1>0, <3>1
  <2>2. CASE b <= i /\ i < a
    <3>1. Shift(i, a, b) = i + 1 /\ i + 1 \in b + 1 .. a /\ (i + 1) - 1 = i
      BY <1>0, <1>1, <2>2 DEF Shift
    <3> QED
      BY <1>0, <3>1
  <2>3. CASE a < i
    <3>1. Shift(i, a, b) = i /\ i \in a + 1 .. n
      BY <1>0, <1>1, <2>3 DEF Shift
    <3> QED
      BY <1>0, <3>1
  <2> QED
    BY <1>0, <1>1, <2>1, <2>2, <2>3
<1>2. b \in 1 .. n
  BY <1>0
<1> QED
  BY <1>0, <1>1, <1>2 DEF Moved

\* And to the right.
LEMMA MovedRight ==
  ASSUME NEW d, NEW r, NEW n, NEW a, NEW b, Rightwards(d, r, n, a, b)
  PROVE  Moved(d, r, a, b)
<1>0. /\ r \in Seq(Bytes) /\ n \in Nat /\ Len(d) = n /\ Len(r) = n
      /\ b \in 1 .. n /\ a \in 1 .. b /\ d[a] = "SP" /\ r[b] = "SP"
      /\ \A k \in 1 .. a - 1 : r[k] = d[k]
      /\ \A k \in a .. b - 1 : r[k] = d[k + 1]
      /\ \A k \in b + 1 .. n : r[k] = d[k]
  BY DEF Rightwards
<1>1. ASSUME NEW i \in 1 .. n, i # a PROVE r[Shift(i, a, b)] = d[i]
  <2>1. CASE i < a
    <3>1. Shift(i, a, b) = i /\ i \in 1 .. a - 1
      BY <1>0, <1>1, <2>1 DEF Shift
    <3> QED
      BY <1>0, <3>1
  <2>2. CASE a < i /\ i <= b
    <3>1. Shift(i, a, b) = i - 1 /\ i - 1 \in a .. b - 1 /\ (i - 1) + 1 = i
      BY <1>0, <1>1, <2>2 DEF Shift
    <3> QED
      BY <1>0, <3>1
  <2>3. CASE b < i
    <3>1. Shift(i, a, b) = i /\ i \in b + 1 .. n
      BY <1>0, <1>1, <2>3 DEF Shift
    <3> QED
      BY <1>0, <3>1
  <2> QED
    BY <1>0, <1>1, <2>1, <2>2, <2>3
<1>2. a \in 1 .. n
  BY <1>0
<1> QED
  BY <1>0, <1>1, <1>2 DEF Moved

\* r is t and then the bytes i .. j of d.
Joined(r, t, d, i, j) ==
  /\ r \in Seq(Bytes) /\ Len(r) = Len(t) + (j - i + 1)
  /\ \A k \in 1 .. Len(t) : r[k] = t[k]
  /\ \A k \in Len(t) + 1 .. Len(t) + (j - i + 1) : r[k] = d[k - Len(t) + i - 1]

\* The end of one stream after the beginning of another.
LEMMA JoinCut ==
  ASSUME NEW t \in Seq(Bytes), NEW d \in Seq(Bytes), NEW i \in 1 .. Len(d) + 1, NEW j \in i - 1 .. Len(d)
  PROVE  Joined(t \o SubSeq(d, i, j), t, d, i, j)
<1> DEFINE s == SubSeq(d, i, j) m == Len(t) r == t \o s
<1>1. s \in Seq(Bytes) /\ Len(s) = j - i + 1 /\ \A k \in 1 .. j - i + 1 : s[k] = d[i + k - 1]
  BY CutStream
<1> HIDE DEF s
<1>2. /\ r \in Seq(Bytes) /\ Len(r) = m + Len(s)
      /\ \A k \in 1 .. m : r[k] = t[k]
      /\ \A k \in m + 1 .. m + Len(s) : r[k] = s[k - m]
  BY <1>1, JoinStreams
<1>3. m \in Nat
  OBVIOUS
<1> HIDE DEF r, m
<1>4. ASSUME NEW k \in m + 1 .. m + (j - i + 1) PROVE r[k] = d[k - m + i - 1]
  <2>1. k - m \in 1 .. j - i + 1 /\ i + (k - m) - 1 = k - m + i - 1 /\ k \in m + 1 .. m + Len(s)
    BY <1>1, <1>3
  <2> QED
    BY <1>1, <1>2, <2>1
<1>5. /\ r \in Seq(Bytes) /\ Len(r) = m + (j - i + 1) /\ \A k \in 1 .. m : r[k] = t[k]
      /\ \A k \in m + 1 .. m + (j - i + 1) : r[k] = d[k - m + i - 1]
  BY <1>1, <1>2, <1>4
<1> QED
  BY <1>5 DEF Joined, r, m, s

\* -a: the space before the value goes behind the method.
LEMMA AddedSpace ==
  ASSUME NEW d \in Seq(Bytes), NEW h \in 5 .. Len(d), MethodEnd(d) = 2, d[2] = "SP", d[h - 1] = "SP"
  PROVE  Moved(d, AddSpace(d, h), h - 1, 3)
<1> DEFINE n == Len(d) s == SubSeq(d, 1, 2) t == s \o SubSeq(d, 2, h - 2) r == t \o SubSeq(d, h, n)
<1>0. n \in Nat /\ h \in Int /\ 5 <= h /\ h <= n
  OBVIOUS
<1>1. AddSpace(d, h) = r
  BY DEF AddSpace
<1>2. s \in Seq(Bytes) /\ Len(s) = 2 /\ s[1] = d[1] /\ s[2] = d[2]
  <2>1. 1 \in 1 .. Len(d) + 1 /\ 2 \in 1 - 1 .. Len(d)
    BY <1>0
  <2>2. /\ s \in Seq(Bytes) /\ Len(s) = 2 - 1 + 1
        /\ \A k \in 1 .. 2 - 1 + 1 : s[k] = d[1 + k - 1]
    BY <2>1, CutStream
  <2> QED
    BY <2>2
<1> HIDE DEF s
<1>3. /\ t \in Seq(Bytes) /\ Len(t) = h - 1 /\ \A k \in 1 .. 2 : t[k] = d[k]
      /\ \A k \in 3 .. h - 1 : t[k] = d[k - 1]
  <2>1. 2 \in 1 .. Len(d) + 1 /\ h - 2 \in 2 - 1 .. Len(d)
    BY <1>0
  <2>2. /\ t \in Seq(Bytes) /\ Len(t) = 2 + ((h - 2) - 2 + 1)
        /\ \A k \in 1 .. 2 : t[k] = s[k]
        /\ \A k \in 2 + 1 .. 2 + ((h - 2) - 2 + 1) : t[k] = d[k - 2 + 2 - 1]
    <3>1. Joined(t, s, d, 2, h - 2)
      BY <1>2, <2>1, JoinCut
    <3> HIDE DEF t
    <3> QED
      BY <1>2, <3>1 DEF Joined
  <2> HIDE DEF t
  <2>3. 2 + ((h - 2) - 2 + 1) = h - 1 /\ 2 + 1 = 3 /\ \A k \in Int : k - 2 + 2 - 1 = k - 1
    BY <1>0
  <2>4. \A k \in 1 .. 2 : k = 1 \/ k = 2
    OBVIOUS
  <2>5. \A k \in 3 .. h - 1 : k \in Int
    OBVIOUS
  <2> QED
    BY <1>2, <2>2, <2>3, <2>4, <2>5
<1> HIDE DEF t
<1>4. /\ r \in Seq(Bytes) /\ Len(r) = n /\ \A k \in 1 .. h - 1 : r[k] = t[k]
      /\ \A k \in h .. n : r[k] = d[k]
  <2>1. h \in 1 .. Len(d) + 1 /\ n \in h - 1 .. Len(d)
    BY <1>0
  <2>2. /\ r \in Seq(Bytes) /\ Len(r) = (h - 1) + (n - h + 1)
        /\ \A k \in 1 .. h - 1 : r[k] = t[k]
        /\ \A k \in (h - 1) + 1 .. (h - 1) + (n - h + 1) : r[k] = d[k - (h - 1) + h - 1]
    <3>1. Joined(r, t, d, h, n)
      BY <1>3, <2>1, JoinCut
    <3> HIDE DEF r, n
    <3> QED
      BY <1>3, <3>1 DEF Joined
  <2> HIDE DEF r, n
  <2>3. (h - 1) + (n - h + 1) = n /\ (h - 1) + 1 = h /\ \A k \in Int : k - (h - 1) + h - 1 = k
    BY <1>0
  <2>4. \A k \in h .. n : k \in Int
    OBVIOUS
  <2> QED
    BY <2>2, <2>3, <2>4
<1> HIDE DEF r
<1>5. /\ h - 1 \in 1 .. n /\ 3 \in 1 .. h - 1 /\ \A k \in 1 .. 2 : k \in 1 .. h - 1
      /\ \A k \in 3 .. h - 1 : k \in 1 .. h - 1
  BY <1>0
<1>6. /\ \A k \in 1 .. 3 - 1 : r[k] = d[k]
      /\ \A k \in 3 + 1 .. h - 1 : r[k] = d[k - 1]
      /\ \A k \in (h - 1) + 1 .. n : r[k] = d[k] /\ r[3] = "SP"
  <2>1. /\ 3 - 1 = 2 /\ (h - 1) + 1 = h /\ \A k \in 3 + 1 .. h - 1 : k \in 3 .. h - 1
    BY <1>0
  <2>2. 3 \in 3 .. h - 1
    BY <1>0
  <2> QED
    BY <1>3, <1>4, <1>5, <2>1, <2>2
<1> HIDE DEF n
<1>7. Leftwards(d, r, n, h - 1, 3)
  BY <1>0, <1>4, <1>5, <1>6 DEF Leftwards, n
<1> QED
  BY <1>1, <1>7, MovedLeft

\* r is the first m bytes of t, and then up to place l those of d, c places on.
Goes(r, t, m, d, c, l) ==
  /\ r \in Seq(Bytes) /\ Len(r) = l
  /\ \A k \in 1 .. m : r[k] = t[k]
  /\ \A k \in m + 1 .. l : r[k] = d[k + c]

\* A stream goes on with a part of another one.
LEMMA GoesOn ==
  ASSUME NEW t \in Seq(Bytes), NEW d \in Seq(Bytes), NEW i \in 1 .. Len(d) + 1, NEW j \in i - 1 .. Len(d),
         NEW m, m = Len(t), NEW c \in Int, NEW l \in Int, i = m + 1 + c, j = l + c
  PROVE  Goes(t \o SubSeq(d, i, j), t, m, d, c, l)
<1> DEFINE r == t \o SubSeq(d, i, j)
<1>1. Joined(r, t, d, i, j)
  BY JoinCut
<1>2. m \in Nat /\ i \in Int /\ j \in Int
  OBVIOUS
<1>3. m + (j - i + 1) = l /\ \A k \in Int : k - m + i - 1 = k + c
  BY <1>2
<1>4. \A k \in m + 1 .. l : k \in Int
  BY <1>2
<1> HIDE DEF r
<1>5. /\ r \in Seq(Bytes) /\ Len(r) = l /\ \A k \in 1 .. m : r[k] = t[k]
      /\ \A k \in m + 1 .. l : r[k] = d[k - m + i - 1]
  BY <1>1, <1>3 DEF Joined
<1>6. \A k \in m + 1 .. l : r[k] = d[k + c]
  BY <1>3, <1>4, <1>5
<1> QED
  BY <1>5, <1>6 DEF Goes, r

\* r is t, of m bytes, and a space.
Spaced(r, t, m) ==
  r \in Seq(Bytes) /\ Len(r) = m + 1 /\ r[m + 1] = "SP" /\ \A k \in 1 .. m : r[k] = t[k]

\* A stream goes on with a space.
LEMMA GoesBlank ==
  ASSUME NEW t \in Seq(Bytes), NEW m, m = Len(t)
  PROVE  Spaced(t \o <<"SP">>, t, m)
<1>1. <<"SP">> \in Seq(Bytes) /\ Len(<<"SP">>) = 1 /\ <<"SP">>[1] = "SP"
  BY DEF Bytes
<1>2. m \in Nat
  OBVIOUS
<1>3. m + 1 \in m + 1 .. m + 1 /\ (m + 1) - m = 1
  BY <1>2
<1> DEFINE b == <<"SP">>
<1> HIDE DEF b
<1>4. b \in Seq(Bytes) /\ Len(b) = 1 /\ b[1] = "SP"
  BY <1>1 DEF b
<1>5. /\ t \o b \in Seq(Bytes) /\ Len(t \o b) = m + 1 /\ \A k \in 1 .. m : (t \o b)[k] = t[k]
      /\ \A k \in m + 1 .. m + 1 : (t \o b)[k] = b[k - m]
  <2>1. /\ t \o b \in Seq(Bytes) /\ Len(t \o b) = Len(t) + Len(b) /\ \A k \in 1 .. Len(t) : (t \o b)[k] = t[k]
        /\ \A k \in Len(t) + 1 .. Len(t) + Len(b) : (t \o b)[k] = b[k - Len(t)]
    BY <1>4, JoinStreams
  <2> QED
    BY <1>4, <2>1
<1>6. (t \o b)[m + 1] = "SP"
  BY <1>3, <1>4, <1>5
<1> QED
  BY <1>5, <1>6 DEF b, Spaced

\* A stream begins with the beginning of another.
LEMMA GoesFirst ==
  ASSUME NEW d \in Seq(Bytes), NEW m \in 0 .. Len(d)
  PROVE  /\ SubSeq(d, 1, m) \in Seq(Bytes) /\ Len(SubSeq(d, 1, m)) = m
         /\ \A k \in 1 .. m : SubSeq(d, 1, m)[k] = d[k]
<1> DEFINE s == SubSeq(d, 1, m)
<1>0. Len(d) \in Nat
  OBVIOUS
<1>1. 1 \in 1 .. Len(d) + 1 /\ m \in 1 - 1 .. Len(d)
  BY <1>0
<1>2. s \in Seq(Bytes) /\ Len(s) = m - 1 + 1 /\ \A k \in 1 .. m - 1 + 1 : s[k] = d[1 + k - 1]
  BY <1>1, CutStream
<1>3. m - 1 + 1 = m /\ \A k \in 1 .. m : 1 + k - 1 = k
  OBVIOUS
<1> HIDE DEF s
<1> QED
  BY <1>2, <1>3 DEF s

\* The space goes to the end of a User-Agent above the Host header.
LEMMA RemovedLeft ==
  ASSUME NEW d \in Seq(Bytes), NEW h \in 4 .. Len(d), NEW e \in 1 .. h - 1, d[h - 1] = "SP"
  PROVE  Moved(d, SubSeq(d, 1, e - 1) \o <<"SP">> \o SubSeq(d, e, h - 2) \o SubSeq(d, h, Len(d)), h - 1, e)
<1> DEFINE n == Len(d) s == SubSeq(d, 1, e - 1) t == s \o <<"SP">> u == t \o SubSeq(d, e, h - 2)
           r == u \o SubSeq(d, h, n)
<1>0. n \in Nat /\ h \in Int /\ 4 <= h /\ h <= n /\ e \in Int /\ 1 <= e /\ e <= h - 1
  OBVIOUS
<1>1. s \in Seq(Bytes) /\ Len(s) = e - 1 /\ \A k \in 1 .. e - 1 : s[k] = d[k]
  <2>1. e - 1 \in 0 .. Len(d)
    BY <1>0
  <2> QED
    BY <2>1, GoesFirst
<1> HIDE DEF s
<1>2. t \in Seq(Bytes) /\ Len(t) = e /\ t[e] = "SP" /\ \A k \in 1 .. e - 1 : t[k] = s[k]
  <2>1. (e - 1) + 1 = e
    BY <1>0
  <2>2. Spaced(t, s, e - 1)
    BY <1>1, GoesBlank
  <2> HIDE DEF t
  <2> QED
    BY <2>1, <2>2 DEF Spaced
<1> HIDE DEF t
<1>3. Goes(u, t, e, d, -1, h - 1)
  <2>1. /\ e \in 1 .. Len(d) + 1 /\ h - 2 \in e - 1 .. Len(d)
        /\ e = e + 1 + (-1) /\ h - 2 = (h - 1) + (-1) /\ -1 \in Int /\ h - 1 \in Int
    BY <1>0
  <2> QED
    BY <1>2, <2>1, GoesOn
<1> HIDE DEF u
<1>4. /\ u \in Seq(Bytes) /\ Len(u) = h - 1 /\ \A k \in 1 .. e : u[k] = t[k]
      /\ \A k \in e + 1 .. h - 1 : u[k] = d[k + (-1)]
  BY <1>3 DEF Goes
<1>5. Goes(r, u, h - 1, d, 0, n)
  <2>1. /\ h \in 1 .. Len(d) + 1 /\ n \in h - 1 .. Len(d)
        /\ h = (h - 1) + 1 + 0 /\ n = n + 0 /\ 0 \in Int /\ n \in Int
    BY <1>0
  <2> QED
    BY <1>4, <2>1, GoesOn
<1> HIDE DEF r, n
<1>6. /\ r \in Seq(Bytes) /\ Len(r) = n /\ \A k \in 1 .. h - 1 : r[k] = u[k]
      /\ \A k \in (h - 1) + 1 .. n : r[k] = d[k + 0]
  BY <1>5 DEF Goes
<1>7. /\ \A k \in 1 .. e - 1 : k \in 1 .. e /\ k \in 1 .. h - 1
      /\ e \in 1 .. e /\ e \in 1 .. h - 1
      /\ \A k \in e + 1 .. h - 1 : k \in 1 .. h - 1 /\ k + (-1) = k - 1
      /\ \A k \in (h - 1) + 1 .. n : k + 0 = k
  BY <1>0
<1>8. /\ \A k \in 1 .. e - 1 : r[k] = d[k]
      /\ r[e] = "SP"
      /\ \A k \in e + 1 .. h - 1 : r[k] = d[k - 1]
      /\ \A k \in (h - 1) + 1 .. n : r[k] = d[k]
  BY <1>1, <1>2, <1>4, <1>6, <1>7
<1>9. h - 1 \in 1 .. n /\ e \in 1 .. h - 1 /\ n = Len(d)
  BY <1>0 DEF n
<1>10. Leftwards(d, r, n, h - 1, e)
  BY <1>0, <1>6, <1>8, <1>9 DEF Leftwards
<1> QED
  BY <1>10, MovedLeft DEF r, u, t, s, n

\* And of one below it.
LEMMA RemovedRight ==
  ASSUME NEW d \in Seq(Bytes), NEW h \in 4 .. Len(d), NEW e \in h + 1 .. Len(d), d[h - 1] = "SP"
  PROVE  Moved(d, SubSeq(d, 1, h - 2) \o SubSeq(d, h, e - 1) \o <<"SP">> \o SubSeq(d, e, Len(d)), h - 1, e - 1)
<1> DEFINE n == Len(d) s == SubSeq(d, 1, h - 2) t == s \o SubSeq(d, h, e - 1) u == t \o <<"SP">>
           r == u \o SubSeq(d, e, n)
<1>0. n \in Nat /\ h \in Int /\ 4 <= h /\ h <= n /\ e \in Int /\ h + 1 <= e /\ e <= n
  OBVIOUS
<1>1. s \in Seq(Bytes) /\ Len(s) = h - 2 /\ \A k \in 1 .. h - 2 : s[k] = d[k]
  <2>1. h - 2 \in 0 .. Len(d)
    BY <1>0
  <2> QED
    BY <2>1, GoesFirst
<1> HIDE DEF s
<1>2. Goes(t, s, h - 2, d, 1, e - 2)
  <2>1. /\ h \in 1 .. Len(d) + 1 /\ e - 1 \in h - 1 .. Len(d)
        /\ h = (h - 2) + 1 + 1 /\ e - 1 = (e - 2) + 1 /\ 1 \in Int /\ e - 2 \in Int
    BY <1>0
  <2> QED
    BY <1>1, <2>1, GoesOn
<1> HIDE DEF t
<1>3. /\ t \in Seq(Bytes) /\ Len(t) = e - 2 /\ \A k \in 1 .. h - 2 : t[k] = s[k]
      /\ \A k \in (h - 2) + 1 .. e - 2 : t[k] = d[k + 1]
  BY <1>2 DEF Goes
<1>4. u \in Seq(Bytes) /\ Len(u) = e - 1 /\ u[e - 1] = "SP" /\ \A k \in 1 .. e - 2 : u[k] = t[k]
  <2>1. (e - 2) + 1 = e - 1
    BY <1>0
  <2>2. Spaced(u, t, e - 2)
    BY <1>3, GoesBlank
  <2> HIDE DEF u
  <2> QED
    BY <2>1, <2>2 DEF Spaced
<1> HIDE DEF u
<1>5. Goes(r, u, e - 1, d, 0, n)
  <2>1. /\ e \in 1 .. Len(d) + 1 /\ n \in e - 1 .. Len(d)
        /\ e = (e - 1) + 1 + 0 /\ n = n + 0 /\ 0 \in Int /\ n \in Int
    BY <1>0
  <2> QED
    BY <1>4, <2>1, GoesOn
<1> HIDE DEF r, n
<1>6. /\ r \in Seq(Bytes) /\ Len(r) = n /\ \A k \in 1 .. e - 1 : r[k] = u[k]
      /\ \A k \in (e - 1) + 1 .. n : r[k] = d[k + 0]
  BY <1>5 DEF Goes
<1>7. /\ \A k \in 1 .. (h - 1) - 1 : k \in 1 .. h - 2 /\ k \in 1 .. e - 2 /\ k \in 1 .. e - 1
      /\ \A k \in h - 1 .. (e - 1) - 1 : k \in (h - 2) + 1 .. e - 2 /\ k \in 1 .. e - 2 /\ k \in 1 .. e - 1
      /\ e - 1 \in 1 .. e - 1
      /\ \A k \in (e - 1) + 1 .. n : k + 0 = k
  BY <1>0
<1>8. /\ \A k \in 1 .. (h - 1) - 1 : r[k] = d[k]
      /\ \A k \in h - 1 .. (e - 1) - 1 : r[k] = d[k + 1]
      /\ r[e - 1] = "SP"
      /\ \A k \in (e - 1) + 1 .. n : r[k] = d[k]
  BY <1>1, <1>3, <1>4, <1>6, <1>7
<1>9. e - 1 \in 1 .. n /\ h - 1 \in 1 .. e - 1 /\ n = Len(d)
  BY <1>0 DEF n
<1>10. Rightwards(d, r, n, h - 1, e - 1)
  BY <1>0, <1>6, <1>8, <1>9 DEF Rightwards
<1> QED
  BY <1>10, MovedRight DEF r, u, t, s, n

\* r is a stream as long as d with the same text.
Retold(d, r) == r \in Seq(Bytes) /\ Len(r) = Len(d) /\ SameText(d, r)

\* A stream spelled differently tells the same.
LEMMA SpelledRetold == ASSUME NEW d, NEW e, Spelled(d, e) PROVE Retold(d, e)
BY SpelledText DEF Retold, Spelled

\* So does one whose space has moved.
LEMMA MovedRetold ==
  ASSUME NEW d, NEW e, NEW r, NEW a, NEW b, Spelled(d, e), Moved(e, r, a, b) PROVE Retold(d, r)
BY MovedText DEF Retold, Spelled, Moved

\* -s: the space leaves, if there is a User-Agent to take it.
LEMMA RemovedRetold ==
  ASSUME NEW d \in Seq(Bytes), NEW h \in 4 .. Len(d), NEW m, Named(d, m, h)
  PROVE  Retold(d, RemoveSpace(m, h))
<1> DEFINE n == Len(m) u == ValueAt(m, "UA:") e == LineEnd(m, u) r == RemoveSpace(m, h)
<1>0. /\ Spelled(d, m) /\ m[h - 3] = "\n" /\ m[h - 1] = "SP" /\ m[h - 2] \in {"Host:", "hoSt:"}
      /\ m \in Seq(Bytes) /\ n = Len(d)
  BY DEF Named, Spelled
<1>a. h \in 4 .. n /\ h \in Int /\ 4 <= h /\ h <= n /\ n \in Nat
  BY <1>0
<1>1. CASE u = 0
  <2>1. r = m
    BY <1>1 DEF RemoveSpace
  <2> QED
    BY <1>0, <2>1, SpelledRetold
<1>2. CASE u # 0
  <2>1. /\ u \in 4 .. n /\ m[u - 2] = "UA:" /\ m[u - 1] = "SP" /\ e \in u + 3 .. n
    BY <1>0, <1>2, ValueFound
  <2>2. u # h
    BY <1>0, <2>1
  <2>3. CASE u > h
    <3>1. r = SubSeq(m, 1, h - 2) \o SubSeq(m, h, e - 1) \o <<"SP">> \o SubSeq(m, e, n)
      <4>1. ~ (u < h) /\ ~ (u = 0)
        BY <1>a, <1>2, <2>1, <2>3
      <4> HIDE DEF u, e
      <4> QED
        BY <2>3, <4>1 DEF RemoveSpace, u, e
    <3> HIDE DEF e, u, r
    <3>2. e \in h + 1 .. n
      BY <1>a, <2>1, <2>3
    <3>3. Moved(m, r, h - 1, e - 1)
      BY <1>0, <1>a, <3>1, <3>2, RemovedRight
    <3> QED
      BY <1>0, <3>3, MovedRetold DEF r
  <2>4. CASE u < h
    <3>1. r = SubSeq(m, 1, e - 1) \o <<"SP">> \o SubSeq(m, e, h - 2) \o SubSeq(m, h, n)
      <4>1. ~ (u > h) /\ ~ (u = 0)
        BY <1>a, <1>2, <2>1, <2>4
      <4> HIDE DEF u, e
      <4> QED
        BY <2>4, <4>1 DEF RemoveSpace, u, e
    <3>2. u # h - 1
      <4>1. ASSUME u = h - 1 PROVE u - 1 = h - 2
        BY <1>a, <4>1
      <4> QED
        BY <1>0, <2>1, <4>1
    <3>3. u # h - 2
      <4>1. ASSUME u = h - 2 PROVE u - 1 = h - 3
        BY <1>a, <4>1
      <4> QED
        BY <1>0, <2>1, <4>1
    <3> HIDE DEF u
    <3>4. h - 3 \in u .. n /\ u \in Nat
      BY <1>a, <2>1, <2>4, <3>2, <3>3
    <3>5. e # 0 /\ (e = 0 \/ \A j \in u .. n : m[j] = "\n" => e <= j)
      <4>1. e # 0
        BY <1>a, <2>1
      <4> QED
        BY <1>0, <3>4, <4>1, EndFound
    <3>6. e <= h - 3
      BY <1>0, <3>4, <3>5
    <3> HIDE DEF e, r
    <3>7. e \in 1 .. h - 1
      BY <1>a, <2>1, <3>6
    <3>8. Moved(m, r, h - 1, e)
      BY <1>0, <1>a, <3>1, <3>7, RemovedLeft
    <3> QED
      BY <1>0, <3>8, MovedRetold DEF r
  <2>5. u > h \/ u < h
    BY <1>a, <2>1, <2>2
  <2> QED
    BY <2>3, <2>4, <2>5
<1> QED
  BY <1>1, <1>2

\* -a: the space goes behind the method.
LEMMA AddedRetold ==
  ASSUME NEW d \in Seq(Bytes), NEW h \in 4 .. Len(d), NEW m, Named(d, m, h), d[h - 2] = "Host:",
         MethodEnd(d) # 0
  PROVE  Retold(d, AddSpace(m, h))
<1>0. /\ Spelled(d, m) /\ m[h - 1] = "SP" /\ m \in Seq(Bytes) /\ Len(m) = Len(d) /\ Len(d) \in Nat
      /\ \A i \in 1 .. h - 3 : m[i] = d[i]
  BY DEF Named, Spelled
<1>1. d[2] = "SP"
  BY DEF MethodEnd
<1>2. h \in 5 .. Len(m) /\ 1 \in 1 .. h - 3 /\ 2 \in 1 .. h - 3
  <2>1. h # 4
    <3>1. ASSUME h = 4 PROVE h - 2 = 2
      BY <3>1
    <3> QED
      BY <1>1, <3>1
  <2> QED
    BY <1>0, <2>1
<1>3. m[1] = d[1] /\ m[2] = "SP"
  BY <1>0, <1>1, <1>2
<1>4. MethodEnd(m) = 2
  BY <1>0, <1>1, <1>3 DEF MethodEnd
<1>5. Moved(m, AddSpace(m, h), h - 1, 3)
  BY <1>0, <1>2, <1>3, <1>4, AddedSpace
<1> QED
  BY <1>0, <1>5, MovedRetold

\* The rewriting of a request keeps its text and its length.
LEMMA RewriteRetold ==
  ASSUME NEW d \in Seq(Bytes), MethodEnd(d) # 0, ValueAt(d, "Host:") # 0
  PROVE  Retold(d, Rewrite(d))
<1> DEFINE h == ValueAt(d, "Host:")
           mixed == IF On("mixedcase") THEN MixCase(d) ELSE d
           named == IF On("host") THEN ReplaceHost(mixed, h) ELSE mixed
<1>1. h \in 4 .. Len(d) /\ d[h - 2] = "Host:"
  BY ValueFound
<1>2. Named(d, mixed, h) /\ mixed[h - 2] = "Host:"
  BY <1>1, MixedNamed
<1>3. Rewrite(d) = CASE On("addspace") /\ On("removespace") -> AddSpace(named, h)
                     [] ~On("addspace") /\ On("removespace") -> RemoveSpace(named, h)
                     [] OTHER -> named
  BY DEF Rewrite
<1> HIDE DEF h, mixed
<1>4. Named(d, named, h)
  BY <1>1, <1>2, ReplacedNamed
<1> HIDE DEF named
<1>5. Retold(d, named)
  BY <1>4, SpelledRetold DEF Named
<1>6. Retold(d, AddSpace(named, h)) /\ Retold(d, RemoveSpace(named, h))
  BY <1>1, <1>4, AddedRetold, RemovedRetold
<1> QED
  BY <1>3, <1>5, <1>6

\* The segments among packets, and those that carry byte n.
Reals(out) == {i \in DOMAIN out : out[i].t = "real"}
Carriers(out, n) == {i \in Reals(out) : n \in out[i].off + 1 .. out[i].off + Len(out[i].data)}
ByteOf(out, n) == LET s == out[CHOOSE i \in Carriers(out, n) : TRUE] IN s.data[n - s.off]

\* What StreamPreserved says of a request d and of what leaves for it.
Delivered(d, out) ==
  /\ \A n \in 1 .. Len(d) : \E i \in Reals(out) : Carriers(out, n) = {i}
  /\ \A i \in Reals(out) : /\ out[i].len = Len(out[i].data)
                           /\ out[i].off + out[i].len <= Len(d)
                           /\ \A j \in DOMAIN out \ Reals(out) : j < i
  /\ SameText(d, [n \in 1 .. Len(d) |-> ByteOf(out, n)])

\* Segment s is bytes a + 1 to b of r.
Piece(s, r, a, b) == s.t = "real" /\ s.off = a /\ s.data = SubSeq(r, a + 1, b) /\ s.len = b - a

\* Segments i and j of out are the two parts of r, cut after byte z; one part may be all.
Cover(out, r, i, j, z) ==
  /\ i \in DOMAIN out /\ Piece(out[i], r, 0, z) /\ z \in 0 .. Len(r)
  /\ z # Len(r) => j \in DOMAIN out /\ j # i /\ Piece(out[j], r, z, Len(r))
  /\ z = Len(r) => j = i
  /\ \A k \in DOMAIN out \ {i, j} : k < i /\ k < j /\ out[k].t # "real"

\* What a piece holds.
Holds(s, r, a, b) ==
  /\ Len(s.data) = b - a /\ s.len = b - a /\ s.off = a
  /\ \A n \in a + 1 .. b : s.data[n - a] = r[n]

\* A piece holds the bytes at its place.
LEMMA PieceFields ==
  ASSUME NEW r \in Seq(Bytes), NEW a \in Nat, NEW b \in a .. Len(r), NEW s, Piece(s, r, a, b)
  PROVE  Holds(s, r, a, b)
<1>1. /\ a + 1 \in 1 .. Len(r) + 1 /\ b \in (a + 1) - 1 .. Len(r) /\ b \in Nat
  OBVIOUS
<1>2. /\ Len(SubSeq(r, a + 1, b)) = b - (a + 1) + 1
      /\ \A k \in 1 .. b - (a + 1) + 1 : SubSeq(r, a + 1, b)[k] = r[(a + 1) + k - 1]
  BY <1>1, CutStream
<1>3. ASSUME NEW n \in a + 1 .. b PROVE SubSeq(r, a + 1, b)[n - a] = r[n]
  <2>1. n - a \in 1 .. b - (a + 1) + 1 /\ (a + 1) + (n - a) - 1 = n
    BY <1>1
  <2> QED
    BY <1>2, <2>1
<1>4. b - (a + 1) + 1 = b - a
  BY <1>1
<1> QED
  BY <1>2, <1>3, <1>4 DEF Piece, Holds

\* Segments that cover a retold request deliver it.
LEMMA Delivers ==
  ASSUME NEW d \in Seq(Bytes), NEW r, Retold(d, r), NEW out, NEW i, NEW j, NEW z,
         Cover(out, r, i, j, z)
  PROVE  Delivered(d, out)
<1> DEFINE n == Len(r)
<1>0. n = Len(d) /\ n \in Nat /\ r \in Seq(Bytes) /\ SameText(d, r) /\ z \in 0 .. n
  BY DEF Retold, Cover
<1>1. Reals(out) = {i, j} /\ i \in Reals(out) /\ j \in Reals(out)
  BY DEF Cover, Reals, Piece
<1>2. /\ Len(out[i].data) = z /\ out[i].len = z /\ out[i].off = 0
      /\ \A m \in 1 .. z : out[i].data[m] = r[m]
  <2>1. PICK a : a = 0
    OBVIOUS
  <2>2. Piece(out[i], r, a, z) /\ a \in Nat /\ z \in a .. Len(r)
    BY <1>0, <2>1 DEF Cover
  <2>3. Holds(out[i], r, a, z)
    BY <1>0, <2>2, PieceFields
  <2> QED
    BY <1>0, <2>1, <2>3 DEF Holds
<1>3. ASSUME z # n
      PROVE  /\ Len(out[j].data) = n - z /\ out[j].len = n - z /\ out[j].off = z
             /\ \A m \in z + 1 .. n : out[j].data[m - z] = r[m]
  <2>1. Piece(out[j], r, z, n) /\ z \in Nat /\ n \in z .. Len(r)
    BY <1>0, <1>3 DEF Cover
  <2>2. Holds(out[j], r, z, n)
    BY <1>0, <2>1, PieceFields
  <2> QED
    BY <2>2 DEF Holds
<1>4. z = n => j = i
  BY DEF Cover
<1>5. ASSUME NEW m \in 1 .. z PROVE Carriers(out, m) = {i} /\ ByteOf(out, m) = r[m]
  <2>1. m \in out[i].off + 1 .. out[i].off + Len(out[i].data) /\ m - 0 = m
    BY <1>0, <1>2
  <2>2. j = i \/ m \notin out[j].off + 1 .. out[j].off + Len(out[j].data)
    BY <1>0, <1>3, <1>4
  <2>3. Carriers(out, m) = {i}
    BY <1>1, <2>1, <2>2, Zenon DEF Carriers
  <2>4. (CHOOSE k \in {i} : TRUE) = i
    OBVIOUS
  <2>5. ByteOf(out, m) = out[i].data[m - out[i].off]
    BY <2>3, <2>4, Zenon DEF ByteOf
  <2> QED
    BY <1>2, <2>1, <2>3, <2>5
<1>6. ASSUME NEW m \in z + 1 .. n PROVE Carriers(out, m) = {j} /\ ByteOf(out, m) = r[m]
  <2>0. z # n
    BY <1>0
  <2>1. m \notin out[i].off + 1 .. out[i].off + Len(out[i].data)
    BY <1>0, <1>2
  <2>2. m \in out[j].off + 1 .. out[j].off + Len(out[j].data)
    BY <1>0, <1>3, <2>0
  <2>3. Carriers(out, m) = {j}
    BY <1>1, <2>1, <2>2, Zenon DEF Carriers
  <2>4. (CHOOSE k \in {j} : TRUE) = j
    OBVIOUS
  <2>5. ByteOf(out, m) = out[j].data[m - out[j].off]
    BY <2>3, <2>4, Zenon DEF ByteOf
  <2> QED
    BY <1>3, <2>0, <2>3, <2>5
<1>7. ASSUME NEW m \in 1 .. n PROVE (\E k \in Reals(out) : Carriers(out, m) = {k}) /\ ByteOf(out, m) = r[m]
  <2>1. m \in 1 .. z \/ m \in z + 1 .. n
    BY <1>0
  <2> QED
    BY <1>1, <1>5, <1>6, <2>1
<1>8. [m \in 1 .. n |-> ByteOf(out, m)] = r
  <2>1. r = [m \in 1 .. n |-> r[m]]
    BY <1>0
  <2> HIDE DEF n
  <2> QED
    BY <1>7, <2>1, Zenon
<1>9. ASSUME NEW k \in Reals(out)
      PROVE  /\ out[k].len = Len(out[k].data) /\ out[k].off + out[k].len <= n
             /\ \A l \in DOMAIN out \ Reals(out) : l < k
  <2>1. k = i \/ k = j
    BY <1>1
  <2>2. \A l \in DOMAIN out \ Reals(out) : l < k
    BY <1>1, <2>1 DEF Cover
  <2>3. out[i].len = Len(out[i].data) /\ out[i].off + out[i].len <= n
    BY <1>0, <1>2
  <2>4. z # n => out[j].len = Len(out[j].data) /\ out[j].off + out[j].len <= n
    BY <1>0, <1>3
  <2> QED
    BY <1>4, <2>1, <2>2, <2>3, <2>4
<1> HIDE DEF n
<1> QED
  BY <1>0, <1>7, <1>8, <1>9, Zenon DEF Delivered
=============================================================================
