---------------------------- MODULE GoodbyeOptions ----------------------------
(***************************************************************************)
(* From a profile's arguments to the configuration the GoodbyeDPI worker   *)
(* runs with: the service's typed adapter (goodbye.rs: from_profile,       *)
(* to_command_args) and the worker's own option loop (goodbyedpi.c).       *)
(*                                                                         *)
(* Abstraction.  An argument and its value are one record [o, v]; the do_  *)
(* variables of main that hold 0 or 1 are the members of `on`.  The filter *)
(* string is the set of ports, the IP identifications and the payload      *)
(* limit it selects by.  Verbosity, fake payloads' bytes and messages are  *)
(* left out; an exit with an error code is `err`.                          *)
(***************************************************************************)
EXTENDS Integers, Sequences, SequencesExt

Opt(o, v) == [o |-> o, v |-> v]
Flag(o) == Opt(o, 0)

\* The limits of atousi and atoub, and the places for fake payloads.
MaxShort == 65535
MaxByte == 255
MaxFakes == 30

\* The variables of main before the option loop.
Unset ==
  [on |-> {}, http |-> 0, https |-> 0, maxPayload |-> 0, ttl |-> 0, minHops |-> 0,
   ttl1 |-> 0, ttl2 |-> 0, ttlMax |-> 0, port4 |-> 53, port6 |-> 53,
   tcpPorts |-> {80, 443}, udpPorts |-> {}, ipId |-> -1,
   fakes |-> 0, resend |-> 1, list |-> {}, err |-> FALSE]

TurnOn(c, s) == [c EXCEPT !.on = @ \cup s]
Error(c) == [c EXCEPT !.err = TRUE]

\* atousi and atoub: a value above the limit ends the program, and so does a negative one,
\* which strtoul turns into a large one.
Limited(c, v, limit, d) == IF v \in 0 .. limit THEN d ELSE Error(c)

\* SET_HTTP_FRAGMENT_SIZE_OPTION: the first non-zero size stays.
SetHttpSize(c, v) == IF c.http = 0 THEN [c EXCEPT !.http = v] ELSE c
SetHttpsSize(c, v) == [c EXCEPT !.https = v]

Persistent == {"persistent", "nowait"}
Blocked == {"passivedpi", "host", "removespace"}

\* -1 to -4
LegacyMode(c, m) ==
  CASE m = "-1" -> TurnOn(c, Blocked \cup Persistent \cup {"fragHttp", "fragHttps"})
    [] m = "-2" -> SetHttpsSize(TurnOn(c, Blocked \cup Persistent \cup {"fragHttp", "fragHttps"}), 40)
    [] m = "-3" -> SetHttpsSize(TurnOn(c, Blocked \cup {"fragHttps"}), 40)
    [] m = "-4" -> TurnOn(c, Blocked)

\* -5 to -9; 9 falls through to 8 and 8 to 7.
ModernMode(c, m) ==
  LET extra == CASE m = "-5" -> {"autoTtl"}
                 [] m = "-6" -> {"wrongSeq"}
                 [] m = "-7" -> {"wrongChksum"}
                 [] m = "-8" -> {"wrongChksum", "wrongSeq"}
                 [] m = "-9" -> {"wrongChksum", "wrongSeq", "quic"}
  IN  [TurnOn(c, Persistent \cup {"fragHttp", "fragHttps", "reverse", "native", "fake"} \cup extra)
          EXCEPT !.http = 2, !.https = 2, !.maxPayload = 1200]

\* The one-letter options.
ShortOption(c, a) ==
  CASE a.o = "-p" -> TurnOn(c, {"passivedpi"})
    [] a.o = "-q" -> TurnOn(c, {"quic"})
    [] a.o = "-r" -> TurnOn(c, {"host"})
    [] a.o = "-s" -> TurnOn(c, {"removespace"})
    [] a.o = "-a" -> TurnOn(c, {"addspace", "removespace"})
    [] a.o = "-m" -> TurnOn(c, {"mixedcase"})
    [] a.o = "-f" -> Limited(c, a.v, MaxShort, SetHttpSize(TurnOn(c, {"fragHttp"}), a.v))
    [] a.o = "-k" -> Limited(c, a.v, MaxShort, SetHttpSize(TurnOn(c, {"persistent", "native"}), a.v))
    [] a.o = "-n" -> TurnOn(c, Persistent \cup {"native"})
    [] a.o = "-e" -> Limited(c, a.v, MaxShort, SetHttpsSize(TurnOn(c, {"fragHttps"}), a.v))
    [] a.o = "-w" -> TurnOn(c, {"allPorts"})

\* add_filter_str for one protocol; 80 and 443 are in the template.
AddTcpPort(c, port) == [c EXCEPT !.tcpPorts = @ \cup {port}]
AddUdpPort(c, port) == [c EXCEPT !.udpPorts = @ \cup {port}]

\* add_ip_id_str replaces its place in the template, which is gone after the first time.
AddIpId(c, id) == [c EXCEPT !.ipId = IF @ = -1 THEN id ELSE @]

\* blackwhitelist_load_list: it fails when the list is empty after it.
LoadList(c, names) ==
  IF c.list \cup names = {} THEN Error(c) ELSE [c EXCEPT !.list = @ \cup names]

\* --port, and --dns-addr or --dnsv6-addr, which only the first one may set.
ExtraPort(c, v) == IF v \in 1 .. MaxShort THEN AddTcpPort(c, v) ELSE Error(c)
DnsAddr(c, dns) == IF dns \in c.on THEN Error(c) ELSE AddUdpPort(TurnOn(c, {dns}), 53)

\* The options of the filter string, of the DNS redirection and of the list of host names.
FilterOption(c, a) ==
  CASE a.o = "--port" -> ExtraPort(c, a.v)
    [] a.o = "--ip-id" -> Limited(c, a.v, MaxShort, AddIpId(c, a.v))
    [] a.o = "--dns-addr" -> DnsAddr(c, "dns4")
    [] a.o = "--dnsv6-addr" -> DnsAddr(c, "dns6")
    [] a.o = "--blacklist" -> LoadList(TurnOn(c, {"blacklist"}), a.v)
    [] a.o = "--allow-no-sni" -> TurnOn(c, {"allowNoSni"})
    [] a.o = "--frag-by-sni" -> TurnOn(c, {"bySni"})

\* --dns-port and --dnsv6-port, only after their address.
DnsPort(c, a) ==
  LET on4 == a.o = "--dns-port"
      d == AddUdpPort(c, a.v)
  IN  IF (IF on4 THEN "dns4" ELSE "dns6") \notin c.on \/ a.v > MaxShort THEN Error(c)
      ELSE IF on4 THEN [d EXCEPT !.port4 = a.v] ELSE [d EXCEPT !.port6 = a.v]

\* --auto-ttl: a1-a2-m, a single value, or none (v = <<>>); what follows m is not read.
AutoTtlOption(c, v) ==
  LET d == TurnOn(c, {"fake", "autoTtl"})
  IN  CASE Len(v) = 0 -> d
        [] Len(v) = 1 -> Limited(c, v[1], MaxByte, [d EXCEPT !.ttl1 = v[1], !.ttl2 = v[1]])
        [] Len(v) = 2 -> Error(c)
        [] OTHER -> IF \E i \in 1 .. 3 : v[i] > MaxByte THEN Error(c)
                    ELSE [d EXCEPT !.ttl1 = v[1], !.ttl2 = v[2], !.ttlMax = v[3]]

\* fake_add, n times.  Bound: what does not fit the 30 places is not modelled.
FakeAdd(c, n) == IF n \in 1 .. MaxFakes - c.fakes THEN [c EXCEPT !.fakes = @ + n] ELSE c

\* The loaders of fake payloads: from a name, from hexadecimal digits, random ones.  What
\* they refuse is only warned of; digits are the sequence of their values, -1 for none.
FakeFromSni(c, name) == FakeAdd(c, 1)
FakeFromHex(c, digits) ==
  IF /\ Len(digits) >= 2 /\ Len(digits) <= 2 * 1420 /\ Len(digits) % 2 = 0
     /\ \A i \in DOMAIN digits : digits[i] \in 0 .. 15
  THEN FakeAdd(c, 1) ELSE c
FakeRandom(c, count) == IF count \in 1 .. MaxFakes THEN FakeAdd(c, count) ELSE c

\* --set-ttl gives up what --auto-ttl set before.
SetTtl(c, v) ==
  [c EXCEPT !.on = (@ \ {"autoTtl"}) \cup {"fake"}, !.ttl = v, !.ttl1 = 0, !.ttl2 = 0, !.ttlMax = 0]
SetMinHops(c, v) == [TurnOn(c, {"fake"}) EXCEPT !.minHops = v]
SetMaxPayload(c, v) == [c EXCEPT !.maxPayload = v]
SetResend(c, v) == [c EXCEPT !.resend = v]

\* The options that activate fake requests and native fragmentation; any other one,
\* --debug-exit included, ends the program before a filter is opened.
FakeOption(c, a) ==
  CASE a.o = "--set-ttl" -> Limited(c, a.v, MaxByte, SetTtl(c, a.v))
    [] a.o = "--min-ttl" -> Limited(c, a.v, MaxByte, SetMinHops(c, a.v))
    [] a.o = "--auto-ttl" -> AutoTtlOption(c, a.v)
    [] a.o = "--wrong-chksum" -> TurnOn(c, {"fake", "wrongChksum"})
    [] a.o = "--wrong-seq" -> TurnOn(c, {"fake", "wrongSeq"})
    [] a.o = "--native-frag" -> TurnOn(c, Persistent \cup {"native"})
    [] a.o = "--reverse-frag" -> TurnOn(c, Persistent \cup {"native", "reverse"})
    [] a.o = "--max-payload" -> Limited(c, a.v, MaxShort, SetMaxPayload(c, a.v))
    [] a.o = "--fake-with-sni" -> FakeFromSni(c, a.v)
    [] a.o = "--fake-from-hex" -> FakeFromHex(c, a.v)
    [] a.o = "--fake-gen" -> Limited(c, a.v, MaxByte, FakeRandom(c, a.v))
    [] a.o = "--fake-resend" -> Limited(c, a.v, MaxByte, SetResend(c, a.v))
    [] OTHER -> Error(c)

Modes == {"-1", "-2", "-3", "-4", "-5", "-6", "-7", "-8", "-9"}
ShortOptions == {"-p", "-q", "-r", "-s", "-a", "-m", "-f", "-k", "-n", "-e", "-w"}
FilterOptions == {"--port", "--ip-id", "--dns-addr", "--dnsv6-addr", "--blacklist",
                  "--allow-no-sni", "--frag-by-sni"}
DnsPorts == {"--dns-port", "--dnsv6-port"}

ApplyOption(c, a) ==
  CASE c.err -> c
    [] a.o \in {"-1", "-2", "-3", "-4"} -> LegacyMode(c, a.o)
    [] a.o \in {"-5", "-6", "-7", "-8", "-9"} -> ModernMode(c, a.o)
    [] a.o \in ShortOptions -> ShortOption(c, a)
    [] a.o \in FilterOptions -> FilterOption(c, a)
    [] a.o \in DnsPorts -> DnsPort(c, a)
    [] OTHER -> FakeOption(c, a)

Or(v, w) == IF v = 0 THEN w ELSE v

\* The defaults set after the loop, and the check on native fragmentation.
Defaults(c) ==
  LET auto == "autoTtl" \in c.on
      d == [c EXCEPT !.http = Or(@, 2), !.https = Or(@, 2), !.ttl1 = Or(@, 1), !.ttl2 = Or(@, 4),
                     !.minHops = IF auto THEN Or(@, 3) ELSE @,
                     !.ttlMax = IF auto THEN Or(@, 10) ELSE @]
  IN  IF "native" \in c.on /\ {"fragHttp", "fragHttps"} \cap c.on = {} THEN Error(d) ELSE d

\* main up to the opening of the filters; without arguments it is mode -9.
Configure(args) ==
  Defaults(IF args = <<>> THEN ModernMode(Unset, "-9") ELSE FoldLeft(ApplyOption, Unset, args))

-----------------------------------------------------------------------------
(* The service's adapter.                                                  *)

None == <<>>
Some(v) == <<v>>

\* The fields of GoodbyeConfig: the flags by the options that set them, the values by the
\* options that carry them, and custom_args.
Flags == {"-p", "-q", "-r", "-s", "-m", "--wrong-seq", "--wrong-chksum", "--native-frag",
          "--reverse-frag"}
Valued == {"-f", "-e", "--auto-ttl", "--set-ttl", "--min-ttl", "--max-payload", "--dns-addr",
           "--dns-port", "--dnsv6-addr", "--dnsv6-port"}
NoConfig == [flags |-> {}, val |-> [o \in Valued |-> None], custom |-> <<>>]

SetFlags(g, s) == [g EXCEPT !.flags = @ \cup s]
SetValue(g, o, v) == [g EXCEPT !.val[o] = Some(v)]
Clear(g, o) == [g EXCEPT !.val[o] = None]

\* from_profile's modesets.
AdapterModes == {"-1", "-5", "-6", "-7", "-8", "-9"}
AdapterMode(g, m) ==
  LET sizes == SetValue(SetValue(g, "-f", 2), "-e", 2)
      split == SetValue(SetFlags(sizes, {"--native-frag", "--reverse-frag"}), "--max-payload", 1200)
      plain == [split EXCEPT !.flags = @ \ {"--wrong-seq", "--wrong-chksum", "-q"}]
  IN  CASE m = "-1" -> SetFlags(sizes, {"-p", "-r", "-s"})
        [] m = "-5" -> Clear(SetValue(plain, "--auto-ttl", <<1, 4, 10>>), "--set-ttl")
        [] m = "-6" -> SetFlags(split, {"--wrong-seq"})
        [] m = "-7" -> SetFlags(split, {"--wrong-chksum"})
        [] m = "-8" -> SetFlags(split, {"--wrong-seq", "--wrong-chksum"})
        [] m = "-9" -> SetFlags(split, {"--wrong-seq", "--wrong-chksum", "-q"})

\* from_profile: one argument.  A number out of its range ends the start in from_profile;
\* here the worker refuses it, to the same effect: no loop runs.
AdapterOption(g, a) ==
  CASE a.o \in AdapterModes -> AdapterMode(g, a.o)
    [] a.o \in Flags -> SetFlags(g, {a.o})
    [] a.o = "--auto-ttl" ->
         Clear(SetValue(g, a.o, IF a.v = <<>> THEN <<1, 4, 10>> ELSE a.v), "--set-ttl")
    [] a.o = "--set-ttl" -> Clear(SetValue(g, a.o, a.v), "--auto-ttl")
    [] a.o \in Valued \ {"--auto-ttl", "--set-ttl"} -> SetValue(g, a.o, a.v)
    [] OTHER -> [g EXCEPT !.custom = Append(@, a)]

FromProfile(args) == FoldLeft(AdapterOption, NoConfig, args)

If(b, a) == IF b THEN <<a>> ELSE <<>>
FlagArg(g, o) == If(o \in g.flags, Flag(o))
ValueArg(g, o) == IF g.val[o] = None THEN <<>> ELSE <<Opt(o, g.val[o][1])>>

TtlArgs(g) == IF g.val["--set-ttl"] # None THEN ValueArg(g, "--set-ttl") ELSE ValueArg(g, "--auto-ttl")

\* Mutant: the port comes before the address it needs.
DnsArgsPortFirst(g) ==
  ValueArg(g, "--dns-port") \o ValueArg(g, "--dns-addr")
  \o ValueArg(g, "--dnsv6-addr") \o ValueArg(g, "--dnsv6-port")

DnsArgs(g) ==
  ValueArg(g, "--dns-addr") \o ValueArg(g, "--dns-port")
  \o ValueArg(g, "--dnsv6-addr") \o ValueArg(g, "--dnsv6-port")

\* to_command_args_filtered
ToCommandArgs(g, includeDns) ==
  FlagArg(g, "-p") \o FlagArg(g, "-q") \o FlagArg(g, "-r") \o FlagArg(g, "-s") \o FlagArg(g, "-m")
  \o ValueArg(g, "-f") \o ValueArg(g, "-e")
  \o FlagArg(g, "--native-frag") \o FlagArg(g, "--reverse-frag")
  \o FlagArg(g, "--wrong-seq") \o FlagArg(g, "--wrong-chksum")
  \o TtlArgs(g) \o ValueArg(g, "--min-ttl") \o ValueArg(g, "--max-payload")
  \o (IF includeDns THEN DnsArgs(g) ELSE <<>>)
  \o g.custom

-----------------------------------------------------------------------------
(* What a configuration makes the worker do: `nowait` is only printed and  *)
(* `persistent` only read together with the other HTTP options.            *)

HttpWanted(c) == {"host", "removespace", "mixedcase", "persistent", "fake"} \cap c.on # {}

Meaning(c) ==
  [c EXCEPT !.on = (@ \ Persistent) \cup (IF HttpWanted(c) THEN {"http"} ELSE {})]
=============================================================================
