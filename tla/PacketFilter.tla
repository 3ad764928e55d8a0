----------------------------- MODULE PacketFilter -----------------------------
(***************************************************************************)
(* The GoodbyeDPI worker: its start-up and stop, and its packet loop with  *)
(* the two connection trackers (dnsredir.c, ttltrack.c), the fake requests *)
(* (fakepackets.c), the rewriting of HTTP requests and the splitting into  *)
(* segments (goodbyedpi.c).  One action is one iteration of the loop.      *)
(*                                                                         *)
(* Abstraction.  A payload is a short sequence of tokens, a space or the   *)
(* end of a line being a token of its own; `size` tells the 16 bytes the   *)
(* loop asks for, and a packet too large for a fake.  Dates are replaced   *)
(* by ages, so that time is unbounded and the states are finite: an age    *)
(* stops at 2 * Interval and the time since a clean-up at Interval, values *)
(* the code cannot tell from greater ones.                                 *)
(***************************************************************************)
EXTENDS GoodbyeOptions

CONSTANTS
  Profiles,    \* the argument lists of profiles: sequences of options
  Ports,       \* client ports of UDP queries
  Servers,     \* DNS servers the client asks
  Resolver,    \* the address given with --dns-addr
  Conns,       \* TCP connections: records [id, port], port that of the server
  Ttls,        \* TTLs of the servers' SYN/ACKs
  Packets,     \* outbound TCP payloads
  Interval     \* DNS_CLEANUP_INTERVAL_SEC, TCP_CLEANUP_INTERVAL_SEC

ASSUME IntervalPositive == Interval \in Nat \ {0}

\* A connection is its two ends, and nothing else.
ASSUME ConnsAreEnds ==
  \A c \in Conns \cup {p.conn : p \in Packets} : c = [id |-> c.id, port |-> c.port]

\* A profile is a list of options, a payload a sequence of tokens, and the place of the
\* server name in it a number.
ASSUME ProfilesAreLists == \A p \in Profiles : p = [i \in 1 .. Len(p) |-> p[i]] /\ Len(p) \in Nat
ASSUME PacketsAreStreams == \A p \in Packets : p.data \in Seq(STRING) /\ p.sni \in Nat

VARIABLES
  profile,     \* the profile the worker was started for
  cfg,         \* the variables of main that the options set
  proc,        \* "opening", "running", "dying" (die's sleep), "dead"
  tried,       \* the calls of init() that succeeded
  open,        \* the open handles of filters[]
  stopped,     \* the service control handler has reported SERVICE_STOPPED
  udp, tcp,    \* the trackers: [recs, since]
  fakeTtl,     \* ttl_of_fake_packet
  path,        \* environment: the TTL of a connection's last SYN/ACK
  last         \* the last packet of the loop, and what became of it

worker == <<profile, cfg, proc, tried, open, stopped>>
vars == <<worker, udp, tcp, fakeTtl, path, last>>

On(f) == f \in cfg.on

-----------------------------------------------------------------------------
(* The trackers.  recs maps a key to a record with the age of its entry,   *)
(* since is the time since last_cleanup, Never before the first one.       *)

Never == -1
NoRecords == [recs |-> [k \in {} |-> k], since |-> Never]

\* construct_key: the IP version and the client's end; both ends, the sender's first.
UdpKey(v, p) == <<v, p>>
TcpKey(src, dst) == <<src, dst>>

Without(f, k) == [x \in DOMAIN f \ {k} |-> f[x]]
With(f, k, v) == [x \in DOMAIN f \cup {k} |-> IF x = k THEN v ELSE f[x]]

\* Mutant: the first call already counts as a clean-up that never comes due.
DnsCleanupOnce(t) == [t EXCEPT !.since = 0]

\* dns_cleanup
DnsCleanup(t) ==
  IF t.since = Never THEN [t EXCEPT !.since = 0]
  ELSE IF t.since >= Interval
  THEN [recs |-> [k \in {x \in DOMAIN t.recs : t.recs[x].age < Interval} |-> t.recs[k]],
        since |-> 0]
  ELSE t

\* tcp_cleanup: the same code on the other table.
TcpCleanup(t) ==
  IF t.since = Never THEN [t EXCEPT !.since = 0]
  ELSE IF t.since >= Interval
  THEN [recs |-> [k \in {x \in DOMAIN t.recs : t.recs[x].age < Interval} |-> t.recs[k]],
        since |-> 0]
  ELSE t

\* Mutant: a second query takes over the port's record.
AddUdpOverwrite(t, k, dst) == [t EXCEPT !.recs = With(@, k, [dst |-> dst, age |-> 0])]

\* add_udp_conntrack and add_tcp_conntrack: a key that is there stays as it is.
AddUdp(t, k, dst) ==
  IF k \in DOMAIN t.recs THEN t ELSE [t EXCEPT !.recs = With(@, k, [dst |-> dst, age |-> 0])]

AddTcp(t, k, ttl) ==
  IF k \in DOMAIN t.recs THEN t ELSE [t EXCEPT !.recs = With(@, k, [ttl |-> ttl, age |-> 0])]

Older(t) ==
  [recs |-> [k \in DOMAIN t.recs |->
               [t.recs[k] EXCEPT !.age = IF @ < 2 * Interval THEN @ + 1 ELSE @]],
   since |-> IF t.since \in 0 .. Interval - 1 THEN t.since + 1 ELSE t.since]

-----------------------------------------------------------------------------
(* What the loop lets out.                                                 *)

Real(off, data, len) == [t |-> "real", off |-> off, data |-> data, len |-> len]
Fake(how, ttl, times) == [t |-> "fake", how |-> how, ttl |-> ttl, times |-> times]
Datagram(peer, port) == [t |-> "udp", peer |-> peer, port |-> port]
SynAckOut(window) == [t |-> "synack", window |-> window]
Whole(data) == <<Real(0, data, Len(data))>>

\* blackwhitelist_check_hostname: the name, or what follows one of its dots.
Listed(host) ==
  \E i \in 1 .. Len(host) : SubSeq(host, i, Len(host)) \in cfg.list

\* The distance tcp_get_auto_ttl sees in a TTL, 0 for none.
Hops(ttl) == IF ttl \in 99 .. 127 THEN 128 - ttl ELSE IF ttl \in 35 .. 63 THEN 64 - ttl ELSE 0

\* tcp_get_auto_ttl, on bytes.  Bound: a1 <= a2.
AutoTtl(ttl, a1, a2, min, max) ==
  LET n == Hops(ttl)
      far == (n - a2) % 256
      t == IF far < a2 /\ n <= 9 THEN (n - a1 - ((a2 - a1) * n) \div 10) % 256 ELSE far
  IN  IF n = 0 \/ n <= a1 \/ n < min THEN 0 ELSE IF max # 0 /\ t > max THEN max ELSE t

\* tcp_handle_incoming
TcpHandleIncoming(k, ttl) == AddTcp(TcpCleanup(tcp), k, ttl)

\* tcp_handle_outgoing: the tracker afterwards, and the TTL of the record it took.
TcpHandleOutgoing(k) ==
  LET t == TcpCleanup(tcp)
  IN  IF k \in DOMAIN t.recs
      THEN [tcp |-> [t EXCEPT !.recs = Without(@, k)], ttl |-> Some(t.recs[k].ttl)]
      ELSE [tcp |-> t, ttl |-> None]

\* TCP_HANDLE_OUTGOING_FAKE_PACKET, which looks for the key of the answers: the tracker and
\* the fakes' TTL afterwards, and whether to send.
Tracked == On("autoTtl") \/ cfg.minHops # 0

\* Mutant: the record is taken and the TTL of the previous connection used.
FakeDecisionStale(c) ==
  [tcp |-> [tcp EXCEPT !.recs = Without(@, TcpKey(c.port, c.id))], ttl |-> fakeTtl, send |-> TRUE]

FakeDecision(c) ==
  LET h == TcpHandleOutgoing(TcpKey(c.port, c.id))
  IN  CASE ~Tracked -> [tcp |-> tcp, ttl |-> fakeTtl, send |-> TRUE]
        [] Tracked /\ h.ttl = None -> [tcp |-> h.tcp, ttl |-> fakeTtl, send |-> TRUE]
        [] Tracked /\ h.ttl # None /\ On("autoTtl") ->
             [tcp |-> h.tcp, send |-> TRUE,
              ttl |-> AutoTtl(h.ttl[1], cfg.ttl1, cfg.ttl2, cfg.minHops, cfg.ttlMax)]
        [] Tracked /\ h.ttl # None /\ ~On("autoTtl") ->
             [tcp |-> h.tcp, ttl |-> fakeTtl, send |-> AutoTtl(h.ttl[1], 0, 0, cfg.minHops, 0) # 0]

\* send_fake_http_request, send_fake_https_request: every payload `resend` times, as up to
\* three packets each with one flaw of its own; none when it would not fit the buffer.
FakeRequest(p, ttl) ==
  LET times == (IF cfg.fakes = 0 THEN 1 ELSE cfg.fakes) * cfg.resend
      ways == If(ttl # 0, Fake("ttl", ttl, times)) \o If(On("wrongChksum"), Fake("chksum", 0, times))
              \o If(On("wrongSeq"), Fake("seq", 0, times))
  IN  IF cfg.resend = 0 \/ p.size = "jumbo" THEN <<>> ELSE ways

-----------------------------------------------------------------------------
(* HTTP requests.                                                          *)

\* The place of the first end of a line from place i on, 0 without one.
LineEnd(d, i) ==
  LET ends == {j \in i .. Len(d) : d[j] = "\n"}
  IN  IF ends = {} THEN 0 ELSE CHOOSE j \in ends : \A m \in ends : j <= m

HOST_MAXLEN == 253

\* find_header_and_get_info: the place of the value in the first line that begins with
\* "name: ", 0 without one and for a value too short, too long or without an end.
ValueAt(d, name) ==
  LET at == {i \in 2 .. Len(d) - 2 : d[i - 1] = "\n" /\ d[i] = name /\ d[i + 1] = "SP"}
      v == (CHOOSE i \in at : \A j \in at : i <= j) + 2
  IN  IF at = {} THEN 0 ELSE IF LineEnd(d, v) - v \in 3 .. HOST_MAXLEN THEN v ELSE 0

\* find_http_method_end: the place of the space after the method, also when the first one
\* or two bytes of the method went out before.
MethodEnd(d) ==
  IF Len(d) >= 2 /\ d[2] = "SP"
     /\ (d[1] = "GET" \/ (d[1] = "ET" /\ On("fragHttp") /\ cfg.http \in {1, 2}))
  THEN 2 ELSE 0

\* mix_case
Upper(c) == CASE c = "a" -> "A" [] c = "b" -> "B" [] OTHER -> c
MixCase(d) ==
  LET h == ValueAt(d, "Host:")
  IN  [i \in DOMAIN d |->
         IF i \in h .. LineEnd(d, h) - 1 /\ (i - h) % 2 = 1 THEN Upper(d[i]) ELSE d[i]]

\* The name of the header whose value is at h.
ReplaceHost(d, h) == [d EXCEPT ![h - 2] = "hoSt:"]

\* The space before the host's value moves behind the method.
AddSpace(d, h) ==
  SubSeq(d, 1, MethodEnd(d)) \o SubSeq(d, MethodEnd(d), h - 2) \o SubSeq(d, h, Len(d))

\* Mutant: the block moved to the left is one byte short.
RemoveSpaceShort(d, h) ==
  LET u == ValueAt(d, "UA:")
      e == LineEnd(d, u)
  IN  IF u > h THEN SubSeq(d, 1, h - 2) \o SubSeq(d, h, e - 2) \o <<"SP", "SP">> \o SubSeq(d, e, Len(d))
      ELSE d

\* The space before the host's value moves to the end of the User-Agent, if there is one.
RemoveSpace(d, h) ==
  LET u == ValueAt(d, "UA:")
      e == LineEnd(d, u)
  IN  CASE u = 0 -> d
        [] u > h -> SubSeq(d, 1, h - 2) \o SubSeq(d, h, e - 1) \o <<"SP">> \o SubSeq(d, e, Len(d))
        [] u < h /\ u # 0 ->
             SubSeq(d, 1, e - 1) \o <<"SP">> \o SubSeq(d, e, h - 2) \o SubSeq(d, h, Len(d))

\* The rewriting of the HTTP branch, in its order.
Rewrite(d) ==
  LET h == ValueAt(d, "Host:")
      mixed == IF On("mixedcase") THEN MixCase(d) ELSE d
      named == IF On("host") THEN ReplaceHost(mixed, h) ELSE mixed
  IN  CASE On("addspace") /\ On("removespace") -> AddSpace(named, h)
        [] ~On("addspace") /\ On("removespace") -> RemoveSpace(named, h)
        [] OTHER -> named

-----------------------------------------------------------------------------
(* An outbound TCP packet with data.                                       *)

\* add_maxpayloadsize_str: requests are exempt from the limit.
PayloadFits(p) == cfg.maxPayload # 0 => p.size # "jumbo" \/ p.kind \in {"hello", "http"}

\* The filter string.
Captured(p) == p.conn.port \in cfg.tcpPorts /\ PayloadFits(p)

SniOk(p) == (On("blacklist") \/ On("bySni")) /\ p.kind = "hello" /\ p.host # <<>>

\* The branch for any port but 80, and the packets it acts on.
TlsBranch(p) ==
  /\ p.conn.port # 80 /\ (On("fake") \/ On("native"))
  /\ p.size # "tiny" \/ (On("fragHttps") /\ Len(p.data) = cfg.https)

TlsTarget(p) ==
  /\ TlsBranch(p) /\ p.kind = "hello"
  /\ On("blacklist") => IF SniOk(p) THEN Listed(p.host) ELSE On("allowNoSni")

HttpTarget(p) ==
  /\ ~TlsBranch(p) /\ p.size # "tiny" /\ HttpWanted(cfg) /\ p.kind = "http"
  /\ On("allPorts") \/ p.conn.port = 80
  /\ MethodEnd(p.data) # 0 /\ ValueAt(p.data, "Host:") # 0
  /\ On("blacklist") => Listed(p.host)

\* send_native_fragment: the beginning (step 0) or the rest (step 1) of the packet; a size
\* the packet does not reach leaves it whole.  Real carries the sequence number's offset
\* and the payload length the IP header announces.
NativeFragment(d, size, step) ==
  IF size >= Len(d) THEN IF step = 1 THEN Whole(d) ELSE <<>>
  ELSE IF step = 0 THEN <<Real(0, SubSeq(d, 1, size), Len(d) - Len(d) + size)>>
  ELSE <<Real(size, SubSeq(d, size + 1, Len(d)), Len(d) - size)>>

\* current_fragment_size
FragmentSize(p) ==
  CASE p.conn.port = 80 -> IF On("fragHttp") THEN cfg.http ELSE 0
    [] OTHER -> IF ~On("fragHttps") THEN 0
                ELSE IF On("bySni") /\ SniOk(p) THEN p.sni ELSE cfg.https

Segments(p, d) ==
  LET first == IF On("reverse") THEN 1 ELSE 0
      size == FragmentSize(p)
  IN  IF On("native") /\ size # 0
      THEN NativeFragment(d, size, first) \o NativeFragment(d, size, 1 - first)
      ELSE Whole(d)

NoPacket == [k |-> "none", out |-> <<>>]

\* What happens only while the loop receives.
Receiving == proc = "running" /\ "main" \in open

DataOut(p) ==
  LET touched == TlsTarget(p) \/ HttpTarget(p)
      dec == FakeDecision(p.conn)
      fakes == IF On("fake") /\ dec.send THEN FakeRequest(p, dec.ttl) ELSE <<>>
      data == IF HttpTarget(p) THEN Rewrite(p.data) ELSE p.data
  IN  /\ Receiving
      /\ IF Captured(p) /\ touched
         THEN /\ last' = [k |-> "data", pkt |-> p, out |-> fakes \o Segments(p, data)]
              /\ tcp' = IF On("fake") THEN dec.tcp ELSE tcp
              /\ fakeTtl' = IF On("fake") THEN dec.ttl ELSE fakeTtl
         ELSE /\ last' = [k |-> "data", pkt |-> p, out |-> Whole(p.data)]
              /\ UNCHANGED <<tcp, fakeTtl>>
      /\ UNCHANGED <<worker, udp, path>>

\* An inbound SYN/ACK: the tracker, and the window where the split is left to the peer.
\* Environment: while a record is held, its connection's path stays the same.
SynAckIn(c, ttl) ==
  LET size == IF c.port = 80 THEN (IF On("fragHttp") THEN cfg.http ELSE 0)
              ELSE IF On("fragHttps") THEN cfg.https ELSE 0
      k == TcpKey(c.port, c.id)
  IN  /\ Receiving /\ c.port \in cfg.tcpPorts
      /\ k \in DOMAIN tcp.recs => tcp.recs[k].ttl = ttl
      /\ path' = IF Tracked THEN [path EXCEPT ![c] = ttl] ELSE path
      /\ tcp' = IF On("fake") /\ Tracked THEN TcpHandleIncoming(k, ttl) ELSE tcp
      /\ last' = [k |-> "synack", out |-> <<SynAckOut(IF On("native") THEN 0 ELSE size)>>]
      /\ UNCHANGED <<worker, udp, fakeTtl>>

\* An inbound packet with data from port 80: a redirection is dropped, on IPv6 only with
\* flow label 0.  d = [v, redirect, zero]: zero is an IP identification the filter selects,
\* or flow label 0.
DataIn(d) ==
  LET captured == d.v = 6 \/ d.zero
      dropped == captured /\ On("passivedpi") /\ d.redirect /\ (d.v = 4 \/ d.zero)
  IN  /\ Receiving
      /\ last' = [k |-> "indata", in |-> d, out |-> IF dropped THEN <<>> ELSE Whole(<<"data">>)]
      /\ UNCHANGED <<worker, udp, tcp, fakeTtl, path>>

-----------------------------------------------------------------------------
(* UDP packets on the ports of the filter.  A key is the IP version and    *)
(* the client's port.                                                      *)

Redirected(v) == On(IF v = 4 THEN "dns4" ELSE "dns6")
ResolverPort(v) == IF v = 4 THEN cfg.port4 ELSE cfg.port6

\* dns_handle_outgoing: the tracker afterwards, and whether the query has a record now.
DnsHandleOutgoing(k, dst) ==
  LET t == DnsCleanup(udp)
  IN  [udp |-> AddUdp(t, k, dst), added |-> k \notin DOMAIN t.recs]

\* dns_handle_incoming: the tracker afterwards, and the server of the record it took.
DnsHandleIncoming(k) ==
  LET t == DnsCleanup(udp)
  IN  IF k \in DOMAIN t.recs
      THEN [udp |-> [t EXCEPT !.recs = Without(@, k)], dst |-> Some(t.recs[k].dst)]
      ELSE [udp |-> t, dst |-> None]

\* A DNS query leaves for a server: recorded and given its new destination, or dropped.
QueryOut(v, p, server) ==
  LET h == DnsHandleOutgoing(UdpKey(v, p), server)
      handled == Redirected(v) /\ 53 \in cfg.udpPorts
  IN  /\ Receiving
      /\ udp' = IF handled THEN h.udp ELSE udp
      /\ last' = [k |-> "query", v |-> v, out |->
                    IF handled THEN If(h.added, Datagram(Resolver, ResolverPort(v)))
                    ELSE <<Datagram(server, 53)>>]
      /\ UNCHANGED <<worker, tcp, fakeTtl, path>>

\* A DNS answer comes in for a port from where its query was sent, be it late or a second
\* time: it is given the old source; without a record it is dropped.
AnswerIn(v, p) ==
  LET key == UdpKey(v, p)
      h == DnsHandleIncoming(key)
  IN  /\ Receiving /\ Redirected(v)
      /\ IF ResolverPort(v) \in cfg.udpPorts
         THEN /\ udp' = h.udp
              /\ last' = [k |-> "answer", key |-> key, out |->
                            IF h.dst # None THEN <<Datagram(h.dst[1], 53)>> ELSE <<>>]
         ELSE /\ last' = [k |-> "answer", key |-> key, out |-> <<Datagram(Resolver, ResolverPort(v))>>]
              /\ UNCHANGED udp
      /\ UNCHANGED <<worker, tcp, fakeTtl, path>>

\* A packet on port 53 that is no DNS message: short ones return before the clean-up.
OtherUdp(v, long) ==
  /\ Receiving /\ 53 \in cfg.udpPorts
  /\ udp' = IF Redirected(v) /\ long THEN DnsCleanup(udp) ELSE udp
  /\ last' = [k |-> "other", out |-> <<Datagram(Resolver, 53)>>]
  /\ UNCHANGED <<worker, tcp, fakeTtl, path>>

Tick ==
  /\ Receiving
  /\ udp' = Older(udp) /\ tcp' = Older(tcp)
  /\ last' = NoPacket
  /\ UNCHANGED <<worker, fakeTtl, path>>

-----------------------------------------------------------------------------
(* Start and stop.                                                         *)

rest == <<profile, cfg, udp, tcp, fakeTtl, path, last>>

\* Mutant: the filter that diverts is opened before the ones that drop.
WantedMainFirst == <<"main">> \o If(On("passivedpi"), "passive") \o If(On("quic"), "quic")

Wanted ==
  IF On("passivedpi")
  THEN IF On("quic") THEN <<"passive", "quic", "main">> ELSE <<"passive", "main">>
  ELSE IF On("quic") THEN <<"quic", "main">> ELSE <<"main">>

\* The next init() of main; after the last one the loop starts.
OpenFilter ==
  /\ proc = "opening"
  /\ tried' = tried + 1
  /\ open' = open \cup {Wanted[tried + 1]}
  /\ proc' = IF tried + 1 = Len(Wanted) THEN "running" ELSE proc
  /\ UNCHANGED <<stopped, rest>>

\* init() fails: die() sleeps 20 seconds and exits.
OpenFails ==
  /\ proc = "opening"
  /\ proc' = "dying"
  /\ UNCHANGED <<tried, open, stopped, rest>>

\* service_controlhandler, on a thread of its own: deinit_all and the report.
StopControl ==
  /\ proc \in {"opening", "running"} /\ ~stopped
  /\ stopped' = TRUE
  /\ open' = {}
  /\ UNCHANGED <<proc, tried, rest>>

\* The end of the process takes its memory along, and the system closes what is open.
EndProcess ==
  /\ proc' = "dead" /\ open' = {}
  /\ udp' = NoRecords /\ tcp' = NoRecords /\ fakeTtl' = 0 /\ last' = NoPacket
  /\ path' = [c \in Conns |-> 0]
  /\ UNCHANGED <<profile, cfg, tried, stopped>>

\* sigint_handler, installed once the loop runs; before, the signal's default action.
Interrupt ==
  /\ proc \in {"opening", "running"}
  /\ EndProcess

\* The process ends: after die()'s sleep, when the receive fails and main returns, or when
\* the dispatcher returns from a stopped service.
Exit ==
  /\ proc \in {"opening", "running", "dying"}
  /\ proc = "dying" \/ stopped \/ (proc = "running" /\ "main" \notin open)
  /\ EndProcess

-----------------------------------------------------------------------------
\* What the service starts the worker with for a profile.
Started(p) == Configure(ToCommandArgs(FromProfile(p), TRUE))

Init ==
  /\ profile \in Profiles
  /\ cfg = Started(profile)
  /\ proc = (IF cfg.err THEN "dead" ELSE "opening") /\ tried = 0 /\ open = {}
  /\ stopped = FALSE
  /\ udp = NoRecords /\ tcp = NoRecords
  /\ fakeTtl = cfg.ttl
  /\ path = [c \in Conns |-> 0]
  /\ last = NoPacket

Inbound == [v : {4, 6}, redirect : BOOLEAN, zero : BOOLEAN]

Next ==
  \/ OpenFilter \/ OpenFails \/ StopControl \/ Interrupt \/ Exit
  \/ \E p \in Packets : DataOut(p)
  \/ \E c \in Conns, ttl \in Ttls : SynAckIn(c, ttl)
  \/ \E d \in Inbound : DataIn(d)
  \/ \E v \in {4, 6}, p \in Ports, server \in Servers : QueryOut(v, p, server)
  \/ \E v \in {4, 6}, p \in Ports : AnswerIn(v, p)
  \/ \E v \in {4, 6}, long \in BOOLEAN : OtherUdp(v, long)
  \/ Tick

\* The clock runs, the process ends when told to, and a resolver without an answer asks
\* again from its port.
Fairness ==
  /\ WF_vars(Tick) /\ WF_vars(Exit)
  /\ \A v \in {4, 6}, p \in Ports : WF_vars(\E server \in Servers : QueryOut(v, p, server))

Spec == Init /\ [][Next]_vars
FairSpec == Spec /\ Fairness

-----------------------------------------------------------------------------
Tracker(keys, val) ==
  [recs : UNION {[K -> val] : K \in SUBSET keys}, since : Never .. Interval]

ConnKeys == {TcpKey(c.port, c.id) : c \in Conns}

\* The command line the service builds for a profile makes the worker do what the profile's
\* own arguments would: goodbye.rs expands the mode sets it knows and re-orders the rest,
\* goodbyedpi.c reads the options in the order they come.
AdapterKeepsMeaning == Meaning(cfg) = Meaning(Configure(profile))

\* A query's record stays what it is until its answer is delivered under the server it
\* names, or until it is Interval old: no other query, late answer or clean-up takes it.
AnswersServed ==
  [][\A k \in DOMAIN udp.recs :
       \/ k \in DOMAIN udp'.recs /\ udp'.recs[k].dst = udp.recs[k].dst
       \/ udp.recs[k].age >= Interval \/ proc' = "dead"
       \/ last'.k = "answer" /\ last'.key = k /\ last'.out = <<Datagram(udp.recs[k].dst, 53)>>]_vars

\* After any packet that consulted a tracker, no record in it is 2 * Interval old: a record
\* nobody claims blocks its port, and can be taken for a newer connection's, only that long.
OldRecordsGone ==
  \A t \in {udp, tcp} : t.since \in 0 .. Interval - 1 =>
    \A k \in DOMAIN t.recs : t.recs[k].age < t.since + Interval

\* A port whose answer was lost is usable again: its old record makes way for a new query.
PortRecovers ==
  \A v \in {4, 6}, p \in Ports :
    (UdpKey(v, p) \in DOMAIN udp.recs /\ udp.recs[UdpKey(v, p)].age >= Interval)
      ~> \/ proc # "running" \/ UdpKey(v, p) \notin DOMAIN udp.recs
         \/ udp.recs[UdpKey(v, p)].age < Interval

\* The TTLs of the fakes among packets.
FakeTtls(out) == {out[i].ttl : i \in {j \in DOMAIN out : out[j].t = "fake" /\ out[j].how = "ttl"}}

OwnTtl(c) == AutoTtl(path[c], cfg.ttl1, cfg.ttl2, cfg.minHops, cfg.ttlMax)

\* In auto-TTL mode a record younger than Interval leaves the tracker only for a request of
\* its own connection, and the fakes sent then carry the TTL computed from that connection's
\* SYN/ACK, not the one ttl_of_fake_packet holds from another connection; --fake-resend 0 sends none.
OwnDistance ==
  [][\A c \in {d \in Conns : TcpKey(d.port, d.id) \in DOMAIN tcp.recs} :
       \/ TcpKey(c.port, c.id) \in DOMAIN tcp'.recs
       \/ tcp.recs[TcpKey(c.port, c.id)].age >= Interval \/ proc' = "dead"
       \/ /\ last'.k = "data" /\ last'.pkt.conn = c
          /\ On("autoTtl") /\ last'.pkt.size # "jumbo" /\ cfg.resend # 0
               => FakeTtls(last'.out) = {OwnTtl(c)} \ {0}]_vars

\* Two requests that differ in spaces, case and the spelling of Host only: the bytes that
\* are no spaces are the same in the same order.
Lower(c) == CASE c = "A" -> "a" [] c = "B" -> "b" [] c = "hoSt:" -> "Host:" [] OTHER -> c
Letters(d) == {i \in DOMAIN d : d[i] # "SP"}
Rank(d, i) == Cardinality({j \in Letters(d) : j <= i})
SameText(d, e) ==
  /\ Cardinality(Letters(d)) = Cardinality(Letters(e))
  /\ \A i \in Letters(d), j \in Letters(e) : Rank(d, i) = Rank(e, j) => Lower(d[i]) = Lower(e[j])

\* What leaves for a data packet is that data: the segments cover every byte exactly once at
\* its sequence number, their IP headers announce their length, they come after the fakes,
\* and put together they are the request up to spaces and case, of the same length.
StreamPreserved ==
  last.k = "data" =>
    LET d == last.pkt.data
        segs == {i \in DOMAIN last.out : last.out[i].t = "real"}
        At(n) == {i \in segs : n \in last.out[i].off + 1 .. last.out[i].off + Len(last.out[i].data)}
        Byte(n) == LET s == last.out[CHOOSE i \in At(n) : TRUE] IN s.data[n - s.off]
    IN  /\ \A n \in 1 .. Len(d) : \E i \in segs : At(n) = {i}
        /\ \A i \in segs : /\ last.out[i].len = Len(last.out[i].data)
                           /\ last.out[i].off + last.out[i].len <= Len(d)
                           /\ \A j \in DOMAIN last.out \ segs : j < i
        /\ SameText(d, [n \in 1 .. Len(d) |-> Byte(n)])

\* Diverted packets always have a loop that takes them: the diverting handle is open only
\* while the loop runs, also when a later or an earlier handle fails or the service stops
\* half-way through the opening.
DivertedAreServed == "main" \in open => proc = "running"

\* A fake that only its TTL keeps from the server expires on the way: its TTL is "low enough
\* to expire before reaching the real destination server" (docs/UPSTREAM_AUDIT.md:119, of
\* --set-ttl and --auto-ttl), so it is below the distance tcp_get_auto_ttl measured.
FakesExpire ==
  last.k = "data" /\ path[last.pkt.conn] # 0
    => \A ttl \in FakeTtls(last.out) : ttl < Hops(path[last.pkt.conn])
=============================================================================
