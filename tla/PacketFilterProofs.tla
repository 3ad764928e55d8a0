-------------------------- MODULE PacketFilterProofs --------------------------
(***************************************************************************)
(* What the packet filter promises for every profile, every set of ports,  *)
(* servers, connections and packets, every clean-up interval and unbounded *)
(* time: records leave the trackers in time and for their own packets, and *)
(* what leaves for a request is that request (StreamKept).                 *)
(***************************************************************************)
EXTENDS PacketStreamOps

\* The values of the two tables.
UdpRecord == [dst : Servers, age : 0 .. 2 * Interval]
TcpRecord == [ttl : Ttls, age : 0 .. 2 * Interval]
UdpKeys == {4, 6} \X Ports

\* The records of a tracker are younger than the time since the clean-up plus Interval, as
\* long as the next clean-up is not due; before the first one there are none.
Young(t) ==
  /\ t.since = Never => DOMAIN t.recs = {}
  /\ t.since \in 0 .. Interval - 1 => \A k \in DOMAIN t.recs : t.recs[k].age < t.since + Interval

Good(t, keys, val) == t \in Tracker(keys, val) /\ Young(t)

Aged(val) == \A r \in val : r.age \in 0 .. 2 * Interval

\* What a clean-up of t may leave.
CleanUp(t, u, keys, val) ==
  /\ Good(u, keys, val)
  /\ u.since \in 0 .. Interval - 1
  /\ DOMAIN u.recs \subseteq DOMAIN t.recs
  /\ \A k \in DOMAIN t.recs : k \in DOMAIN u.recs \/ t.recs[k].age >= Interval
  /\ \A k \in DOMAIN u.recs : u.recs[k] = t.recs[k]

\* A clean-up keeps the table well formed, leaves the next one not due, and removes only
\* records that are Interval old.
LEMMA DnsCleanupGood ==
  ASSUME NEW keys, NEW val, NEW t, Good(t, keys, val), Aged(val)
  PROVE  CleanUp(t, DnsCleanup(t), keys, val)
<1>1. t.since \in Never .. Interval /\ Interval \in Nat /\ Interval > 0
  BY IntervalPositive DEF Good, Tracker
<1>2. PICK K \in SUBSET keys : t.recs \in [K -> val]
  BY DEF Good, Tracker
<1>3. CASE t.since = Never
  BY <1>1, <1>2, <1>3 DEF Good, Tracker, Young, DnsCleanup, CleanUp, Never
<1>4. CASE t.since = Interval
  <2> DEFINE S == {x \in DOMAIN t.recs : t.recs[x].age < Interval}
             f == [k \in S |-> t.recs[k]]
  <2>1. DnsCleanup(t) = [recs |-> f, since |-> 0]
    BY <1>1, <1>4 DEF DnsCleanup, Never
  <2>2. S \in SUBSET keys /\ f \in [S -> val]
    BY <1>2
  <2>3. DnsCleanup(t) \in Tracker(keys, val)
    BY <1>1, <2>1, <2>2 DEF Tracker, Never
  <2>4. \A k \in DOMAIN t.recs : t.recs[k].age \in Int
    BY <1>1, <1>2 DEF Aged
  <2> QED
    BY <1>1, <2>1, <2>3, <2>4 DEF Good, Young, CleanUp, Never
<1>5. CASE t.since \in 0 .. Interval - 1
  BY <1>1, <1>2, <1>5 DEF Good, Young, DnsCleanup, CleanUp, Never
<1> QED
  BY <1>1, <1>3, <1>4, <1>5 DEF Never

\* tcp_cleanup is the same code as dns_cleanup.
LEMMA TcpCleanupSame == \A t : TcpCleanup(t) = DnsCleanup(t)
BY DEF TcpCleanup, DnsCleanup

\* A new record keeps the table well formed, and the other records as they are.
LEMMA WithGood ==
  ASSUME NEW keys, NEW val, NEW t, Good(t, keys, val), t.since \in 0 .. Interval - 1,
         NEW k \in keys, NEW r \in val, r.age = 0
  PROVE  Good([t EXCEPT !.recs = With(@, k, r)], keys, val)
<1> DEFINE f == With(t.recs, k, r)
           u == [t EXCEPT !.recs = f]
<1>1. PICK K \in SUBSET keys : t.recs \in [K -> val]
  BY DEF Good, Tracker
<1>2. DOMAIN f = K \cup {k} /\ f \in [K \cup {k} -> val]
  BY <1>1 DEF With
<1>3. u.recs = f /\ u.since = t.since /\ u \in Tracker(keys, val)
  BY <1>2 DEF Good, Tracker
<1>4. \A x \in DOMAIN f : f[x].age < t.since + Interval
  BY <1>1, <1>2, IntervalPositive DEF Good, Young, With
<1>5. t.since # Never
  BY IntervalPositive DEF Never
<1> QED
  BY <1>3, <1>4, <1>5 DEF Good, Young

\* Taking a record out keeps the table well formed.
LEMMA WithoutGood ==
  ASSUME NEW keys, NEW val, NEW t, Good(t, keys, val), t.since \in 0 .. Interval - 1, NEW k
  PROVE  Good([t EXCEPT !.recs = Without(@, k)], keys, val)
<1> DEFINE f == Without(t.recs, k)
           u == [t EXCEPT !.recs = f]
<1>1. PICK K \in SUBSET keys : t.recs \in [K -> val]
  BY DEF Good, Tracker
<1>2. DOMAIN f = K \ {k} /\ f \in [K \ {k} -> val]
  BY <1>1 DEF Without
<1>3. u.recs = f /\ u.since = t.since /\ u \in Tracker(keys, val)
  BY <1>2 DEF Good, Tracker
<1>4. \A x \in DOMAIN f : f[x].age < t.since + Interval
  BY <1>1, <1>2, IntervalPositive DEF Good, Young, Without
<1>5. t.since # Never
  BY IntervalPositive DEF Never
<1> QED
  BY <1>3, <1>4, <1>5 DEF Good, Young

\* A set of records whose age can be counted up to its limit.
Ageing(val) == \A r \in val : [r EXCEPT !.age = IF @ < 2 * Interval THEN @ + 1 ELSE @] \in val

\* Both tables hold such records.
LEMMA RecordsAge == Aged(UdpRecord) /\ Aged(TcpRecord) /\ Ageing(UdpRecord) /\ Ageing(TcpRecord)
BY IntervalPositive DEF Aged, Ageing, UdpRecord, TcpRecord

\* Time passing keeps the table well formed: a record and the clean-up age together.
LEMMA OlderGood ==
  ASSUME NEW keys, NEW val, NEW t, Good(t, keys, val), Aged(val), Ageing(val),
         \A r \in val : "age" \in DOMAIN r
  PROVE  /\ Good(Older(t), keys, val)
         /\ DOMAIN Older(t).recs = DOMAIN t.recs
<1> DEFINE Old(r) == [r EXCEPT !.age = IF @ < 2 * Interval THEN @ + 1 ELSE @]
           f == [k \in DOMAIN t.recs |-> Old(t.recs[k])]
           s == IF t.since \in 0 .. Interval - 1 THEN t.since + 1 ELSE t.since
<1>0. Older(t) = [recs |-> f, since |-> s]
  BY DEF Older
<1>1. PICK K \in SUBSET keys : t.recs \in [K -> val]
  BY DEF Good, Tracker
<1>2. DOMAIN f = K /\ f \in [K -> val]
  BY <1>1 DEF Ageing
<1>3. s \in Never .. Interval
  BY IntervalPositive DEF Good, Tracker, Never
<1>4. Older(t) \in Tracker(keys, val)
  BY <1>0, <1>2, <1>3 DEF Tracker
<1>5. ASSUME s \in 0 .. Interval - 1, NEW k \in DOMAIN f
      PROVE  f[k].age < s + Interval
  <2>1. t.since \in 0 .. Interval - 1 /\ s = t.since + 1
    BY <1>5, IntervalPositive DEF Good, Tracker, Never
  <2>2. t.recs[k] \in val /\ t.recs[k].age < t.since + Interval
    BY <1>1, <1>2, <1>5, <2>1 DEF Good, Young
  <2>3. t.recs[k].age \in 0 .. 2 * Interval
    BY <2>2 DEF Aged
  <2>4. f[k].age = IF t.recs[k].age < 2 * Interval THEN t.recs[k].age + 1 ELSE t.recs[k].age
    BY <2>2, <1>2, <1>5
  <2> QED
    BY <2>1, <2>2, <2>3, <2>4, IntervalPositive
<1>6. s = Never => DOMAIN f = {}
  BY IntervalPositive DEF Good, Young, Tracker, Never
<1>7. Older(t).recs = f /\ Older(t).since = s
  BY <1>0
<1>8. DOMAIN f = DOMAIN t.recs
  OBVIOUS
<1> HIDE DEF f, s
<1> QED
  BY <1>4, <1>5, <1>6, <1>7, <1>8 DEF Good, Young

-----------------------------------------------------------------------------
\* The inductive invariant: both tables are well formed and young.
TrackersGood == Good(udp, UdpKeys, UdpRecord) /\ Good(tcp, ConnKeys, TcpRecord)

\* An empty table is well formed and young.
LEMMA EmptyGood == \A keys, val : Good(NoRecords, keys, val)
<1> SUFFICES ASSUME NEW keys, NEW val PROVE Good(NoRecords, keys, val)
  OBVIOUS
<1> DEFINE none == [k \in {} |-> k]
<1>1. none \in [{} -> val] /\ DOMAIN none = {}
  OBVIOUS
<1>2. none \in UNION {[K -> val] : K \in SUBSET keys}
  <2>1. {} \in SUBSET keys
    OBVIOUS
  <2> QED BY <1>1, <2>1
<1>3. Never \in Never..Interval /\ Never \notin 0..(Interval - 1)
  BY IntervalPositive DEF Never
<1> HIDE DEF none
<1>4. NoRecords = [recs |-> none, since |-> Never]
  BY DEF NoRecords, none
<1>5. NoRecords \in Tracker(keys, val)
  BY <1>2, <1>3, <1>4 DEF Tracker
<1>6. NoRecords.recs = none /\ NoRecords.since = Never
  BY <1>4
<1>7. Young(NoRecords)
  BY <1>1, <1>3, <1>6 DEF Young
<1> QED BY <1>5, <1>7 DEF Good

\* Initially the tables are empty.
LEMMA InitGood == Init => TrackersGood
<1> SUFFICES ASSUME Init PROVE Good(NoRecords, UdpKeys, UdpRecord) /\ Good(NoRecords, ConnKeys, TcpRecord)
  BY DEF Init, TrackersGood
<1> QED BY EmptyGood

\* What AnswersServed says of one step.
Served ==
  \A k \in DOMAIN udp.recs :
       \/ k \in DOMAIN udp'.recs /\ udp'.recs[k].dst = udp.recs[k].dst
       \/ udp.recs[k].age >= Interval \/ proc' = "dead"
       \/ last'.k = "answer" /\ last'.key = k /\ last'.out = <<Datagram(udp.recs[k].dst, 53)>>

\* The clean-up of the DNS table in a state.
LEMMA UdpClean ==
  ASSUME TrackersGood
  PROVE  CleanUp(udp, DnsCleanup(udp), UdpKeys, UdpRecord)
BY DnsCleanupGood, RecordsAge DEF TrackersGood

\* A query adds a record or leaves the port's old one alone.
LEMMA QueryStep ==
  ASSUME TrackersGood, NEW v \in {4, 6}, NEW p \in Ports, NEW server \in Servers,
         QueryOut(v, p, server)
  PROVE  Good(udp', UdpKeys, UdpRecord) /\ Served
<1> DEFINE t == DnsCleanup(udp)
           r == [dst |-> server, age |-> 0]
<1>1. CASE udp' = udp
  BY <1>1 DEF Served, TrackersGood
<1>2. CASE udp' = AddUdp(t, UdpKey(v, p), server)
  <2>1. r \in UdpRecord /\ r.age = 0 /\ UdpKey(v, p) \in UdpKeys
    BY IntervalPositive DEF UdpRecord, UdpKeys, UdpKey
  <2>2. CASE UdpKey(v, p) \in DOMAIN t.recs
    BY <1>2, <2>2, UdpClean DEF CleanUp, AddUdp, Served
  <2>3. CASE UdpKey(v, p) \notin DOMAIN t.recs
    <3>1. udp' = [t EXCEPT !.recs = With(@, UdpKey(v, p), r)]
      BY <1>2, <2>3 DEF AddUdp
    <3>2. Good(udp', UdpKeys, UdpRecord)
      BY <3>1, <2>1, UdpClean, WithGood DEF CleanUp
    <3>3. udp'.recs = With(t.recs, UdpKey(v, p), r)
      BY <3>1, UdpClean DEF CleanUp, Good, Tracker
    <3>4. \A k \in DOMAIN t.recs : k \in DOMAIN udp'.recs /\ udp'.recs[k] = t.recs[k]
      BY <3>3, <2>3 DEF With
    <3> QED
      BY <3>2, <3>4, UdpClean DEF CleanUp, Served
  <2> QED
    BY <2>2, <2>3
<1> QED
  BY <1>1, <1>2 DEF QueryOut, DnsHandleOutgoing

\* An answer takes its own record and no other one.
LEMMA AnswerStep ==
  ASSUME TrackersGood, NEW v \in {4, 6}, NEW p \in Ports, AnswerIn(v, p)
  PROVE  Good(udp', UdpKeys, UdpRecord) /\ Served
<1> DEFINE t == DnsCleanup(udp)
           key == UdpKey(v, p)
<1>1. CASE udp' = udp
  BY <1>1 DEF Served, TrackersGood
<1>2. CASE udp' = t
  BY <1>2, UdpClean DEF CleanUp, Served
<1>3. CASE /\ key \in DOMAIN t.recs
           /\ udp' = [t EXCEPT !.recs = Without(@, key)]
           /\ last' = [k |-> "answer", key |-> key, out |-> <<Datagram(t.recs[key].dst, 53)>>]
  <2>1. Good(udp', UdpKeys, UdpRecord)
    BY <1>3, UdpClean, WithoutGood DEF CleanUp
  <2>2. udp'.recs = Without(t.recs, key)
    BY <1>3, UdpClean DEF CleanUp, Good, Tracker
  <2>3. \A k \in DOMAIN t.recs \ {key} : k \in DOMAIN udp'.recs /\ udp'.recs[k] = t.recs[k]
    BY <2>2 DEF Without
  <2>4. t.recs[key] = udp.recs[key] /\ last'.k = "answer" /\ last'.key = key
        /\ last'.out = <<Datagram(t.recs[key].dst, 53)>>
    BY <1>3, UdpClean DEF CleanUp
  <2> HIDE DEF t, key
  <2> QED
    BY <2>1, <2>3, <2>4, UdpClean DEF CleanUp, Served, t
<1> DEFINE h == DnsHandleIncoming(key)
<1>4. CASE ResolverPort(v) \in cfg.udpPorts /\ key \in DOMAIN t.recs
  <2>1. h.udp = [t EXCEPT !.recs = Without(@, key)] /\ h.dst = <<t.recs[key].dst>>
    BY <1>4 DEF DnsHandleIncoming, Some
  <2>2. h.dst # None /\ h.dst[1] = t.recs[key].dst
    BY <2>1 DEF None
  <2>3. udp' = h.udp
        /\ last' = [k |-> "answer", key |-> key, out |->
                      IF h.dst # None THEN <<Datagram(h.dst[1], 53)>> ELSE <<>>]
    BY <1>4 DEF AnswerIn
  <2> QED
    BY <1>3, <1>4, <2>1, <2>2, <2>3
<1>5. CASE ResolverPort(v) \in cfg.udpPorts /\ key \notin DOMAIN t.recs
  BY <1>2, <1>5 DEF AnswerIn, DnsHandleIncoming
<1>6. CASE ResolverPort(v) \notin cfg.udpPorts
  BY <1>1, <1>6 DEF AnswerIn
<1> QED
  BY <1>4, <1>5, <1>6

\* The clean-up of the TTL table in a state.
LEMMA TcpClean ==
  ASSUME TrackersGood
  PROVE  CleanUp(tcp, TcpCleanup(tcp), ConnKeys, TcpRecord)
BY DnsCleanupGood, TcpCleanupSame, RecordsAge DEF TrackersGood

\* A SYN/ACK adds a record or leaves the connection's old one alone.
LEMMA SynAckStep ==
  ASSUME TrackersGood, NEW c \in Conns, NEW ttl \in Ttls, SynAckIn(c, ttl)
  PROVE  Good(tcp', ConnKeys, TcpRecord)
<1> DEFINE t == TcpCleanup(tcp)
           r == [ttl |-> ttl, age |-> 0]
           k == TcpKey(c.port, c.id)
<1>1. CASE tcp' = tcp
  BY <1>1 DEF TrackersGood
<1>2. CASE tcp' = AddTcp(t, k, ttl)
  <2>1. r \in TcpRecord /\ r.age = 0 /\ k \in ConnKeys
    BY IntervalPositive DEF TcpRecord, ConnKeys
  <2>2. CASE k \in DOMAIN t.recs
    BY <1>2, <2>2, TcpClean DEF AddTcp, CleanUp
  <2>3. CASE k \notin DOMAIN t.recs
    <3>1. tcp' = [t EXCEPT !.recs = With(@, k, r)]
      BY <1>2, <2>3 DEF AddTcp
    <3> QED
      BY <3>1, <2>1, TcpClean, WithGood DEF CleanUp
  <2> QED
    BY <2>2, <2>3
<1> QED
  BY <1>1, <1>2 DEF SynAckIn, TcpHandleIncoming

\* A request takes its connection's record out, or cleans up, or does nothing.
LEMMA DataStep ==
  ASSUME TrackersGood, NEW p \in Packets, DataOut(p)
  PROVE  Good(tcp', ConnKeys, TcpRecord)
<1> DEFINE k == TcpKey(p.conn.port, p.conn.id)
           t == TcpCleanup(tcp)
           taken == [t EXCEPT !.recs = Without(@, k)]
<1>1. FakeDecision(p.conn).tcp \in {tcp, t, taken}
  <2> DEFINE h == TcpHandleOutgoing(k)
  <2>1. h.tcp \in {t, taken}
    BY DEF TcpHandleOutgoing
  <2> HIDE DEF h, taken, t
  <2>2. CASE ~Tracked
    BY <2>2 DEF FakeDecision
  <2>3. CASE Tracked /\ h.ttl = None
    BY <2>1, <2>3 DEF FakeDecision, h
  <2>4. CASE Tracked /\ h.ttl # None /\ On("autoTtl")
    BY <2>1, <2>4 DEF FakeDecision, h
  <2>5. CASE Tracked /\ h.ttl # None /\ ~On("autoTtl")
    BY <2>1, <2>5 DEF FakeDecision, h
  <2> QED
    BY <2>2, <2>3, <2>4, <2>5
<1>2. tcp' \in {tcp, t, taken}
  BY <1>1 DEF DataOut
<1>3. Good(t, ConnKeys, TcpRecord) /\ Good(taken, ConnKeys, TcpRecord)
  BY TcpClean, WithoutGood DEF CleanUp
<1> QED
  BY <1>2, <1>3 DEF TrackersGood

\* The end of the process leaves empty tables.
LEMMA EndStep ==
  ASSUME TrackersGood, EndProcess
  PROVE  TrackersGood' /\ Served
BY EmptyGood DEF EndProcess, TrackersGood, Served

\* Time passes for both tables.
LEMMA TickStep ==
  ASSUME TrackersGood, Tick
  PROVE  TrackersGood' /\ Served
<1>1. (\A r \in UdpRecord : "age" \in DOMAIN r) /\ (\A r \in TcpRecord : "age" \in DOMAIN r)
  BY DEF UdpRecord, TcpRecord
<1>2. Good(Older(udp), UdpKeys, UdpRecord) /\ DOMAIN Older(udp).recs = DOMAIN udp.recs
  BY <1>1, OlderGood, RecordsAge DEF TrackersGood
<1>3. Good(Older(tcp), ConnKeys, TcpRecord)
  BY <1>1, OlderGood, RecordsAge DEF TrackersGood
<1>4. ASSUME NEW k \in DOMAIN udp.recs
      PROVE  Older(udp).recs[k].dst = udp.recs[k].dst
  <2>1. udp.recs[k] \in UdpRecord
    BY <1>4 DEF TrackersGood, Good, Tracker
  <2> QED
    BY <2>1, <1>4 DEF Older, UdpRecord
<1> QED
  BY <1>2, <1>3, <1>4 DEF Tick, TrackersGood, Served

\* Every step keeps the tables good, and treats a young query's record as AnswersServed says.
LEMMA StepGood == TrackersGood /\ [Next]_vars => TrackersGood' /\ Served
<1> SUFFICES ASSUME TrackersGood, [Next]_vars PROVE TrackersGood' /\ Served
  OBVIOUS
<1>0. udp' = udp => Good(udp', UdpKeys, UdpRecord) /\ Served
  BY DEF TrackersGood, Served
<1>1. tcp' = tcp => Good(tcp', ConnKeys, TcpRecord)
  BY DEF TrackersGood
<1>2. CASE UNCHANGED <<udp, tcp>>
  BY <1>0, <1>1, <1>2 DEF TrackersGood
<1>3. CASE OpenFilter \/ OpenFails \/ StopControl
  BY <1>2, <1>3 DEF OpenFilter, OpenFails, StopControl, rest
<1>4. CASE Interrupt \/ Exit
  BY <1>4, EndStep DEF Interrupt, Exit
<1>5. ASSUME NEW p \in Packets, DataOut(p) PROVE TrackersGood' /\ Served
  BY <1>5, <1>0, DataStep DEF DataOut, TrackersGood
<1>6. ASSUME NEW c \in Conns, NEW ttl \in Ttls, SynAckIn(c, ttl) PROVE TrackersGood' /\ Served
  BY <1>6, <1>0, SynAckStep DEF SynAckIn, TrackersGood
<1>7. ASSUME NEW d \in Inbound, DataIn(d) PROVE TrackersGood' /\ Served
  BY <1>2, <1>7 DEF DataIn
<1>8. ASSUME NEW v \in {4, 6}, NEW p \in Ports, NEW server \in Servers, QueryOut(v, p, server)
      PROVE  TrackersGood' /\ Served
  BY <1>8, <1>1, QueryStep DEF QueryOut, TrackersGood
<1>9. ASSUME NEW v \in {4, 6}, NEW p \in Ports, AnswerIn(v, p) PROVE TrackersGood' /\ Served
  BY <1>9, <1>1, AnswerStep DEF AnswerIn, TrackersGood
<1>10. ASSUME NEW v \in {4, 6}, NEW long \in BOOLEAN, OtherUdp(v, long) PROVE TrackersGood' /\ Served
  <2>1. udp' = udp \/ udp' = DnsCleanup(udp)
    BY <1>10 DEF OtherUdp
  <2>2. CASE udp' = DnsCleanup(udp)
    BY <2>2, <1>1, <1>10, UdpClean DEF OtherUdp, CleanUp, Served, TrackersGood
  <2> QED
    BY <2>1, <2>2, <1>0, <1>1, <1>10 DEF OtherUdp, TrackersGood
<1>11. CASE Tick
  BY <1>11, TickStep
<1>12. CASE UNCHANGED vars
  BY <1>2, <1>12 DEF vars
<1> QED
  BY <1>3, <1>4, <1>5, <1>6, <1>7, <1>8, <1>9, <1>10, <1>11, <1>12 DEF Next

\* At every moment each record of the trackers of dnsredir.c and ttltrack.c is younger than
\* the time since the last clean-up plus Interval, unless the next packet cleans up.
THEOREM RecordsYoung == Spec => []OldRecordsGone
<1>1. TrackersGood => OldRecordsGone
  BY DEF TrackersGood, Good, Young, OldRecordsGone
<1> QED
  BY <1>1, InitGood, StepGood, PTL DEF Spec

\* No step takes a young query's record from it but the delivery of its answer.
THEOREM YoungQueriesServed == Spec => AnswersServed
<1>1. TrackersGood /\ [Next]_vars => [Served]_vars
  BY StepGood
<1>2. Spec => [][Served]_vars
  BY <1>1, InitGood, StepGood, PTL DEF Spec
<1> QED
  BY <1>2 DEF AnswersServed, Served

-----------------------------------------------------------------------------
\* The key of a connection's record.
Key(c) == TcpKey(c.port, c.id)

\* A record holds the TTL with which its connection's SYN/ACK came.
Distances ==
  /\ path \in [Conns -> Ttls \cup {0}]
  /\ \A c \in Conns : Key(c) \in DOMAIN tcp.recs => tcp.recs[Key(c)].ttl = path[c]

\* What OwnDistance says of one step.
Own ==
  \A c \in {d \in Conns : TcpKey(d.port, d.id) \in DOMAIN tcp.recs} :
       \/ TcpKey(c.port, c.id) \in DOMAIN tcp'.recs
       \/ tcp.recs[TcpKey(c.port, c.id)].age >= Interval \/ proc' = "dead"
       \/ /\ last'.k = "data" /\ last'.pkt.conn = c
          /\ On("autoTtl") /\ last'.pkt.size # "jumbo" /\ cfg.resend # 0
               => FakeTtls(last'.out) = {OwnTtl(c)} \ {0}

\* No two connections share a key.
LEMMA KeyIsConn ==
  \A c, d \in Conns \cup {p.conn : p \in Packets} : Key(c) = Key(d) => c = d
BY ConnsAreEnds DEF Key, TcpKey

\* The TTLs of fakes of a sequence are those of its parts.
LEMMA FakeTtlsCat ==
  ASSUME NEW X, NEW a \in Seq(X), NEW b \in Seq(X)
  PROVE  FakeTtls(a \o b) = FakeTtls(a) \cup FakeTtls(b)
<1> DEFINE Ttl(s, i) == s[i].t = "fake" /\ s[i].how = "ttl"
           ab == a \o b
<1>0. Len(a) \in Nat /\ Len(b) \in Nat /\ Len(ab) = Len(a) + Len(b)
      /\ DOMAIN a = 1 .. Len(a) /\ DOMAIN b = 1 .. Len(b) /\ DOMAIN ab = 1 .. Len(a) + Len(b)
  OBVIOUS
<1>1. /\ \A i \in 1 .. Len(a) : ab[i] = a[i]
      /\ \A i \in 1 .. Len(b) : ab[Len(a) + i] = b[i]
  OBVIOUS
<1> HIDE DEF ab
<1>2. ASSUME NEW x \in FakeTtls(ab) PROVE x \in FakeTtls(a) \cup FakeTtls(b)
  <2>1. PICK i \in DOMAIN ab : Ttl(ab, i) /\ x = ab[i].ttl
    BY <1>2 DEF FakeTtls
  <2>2. CASE i <= Len(a)
    <3>1. i \in DOMAIN a /\ ab[i] = a[i]
      BY <1>0, <1>1, <2>1, <2>2
    <3> QED
      BY <3>1, <2>1 DEF FakeTtls
  <2>3. CASE i > Len(a)
    <3>1. i - Len(a) \in DOMAIN b /\ ab[i] = b[i - Len(a)]
      <4>1. i - Len(a) \in 1 .. Len(b) /\ Len(a) + (i - Len(a)) = i
        BY <1>0, <2>1, <2>3
      <4> QED
        BY <1>0, <1>1, <4>1
    <3> QED
      BY <3>1, <2>1 DEF FakeTtls
  <2> QED
    BY <1>0, <2>1, <2>2, <2>3
<1>3. ASSUME NEW x \in FakeTtls(a) PROVE x \in FakeTtls(ab)
  <2>1. PICK i \in DOMAIN a : Ttl(a, i) /\ x = a[i].ttl
    BY <1>3 DEF FakeTtls
  <2>2. i \in DOMAIN ab /\ ab[i] = a[i]
    BY <1>0, <1>1, <2>1
  <2> QED
    BY <2>1, <2>2 DEF FakeTtls
<1>4. ASSUME NEW x \in FakeTtls(b) PROVE x \in FakeTtls(ab)
  <2>1. PICK i \in DOMAIN b : Ttl(b, i) /\ x = b[i].ttl
    BY <1>4 DEF FakeTtls
  <2>2. Len(a) + i \in DOMAIN ab /\ ab[Len(a) + i] = b[i]
    BY <1>0, <1>1, <2>1
  <2> QED
    BY <2>1, <2>2 DEF FakeTtls
<1> QED
  BY <1>2, <1>3, <1>4 DEF ab

\* A sequence without fakes has none of their TTLs.
LEMMA NoFakeTtls ==
  ASSUME NEW X, \A x \in X : x.t # "fake" \/ x.how # "ttl", NEW s \in Seq(X)
  PROVE  FakeTtls(s) = {}
<1>1. \A i \in DOMAIN s : s[i] \in X
  OBVIOUS
<1> QED
  BY <1>1 DEF FakeTtls

\* What send_native_fragment may send of d.
Pieces(d, size) ==
  {Real(0, d, Len(d)), Real(0, SubSeq(d, 1, size), Len(d) - Len(d) + size),
   Real(size, SubSeq(d, size + 1, Len(d)), Len(d) - size)}

\* The segments of a packet are pieces of its data, no fakes.
LEMMA SegmentsReal ==
  ASSUME NEW p, NEW d
  PROVE  Segments(p, d) \in Seq(Pieces(d, FragmentSize(p)))
<1> DEFINE S == Pieces(d, FragmentSize(p))
<1>1. ASSUME NEW step PROVE NativeFragment(d, FragmentSize(p), step) \in Seq(S)
  <2>1. <<>> \in Seq(S) /\ \A x \in S : <<x>> \in Seq(S)
    OBVIOUS
  <2>2. NativeFragment(d, FragmentSize(p), step) = <<>>
        \/ \E x \in S : NativeFragment(d, FragmentSize(p), step) = <<x>>
    BY DEF NativeFragment, Whole, Pieces
  <2> QED
    BY <2>1, <2>2
<1>2. Whole(d) \in Seq(S)
  BY DEF Whole, Pieces
<1>3. \A a, b \in Seq(S) : a \o b \in Seq(S)
  OBVIOUS
<1> HIDE DEF S
<1> QED
  BY <1>1, <1>2, <1>3 DEF Segments, S

\* What is sent under a condition is a sequence of it or of nothing.
LEMMA IfSeq == ASSUME NEW S, NEW x \in S, NEW b PROVE If(b, x) \in Seq(S)
<1>1. <<>> \in Seq(S) /\ <<x>> \in Seq(S)
  OBVIOUS
<1> QED
  BY <1>1 DEF If

\* Of the fakes of a request, the one with a TTL has the TTL it was given, unless it is 0.
LEMMA OutTtls ==
  ASSUME NEW p, NEW ttl, NEW d, cfg.resend # 0, p.size # "jumbo"
  PROVE  FakeTtls(FakeRequest(p, ttl) \o Segments(p, d)) = {ttl} \ {0}
<1> DEFINE times == (IF cfg.fakes = 0 THEN 1 ELSE cfg.fakes) * cfg.resend
           f1 == Fake("ttl", ttl, times)
           f2 == Fake("chksum", 0, times)
           f3 == Fake("seq", 0, times)
           s1 == If(ttl # 0, f1)
           s2 == If(On("wrongChksum"), f2)
           s3 == If(On("wrongSeq"), f3)
           segs == Segments(p, d)
           Q == Pieces(d, FragmentSize(p))
           X == {f1, f2, f3} \cup Q
<1>1. FakeRequest(p, ttl) = (s1 \o s2) \o s3
  BY DEF FakeRequest
<1>2. f1.t = "fake" /\ f1.how = "ttl" /\ f1.ttl = ttl /\ f2.how # "ttl" /\ f3.how # "ttl"
  BY DEF Fake
<1>3. \A x \in Q : x.t # "fake"
  BY DEF Pieces, Real
<1> HIDE DEF f1, f2, f3, Q
<1>4. s2 \in Seq({f2}) /\ s3 \in Seq({f3}) /\ segs \in Seq(Q)
  <2>1. segs \in Seq(Q)
    BY SegmentsReal DEF Q
  <2>2. s2 \in Seq({f2})
    BY IfSeq
  <2>3. s3 \in Seq({f3})
    BY IfSeq
  <2> QED
    BY <2>1, <2>2, <2>3
<1>5. s1 \in Seq(X) /\ s2 \in Seq(X) /\ s3 \in Seq(X) /\ segs \in Seq(X)
  <2>1. segs \in Seq(X)
    <3>1. Q \subseteq X
      OBVIOUS
    <3> HIDE DEF X, segs
    <3> QED
      BY <1>4, <3>1
  <2>2. f1 \in X /\ f2 \in X /\ f3 \in X
    OBVIOUS
  <2> HIDE DEF X, segs
  <2> QED
    BY <2>1, <2>2, IfSeq
<1>6. FakeTtls(s2) = {} /\ FakeTtls(s3) = {} /\ FakeTtls(segs) = {}
  <2>1. FakeTtls(s2) = {}
    BY <1>2, <1>4, NoFakeTtls
  <2>2. FakeTtls(s3) = {}
    BY <1>2, <1>4, NoFakeTtls
  <2>3. FakeTtls(segs) = {}
    BY <1>3, <1>4, NoFakeTtls
  <2> QED
    BY <2>1, <2>2, <2>3
<1>7. FakeTtls(s1) = {ttl} \ {0}
  <2>1. CASE ttl # 0
    <3>1. s1 = <<f1>>
      BY <2>1 DEF If
    <3>2. DOMAIN <<f1>> = {1} /\ <<f1>>[1] = f1
      OBVIOUS
    <3>3. FakeTtls(<<f1>>) = {ttl}
      BY <1>2, <3>2 DEF FakeTtls
    <3> QED
      BY <2>1, <3>1, <3>3
  <2>2. CASE ttl = 0
    <3>1. s1 = <<>> /\ DOMAIN <<>> = {}
      BY <2>2 DEF If
    <3> QED
      BY <2>2, <3>1 DEF FakeTtls
  <2> QED
    BY <2>1, <2>2
<1> HIDE DEF s1, s2, s3, segs, X
<1> DEFINE a == s1 \o s2
           b == a \o s3
<1>8. a \in Seq(X) /\ FakeTtls(a) = {ttl} \ {0}
  BY <1>5, <1>6, <1>7, FakeTtlsCat
<1>9. FakeRequest(p, ttl) = b
  BY <1>1
<1> HIDE DEF a
<1>10. b \in Seq(X) /\ FakeTtls(b) = {ttl} \ {0}
  BY <1>5, <1>6, <1>8, FakeTtlsCat
<1> HIDE DEF b
<1>11. FakeTtls(b \o segs) = {ttl} \ {0}
  BY <1>5, <1>6, <1>10, FakeTtlsCat
<1> QED
  BY <1>9, <1>11 DEF segs

\* What a request's look-up does: nothing, a clean-up, or it takes the connection's record,
\* whose TTL the fakes get in auto-TTL mode.
LEMMA Decision ==
  ASSUME NEW c
  PROVE  LET t == TcpCleanup(tcp)
             dec == FakeDecision(c)
         IN  \/ dec.tcp \in {tcp, t}
             \/ /\ Key(c) \in DOMAIN t.recs
                /\ dec.tcp = [t EXCEPT !.recs = Without(@, Key(c))]
                /\ On("autoTtl") =>
                     /\ dec.send
                     /\ dec.ttl = AutoTtl(t.recs[Key(c)].ttl, cfg.ttl1, cfg.ttl2, cfg.minHops, cfg.ttlMax)
<1> DEFINE t == TcpCleanup(tcp)
           k == TcpKey(c.port, c.id)
           h == TcpHandleOutgoing(k)
           taken == [t EXCEPT !.recs = Without(@, k)]
<1>0. Key(c) = k
  BY DEF Key
<1>1. \/ h.tcp = t /\ h.ttl = None
      \/ k \in DOMAIN t.recs /\ h.tcp = taken /\ h.ttl # None /\ h.ttl[1] = t.recs[k].ttl
  <2>1. CASE k \in DOMAIN t.recs
    <3>1. h.tcp = taken /\ h.ttl = <<t.recs[k].ttl>>
      BY <2>1 DEF TcpHandleOutgoing, Some
    <3> HIDE DEF h, taken, t, k
    <3> QED
      BY <2>1, <3>1 DEF None
  <2>2. CASE k \notin DOMAIN t.recs
    BY <2>2 DEF TcpHandleOutgoing
  <2> QED
    BY <2>1, <2>2
<1> HIDE DEF taken, t
<1>2. CASE ~Tracked
  BY <1>2 DEF FakeDecision, t
<1>3. CASE Tracked /\ h.ttl = None
  <2>1. FakeDecision(c).tcp = h.tcp
    BY <1>3 DEF FakeDecision, h
  <2> QED
    BY <1>1, <1>3, <2>1 DEF t
<1>4. CASE Tracked /\ h.ttl # None /\ On("autoTtl")
  <2>1. FakeDecision(c) =
          [tcp |-> h.tcp, send |-> TRUE,
           ttl |-> AutoTtl(h.ttl[1], cfg.ttl1, cfg.ttl2, cfg.minHops, cfg.ttlMax)]
    BY <1>4 DEF FakeDecision, h
  <2> HIDE DEF h
  <2> QED
    BY <1>0, <1>1, <1>4, <2>1 DEF t, taken
<1>5. CASE Tracked /\ h.ttl # None /\ ~On("autoTtl")
  <2>1. FakeDecision(c).tcp = h.tcp
    BY <1>5 DEF FakeDecision, h
  <2> HIDE DEF h
  <2> QED
    BY <1>0, <1>1, <1>5, <2>1 DEF t, taken
<1> QED
  BY <1>2, <1>3, <1>4, <1>5

\* Whatever a clean-up leaves keeps the distances, and takes old records only.
LEMMA CleanDistance ==
  ASSUME TrackersGood, Distances, path' = path, tcp' \in {tcp, TcpCleanup(tcp)}
  PROVE  Distances' /\ Own
<1>1. CASE tcp' = tcp
  BY <1>1 DEF Distances, Own, Key
<1>2. CASE tcp' = TcpCleanup(tcp)
  BY <1>2, TcpClean DEF CleanUp, Distances, Own, Key
<1> QED
  BY <1>1, <1>2

\* A request takes no record but its own connection's, and its fakes get that one's TTL.
LEMMA DataDistance ==
  ASSUME TrackersGood, Distances, NEW p \in Packets, DataOut(p)
  PROVE  Distances' /\ Own
<1> DEFINE t == TcpCleanup(tcp)
           dec == FakeDecision(p.conn)
           k == Key(p.conn)
           data == IF HttpTarget(p) THEN Rewrite(p.data) ELSE p.data
           auto == AutoTtl(t.recs[k].ttl, cfg.ttl1, cfg.ttl2, cfg.minHops, cfg.ttlMax)
           fakes == IF On("fake") /\ dec.send THEN FakeRequest(p, dec.ttl) ELSE <<>>
<1>0. path' = path
  BY DEF DataOut
<1>1. CASE tcp' \in {tcp, t}
  BY <1>0, <1>1, CleanDistance
<1>2. CASE tcp' \notin {tcp, t}
  <2>1. /\ On("fake") /\ tcp' = dec.tcp
        /\ last' = [k |-> "data", pkt |-> p, out |-> fakes \o Segments(p, data)]
    BY <1>2 DEF DataOut
  <2>2. /\ k \in DOMAIN t.recs
        /\ tcp' = [t EXCEPT !.recs = Without(@, k)]
        /\ On("autoTtl") => dec.send /\ dec.ttl = auto
    BY <1>2, <2>1, Decision
  <2> HIDE DEF t, k, dec
  <2>3. tcp'.recs = Without(t.recs, k)
    BY <2>2, TcpClean DEF CleanUp, Good, Tracker, t
  <2>4. \A x : x \in DOMAIN tcp'.recs <=> x \in DOMAIN t.recs /\ x # k
    BY <2>3 DEF Without
  <2>5. \A x \in DOMAIN tcp'.recs : tcp'.recs[x] = t.recs[x]
    BY <2>3 DEF Without
  <2>6. /\ DOMAIN t.recs \subseteq DOMAIN tcp.recs
        /\ \A x \in DOMAIN tcp.recs : x \in DOMAIN t.recs \/ tcp.recs[x].age >= Interval
        /\ \A x \in DOMAIN t.recs : t.recs[x] = tcp.recs[x]
    BY TcpClean DEF CleanUp, t
  <2>7. Distances'
    BY <1>0, <2>4, <2>5, <2>6 DEF Distances, Key
  <2>8. last'.k = "data" /\ last'.pkt = p /\ last'.out = fakes \o Segments(p, data)
    BY <2>1
  <2>9. ASSUME NEW c \in Conns, Key(c) \in DOMAIN t.recs, Key(c) = k,
               On("autoTtl"), last'.pkt.size # "jumbo", cfg.resend # 0
        PROVE  FakeTtls(last'.out) = {OwnTtl(c)} \ {0}
    <3>1. t.recs[k].ttl = path[c]
      BY <2>6, <2>9 DEF Distances
    <3>2. dec.ttl = OwnTtl(c)
      BY <2>2, <2>9, <3>1 DEF OwnTtl
    <3>3. fakes = FakeRequest(p, dec.ttl)
      BY <2>1, <2>2, <2>9
    <3>4. FakeTtls(FakeRequest(p, dec.ttl) \o Segments(p, data)) = {dec.ttl} \ {0}
      BY <2>8, <2>9, OutTtls
    <3> QED
      BY <2>8, <3>2, <3>3, <3>4
  <2> HIDE DEF fakes, data
  <2>10. \A c \in Conns : Key(c) = k => p.conn = c
    BY KeyIsConn DEF k
  <2>11. Own
    <3> SUFFICES ASSUME NEW c \in Conns, Key(c) \in DOMAIN tcp.recs,
                        Key(c) \notin DOMAIN tcp'.recs, ~(tcp.recs[Key(c)].age >= Interval)
                 PROVE  /\ last'.k = "data" /\ last'.pkt.conn = c
                        /\ On("autoTtl") /\ last'.pkt.size # "jumbo" /\ cfg.resend # 0
                             => FakeTtls(last'.out) = {OwnTtl(c)} \ {0}
      BY DEF Own, Key
    <3>1. Key(c) \in DOMAIN t.recs /\ Key(c) = k
      BY <2>4, <2>6
    <3> QED
      BY <3>1, <2>8, <2>9, <2>10
  <2> QED
    BY <2>7, <2>11
<1> QED
  BY <1>1, <1>2

\* A SYN/ACK records the TTL of its own connection and touches no other one.
LEMMA SynAckDistance ==
  ASSUME TrackersGood, Distances, NEW c \in Conns, NEW ttl \in Ttls, SynAckIn(c, ttl)
  PROVE  Distances' /\ Own
<1> DEFINE t == TcpCleanup(tcp)
           r == [ttl |-> ttl, age |-> 0]
<1>1. Key(c) \in DOMAIN tcp.recs => tcp.recs[Key(c)].ttl = ttl
  BY DEF SynAckIn, Key
<1>2. path' \in {path, [path EXCEPT ![c] = ttl]}
  BY DEF SynAckIn
<1>3. path' \in [Conns -> Ttls \cup {0}]
  BY <1>2 DEF Distances
<1>4. \A d \in Conns : Key(d) \in DOMAIN tcp.recs => tcp.recs[Key(d)].ttl = path'[d]
  BY <1>1, <1>2 DEF Distances
<1>5. CASE tcp' = tcp
  BY <1>3, <1>4, <1>5 DEF Distances, Own, Key
<1>6. CASE tcp' = AddTcp(t, Key(c), ttl) /\ path' = [path EXCEPT ![c] = ttl]
  <2> HIDE DEF t
  <2>1. /\ DOMAIN t.recs \subseteq DOMAIN tcp.recs
        /\ \A x \in DOMAIN tcp.recs : x \in DOMAIN t.recs \/ tcp.recs[x].age >= Interval
        /\ \A x \in DOMAIN t.recs : t.recs[x] = tcp.recs[x]
    BY TcpClean DEF CleanUp, t
  <2>2. CASE Key(c) \in DOMAIN t.recs
    <3>1. tcp' = t
      BY <1>6, <2>2 DEF AddTcp
    <3> QED
      BY <1>3, <1>4, <2>1, <3>1 DEF Distances, Own, Key
  <2>3. CASE Key(c) \notin DOMAIN t.recs
    <3>1. tcp' = [t EXCEPT !.recs = With(@, Key(c), r)]
      BY <1>6, <2>3 DEF AddTcp
    <3>2. tcp'.recs = With(t.recs, Key(c), r)
      BY <3>1, TcpClean DEF CleanUp, Good, Tracker, t
    <3>3. \A x \in DOMAIN t.recs : x \in DOMAIN tcp'.recs
      BY <3>2 DEF With
    <3>4. \A x \in DOMAIN tcp'.recs : tcp'.recs[x] = IF x = Key(c) THEN r ELSE t.recs[x]
      BY <3>2 DEF With
    <3>5. \A x \in DOMAIN tcp'.recs : x = Key(c) \/ x \in DOMAIN t.recs
      BY <3>2 DEF With
    <3>6. ASSUME NEW d \in Conns, Key(d) \in DOMAIN tcp'.recs
          PROVE  tcp'.recs[Key(d)].ttl = path'[d]
      <4>1. CASE Key(d) = Key(c)
        <5>1. d = c
          BY <4>1, KeyIsConn
        <5> QED
          BY <1>6, <3>4, <3>6, <5>1 DEF Distances
      <4>2. CASE Key(d) # Key(c)
        BY <1>4, <2>1, <3>4, <3>5, <3>6, <4>2
      <4> QED
        BY <4>1, <4>2
    <3> QED
      BY <1>3, <2>1, <3>3, <3>6 DEF Distances, Own, Key
  <2> QED
    BY <2>2, <2>3
<1> QED
  BY <1>5, <1>6 DEF SynAckIn, TcpHandleIncoming, Key

\* Every step keeps the distances, and treats a young record as OwnDistance says.
LEMMA StepDistance == TrackersGood /\ Distances /\ [Next]_vars => Distances' /\ Own
<1> SUFFICES ASSUME TrackersGood, Distances, [Next]_vars PROVE Distances' /\ Own
  OBVIOUS
<1>1. CASE UNCHANGED <<tcp, path>>
  BY <1>1, CleanDistance
<1>2. CASE EndProcess
  <2>1. tcp'.recs = [k \in {} |-> k] /\ path' = [c \in Conns |-> 0] /\ proc' = "dead"
    BY <1>2 DEF EndProcess, NoRecords
  <2> QED
    BY <2>1 DEF Distances, Own, Key
<1>3. CASE Tick
  <2>1. tcp' = Older(tcp) /\ path' = path
    BY <1>3 DEF Tick
  <2>2. DOMAIN tcp'.recs = DOMAIN tcp.recs
    BY <2>1 DEF Older
  <2>3. \A k \in DOMAIN tcp.recs : tcp.recs[k] \in TcpRecord
    BY DEF TrackersGood, Good, Tracker
  <2>4. \A k \in DOMAIN tcp.recs : tcp'.recs[k].ttl = tcp.recs[k].ttl
    BY <2>1, <2>3 DEF Older, TcpRecord
  <2> QED
    BY <2>1, <2>2, <2>4 DEF Distances, Own, Key
<1>4. ASSUME NEW p \in Packets, DataOut(p) PROVE Distances' /\ Own
  BY <1>4, DataDistance
<1>5. ASSUME NEW c \in Conns, NEW ttl \in Ttls, SynAckIn(c, ttl) PROVE Distances' /\ Own
  BY <1>5, SynAckDistance
<1>6. \/ UNCHANGED <<tcp, path>> \/ EndProcess \/ Tick
      \/ \E p \in Packets : DataOut(p)
      \/ \E c \in Conns, ttl \in Ttls : SynAckIn(c, ttl)
  <2>1. CASE OpenFilter \/ OpenFails \/ StopControl
    BY <2>1 DEF OpenFilter, OpenFails, StopControl, rest
  <2>2. CASE UNCHANGED vars
    BY <2>2 DEF vars
  <2>3. CASE Interrupt \/ Exit
    BY <2>3 DEF Interrupt, Exit
  <2>4. CASE \/ \E d \in Inbound : DataIn(d)
             \/ \E v \in {4, 6}, p \in Ports, server \in Servers : QueryOut(v, p, server)
             \/ \E v \in {4, 6}, p \in Ports : AnswerIn(v, p)
             \/ \E v \in {4, 6}, long \in BOOLEAN : OtherUdp(v, long)
    BY <2>4 DEF DataIn, QueryOut, AnswerIn, OtherUdp
  <2> QED
    BY <2>1, <2>2, <2>3, <2>4 DEF Next
<1> QED
  BY <1>1, <1>2, <1>3, <1>4, <1>5, <1>6

\* In auto-TTL mode the fakes of a request carry the TTL computed from their own connection's
\* SYN/ACK, and a young record leaves the tracker of ttltrack.c for nothing else.
THEOREM FakesKeepTheirDistance == Spec => OwnDistance
<1>1. Init => Distances
  BY DEF Init, Distances, NoRecords
<1>2. TrackersGood /\ Distances /\ [Next]_vars => [Own]_vars
  BY StepDistance
<1>3. Spec => [][Own]_vars
  BY <1>1, <1>2, InitGood, StepGood, StepDistance, PTL DEF Spec
<1> QED
  BY <1>3, PTL DEF OwnDistance, Own

-----------------------------------------------------------------------------
\* The diverting filter is the last one to be opened.
LEMMA MainIsLast ==
  /\ Len(Wanted) \in Nat \ {0}
  /\ \A i \in 1 .. Len(Wanted) : Wanted[i] = "main" => i = Len(Wanted)
BY DEF Wanted

\* While the filters are being opened, some remain to be, and the diverting one is not open.
Opening ==
  /\ proc = "opening" => tried \in 0 .. Len(Wanted) - 1
  /\ "main" \in open => proc = "running"

\* Diverted packets always have a loop that takes them, whatever fails during start or stop.
THEOREM DivertedServed == Spec => []DivertedAreServed
<1>1. Init => Opening
  BY MainIsLast DEF Init, Opening
<1>2. ASSUME Opening, [Next]_vars PROVE Opening'
  <2>0. ASSUME UNCHANGED <<cfg, proc, tried, open>> PROVE Opening'
    BY <1>2, <2>0 DEF Opening, Wanted, On
  <2>1. CASE OpenFilter
    <3>1. Wanted' = Wanted
      BY <2>1 DEF OpenFilter, rest, Wanted, On
    <3>2. Wanted[tried + 1] = "main" => proc' = "running"
      BY <1>2, <2>1, MainIsLast DEF OpenFilter, Opening
    <3> QED
      BY <1>2, <2>1, <3>1, <3>2, MainIsLast DEF OpenFilter, Opening
  <2>2. CASE OpenFails \/ StopControl
    BY <1>2, <2>2 DEF OpenFails, StopControl, Opening, rest, Wanted, On
  <2>3. CASE Interrupt \/ Exit
    BY <2>3 DEF Interrupt, Exit, EndProcess, Opening
  <2>4. CASE UNCHANGED worker
    BY <2>0, <2>4 DEF worker
  <2> QED
    BY <1>2, <2>1, <2>2, <2>3, <2>4
       DEF Next, vars, DataOut, SynAckIn, DataIn, QueryOut, AnswerIn, OtherUdp, Tick
<1>3. Opening => DivertedAreServed
  BY DEF Opening, DivertedAreServed
<1> QED
  BY <1>1, <1>2, <1>3, PTL DEF Spec

-----------------------------------------------------------------------------
(* The packet stream: the segments of a request cover it. *)

\* A sequence of packets none of which is a segment.
Fakes(f) == \E F : f \in Seq(F) /\ \A x \in F : x.t # "real"

\* The packets out are m that are no segments, then those of s.
Sent(out, m, s) ==
  /\ DOMAIN out = 1 .. m + Len(s) /\ m \in Nat /\ Len(s) \in Nat
  /\ \A k \in 1 .. m : out[k].t # "real"
  /\ \A k \in 1 .. Len(s) : out[m + k] = s[k]

\* What is sent after the fakes.
LEMMA SentAfter ==
  ASSUME NEW f, Fakes(f), NEW S, NEW s \in Seq(S)
  PROVE  Sent(f \o s, Len(f), s)
<1>0. PICK F : f \in Seq(F) /\ \A x \in F : x.t # "real"
  BY DEF Fakes
<1>1. /\ f \in Seq(F \cup S) /\ s \in Seq(F \cup S)
  BY <1>0
<1>2. /\ DOMAIN (f \o s) = 1 .. Len(f) + Len(s) /\ Len(f) \in Nat /\ Len(s) \in Nat
      /\ \A k \in 1 .. Len(f) : (f \o s)[k] = f[k] /\ f[k] \in F
      /\ \A k \in 1 .. Len(s) : (f \o s)[Len(f) + k] = s[k]
  BY <1>0, <1>1
<1> QED
  BY <1>0, <1>2 DEF Sent

\* The fakes of a request are fakes.
LEMMA FakesFake ==
  ASSUME NEW p, NEW ttl
  PROVE  Fakes(FakeRequest(p, ttl))
<1> DEFINE times == (IF cfg.fakes = 0 THEN 1 ELSE cfg.fakes) * cfg.resend
           f1 == Fake("ttl", ttl, times)
           f2 == Fake("chksum", 0, times)
           f3 == Fake("seq", 0, times)
           F == {f1, f2, f3}
<1>1. \A x \in F : x.t # "real"
  BY DEF Fake
<1>2. If(ttl # 0, f1) \in Seq(F) /\ If(On("wrongChksum"), f2) \in Seq(F) /\ If(On("wrongSeq"), f3) \in Seq(F)
  <2>1. f1 \in F /\ f2 \in F /\ f3 \in F
    OBVIOUS
  <2> HIDE DEF F, f1, f2, f3
  <2> QED
    BY <2>1, IfSeq
<1>3. \A a, b \in Seq(F) : a \o b \in Seq(F)
  OBVIOUS
<1>4. <<>> \in Seq(F)
  OBVIOUS
<1>5. FakeRequest(p, ttl) \in Seq(F)
  <2> DEFINE s1 == If(ttl # 0, f1) s2 == If(On("wrongChksum"), f2) s3 == If(On("wrongSeq"), f3)
  <2>1. FakeRequest(p, ttl) = <<>> \/ FakeRequest(p, ttl) = (s1 \o s2) \o s3
    BY Zenon DEF FakeRequest
  <2> HIDE DEF F, s1, s2, s3
  <2>2. (s1 \o s2) \o s3 \in Seq(F)
    BY <1>2, <1>3 DEF s1, s2, s3
  <2> QED
    BY <1>4, <2>1, <2>2
<1> HIDE DEF F
<1> QED
  BY <1>1, <1>5 DEF Fakes

\* The size a packet is cut at is a number.
LEMMA SizeNatural ==
  ASSUME NEW p \in Packets, Sized(cfg) PROVE FragmentSize(p) \in Nat
BY PacketsAreStreams DEF FragmentSize, Sized

\* The two parts of r.
HeadPart(r, z) == Real(0, SubSeq(r, 1, z), Len(r) - Len(r) + z)
RestPart(r, z) == Real(z, SubSeq(r, z + 1, Len(r)), Len(r) - z)

\* What send_native_fragment's two calls send is the packet whole, or its two parts in one
\* order or the other.
LEMMA SegmentsCut ==
  ASSUME NEW p, NEW r \in Seq(Bytes), FragmentSize(p) \in Nat
  PROVE  \/ Segments(p, r) = Whole(r)
         \/ /\ FragmentSize(p) \in 1 .. Len(r) - 1
            /\ \/ Segments(p, r) = <<HeadPart(r, FragmentSize(p))>> \o <<RestPart(r, FragmentSize(p))>>
               \/ Segments(p, r) = <<RestPart(r, FragmentSize(p))>> \o <<HeadPart(r, FragmentSize(p))>>
<1> DEFINE z == FragmentSize(p)
           a == HeadPart(r, z)
           b == RestPart(r, z)
           w == Whole(r)
           NF(step) == NativeFragment(r, z, step)
<1>0. Len(r) \in Nat
  OBVIOUS
<1>1. \/ Segments(p, r) = w
      \/ z # 0 /\ (Segments(p, r) = NF(1) \o NF(0) \/ Segments(p, r) = NF(0) \o NF(1))
  <2>1. 1 - 0 = 1 /\ 1 - 1 = 0
    OBVIOUS
  <2> QED
    BY <2>1, Zenon DEF Segments
<1>2. CASE z >= Len(r)
  <2>1. NF(1) = w /\ NF(0) = <<>>
    BY <1>2 DEF NativeFragment
  <2>2. w \o <<>> = w /\ <<>> \o w = w
    BY DEF Whole
  <2> HIDE DEF z, w, NF
  <2> QED
    BY <1>1, <2>1, <2>2 DEF w
<1>3. CASE ~ (z >= Len(r))
  <2>1. NF(1) = <<b>> /\ NF(0) = <<a>>
    <3>1. 1 # 0
      OBVIOUS
    <3> QED
      BY <1>3, <3>1, Zenon DEF NativeFragment, HeadPart, RestPart
  <2>2. z # 0 => z \in 1 .. Len(r) - 1
    BY <1>0, <1>3
  <2> HIDE DEF NF, a, b, z
  <2>3. \/ Segments(p, r) = w
        \/ z \in 1 .. Len(r) - 1 /\ (Segments(p, r) = <<a>> \o <<b>> \/ Segments(p, r) = <<b>> \o <<a>>)
    BY <1>1, <2>1, <2>2
  <2> QED
    BY <2>3 DEF a, b, z
<1> QED
  BY <1>2, <1>3

\* Packets that end with the one segment that is all of r cover r.
LEMMA OneCovers ==
  ASSUME NEW r, NEW out, NEW m, NEW w, Sent(out, m, <<w>>), Piece(w, r, 0, Len(r)), Len(r) \in Nat
  PROVE  Cover(out, r, m + 1, m + 1, Len(r))
<1>1. Len(<<w>>) = 1 /\ <<w>>[1] = w
  OBVIOUS
<1>2. DOMAIN out = 1 .. m + 1 /\ m \in Nat /\ out[m + 1] = w /\ \A k \in 1 .. m : out[k].t # "real"
  BY <1>1 DEF Sent
<1> QED
  BY <1>2 DEF Cover

\* What two packets sent last are.
LEMMA TwoSent ==
  ASSUME NEW out, NEW m, NEW c, NEW e, Sent(out, m, <<c>> \o <<e>>)
  PROVE  /\ DOMAIN out = 1 .. m + 2 /\ m \in Nat /\ out[m + 1] = c /\ out[m + 2] = e
         /\ \A k \in 1 .. m : out[k].t # "real"
<1>1. Len(<<c>> \o <<e>>) = 2 /\ (<<c>> \o <<e>>)[1] = c /\ (<<c>> \o <<e>>)[2] = e
  OBVIOUS
<1> DEFINE s == <<c>> \o <<e>>
<1> HIDE DEF s
<1>2. Sent(out, m, s) /\ Len(s) = 2 /\ s[1] = c /\ s[2] = e
  BY <1>1 DEF s
<1> QED
  BY <1>2 DEF Sent

\* Packets that end with the two parts of r cover r, in one order or the other.
LEMMA TwoCover ==
  ASSUME NEW r, NEW out, NEW m, NEW c, NEW e, NEW z \in 1 .. Len(r) - 1, Len(r) \in Nat,
         Piece(c, r, 0, z), Piece(e, r, z, Len(r))
  PROVE  /\ Sent(out, m, <<c>> \o <<e>>) => Cover(out, r, m + 1, m + 2, z)
         /\ Sent(out, m, <<e>> \o <<c>>) => Cover(out, r, m + 2, m + 1, z)
<1>1. ASSUME Sent(out, m, <<c>> \o <<e>>) PROVE Cover(out, r, m + 1, m + 2, z)
  <2>1. /\ DOMAIN out = 1 .. m + 2 /\ m \in Nat /\ out[m + 1] = c /\ out[m + 2] = e
        /\ \A k \in 1 .. m : out[k].t # "real"
    BY <1>1, TwoSent
  <2> QED
    BY <2>1 DEF Cover
<1>2. ASSUME Sent(out, m, <<e>> \o <<c>>) PROVE Cover(out, r, m + 2, m + 1, z)
  <2>1. /\ DOMAIN out = 1 .. m + 2 /\ m \in Nat /\ out[m + 1] = e /\ out[m + 2] = c
        /\ \A k \in 1 .. m : out[k].t # "real"
    BY <1>2, TwoSent
  <2> QED
    BY <2>1 DEF Cover
<1> QED
  BY <1>1, <1>2

\* The whole stream is its part from the first byte to the last.
LEMMA AllOfIt == ASSUME NEW r \in Seq(Bytes) PROVE r = SubSeq(r, 1, Len(r)) /\ Len(r) \in Nat
OBVIOUS

\* The two parts are pieces.
LEMMA PartsArePieces ==
  ASSUME NEW r \in Seq(Bytes), NEW z \in Nat
  PROVE  Piece(HeadPart(r, z), r, 0, z) /\ Piece(RestPart(r, z), r, z, Len(r))
<1>1. Len(r) - Len(r) + z = z - 0 /\ 0 + 1 = 1
  OBVIOUS
<1>2. Piece(HeadPart(r, z), r, 0, z)
  BY <1>1 DEF Piece, Real, HeadPart
<1>3. Piece(RestPart(r, z), r, z, Len(r))
  BY DEF Piece, Real, RestPart
<1> QED
  BY <1>2, <1>3

\* One packet or two are a sequence.
LEMMA ShortLists ==
  ASSUME NEW S, NEW x \in S, NEW y \in S PROVE <<x>> \in Seq(S) /\ <<x>> \o <<y>> \in Seq(S)
OBVIOUS

\* Fakes followed by the segments of r cover r.
LEMMA SegmentsCover ==
  ASSUME NEW p, NEW r \in Seq(Bytes), FragmentSize(p) \in Nat, NEW f, Fakes(f)
  PROVE  \E i, j, z : Cover(f \o Segments(p, r), r, i, j, z)
<1> DEFINE n == Len(r) z == FragmentSize(p) m == Len(f)
           a == HeadPart(r, z)
           b == RestPart(r, z)
           w == Real(0, r, Len(r))
           segs == Segments(p, r)
<1>0. n \in Nat /\ z \in Nat /\ r = SubSeq(r, 1, n)
  BY AllOfIt
<1>1. Piece(w, r, 0, n)
  BY <1>0 DEF Piece, Real
<1>2. Piece(a, r, 0, z) /\ Piece(b, r, z, n)
  BY <1>0, PartsArePieces
<1>3. \/ segs = <<w>>
      \/ z \in 1 .. n - 1 /\ (segs = <<a>> \o <<b>> \/ segs = <<b>> \o <<a>>)
  <2>1. Whole(r) = <<w>>
    BY DEF Whole
  <2> QED
    BY <1>0, <2>1, SegmentsCut
<1> HIDE DEF a, b, w, segs, z
<1>4. segs \in Seq({a, b, w})
  <2>1. a \in {a, b, w} /\ b \in {a, b, w} /\ w \in {a, b, w}
    OBVIOUS
  <2> QED
    BY <1>3, <2>1, ShortLists, Zenon
<1>5. Sent(f \o segs, m, segs)
  BY <1>4, SentAfter
<1>6. CASE segs = <<w>>
  <2>1. Cover(f \o segs, r, m + 1, m + 1, n)
    BY <1>0, <1>1, <1>5, <1>6, OneCovers
  <2> QED
    BY <2>1 DEF segs
<1>7. CASE z \in 1 .. n - 1 /\ segs = <<a>> \o <<b>>
  <2>1. Cover(f \o segs, r, m + 1, m + 2, z)
    BY <1>0, <1>2, <1>5, <1>7, TwoCover
  <2> QED
    BY <2>1 DEF segs
<1>8. CASE z \in 1 .. n - 1 /\ segs = <<b>> \o <<a>>
  <2>1. Cover(f \o segs, r, m + 2, m + 1, z)
    BY <1>0, <1>2, <1>5, <1>8, TwoCover
  <2> QED
    BY <2>1 DEF segs
<1> QED
  BY <1>3, <1>6, <1>7, <1>8

\* Fakes and the segments of a retold request deliver it.
LEMMA SegmentsDeliver ==
  ASSUME NEW p \in Packets, Sized(cfg), NEW r, Retold(p.data, r), p.data \in Seq(Bytes), NEW f, Fakes(f)
  PROVE  Delivered(p.data, f \o Segments(p, r))
<1>1. FragmentSize(p) \in Nat /\ r \in Seq(Bytes)
  BY SizeNatural DEF Retold
<1>2. PICK i, j, z : Cover(f \o Segments(p, r), r, i, j, z)
  BY <1>1, SegmentsCover
<1> QED
  BY <1>2, Delivers

\* A packet passed on as it came is delivered.
LEMMA WholeDelivers == ASSUME NEW d \in Seq(Bytes) PROVE Delivered(d, Whole(d))
<1> DEFINE w == Real(0, d, Len(d))
<1>1. Whole(d) = <<w>> /\ DOMAIN <<w>> = {1} /\ <<w>>[1] = w
  BY DEF Whole
<1>2. d = SubSeq(d, 1, Len(d)) /\ Len(d) \in Nat
  BY AllOfIt
<1>3. Piece(w, d, 0, Len(d))
  BY <1>2 DEF Piece, Real
<1> HIDE DEF w
<1>4. Cover(Whole(d), d, 1, 1, Len(d))
  BY <1>1, <1>2, <1>3 DEF Cover
<1>5. Retold(d, d)
  <2>1. Spelled(d, d)
    BY DEF Spelled
  <2> QED
    BY <2>1, SpelledRetold
<1> QED
  BY <1>4, <1>5, Delivers

\* The packets that leave for a request deliver it.
LEMMA DataDelivered ==
  ASSUME NEW p \in Packets, Sized(cfg), DataOut(p)
  PROVE  last'.k = "data" /\ last'.pkt = p /\ Delivered(p.data, last'.out)
<1> DEFINE dec == FakeDecision(p.conn)
           fakes == IF On("fake") /\ dec.send THEN FakeRequest(p, dec.ttl) ELSE <<>>
           data == IF HttpTarget(p) THEN Rewrite(p.data) ELSE p.data
<1>0. p.data \in Seq(Bytes)
  <2>1. p.data \in Seq(STRING)
    BY PacketsAreStreams
  <2> QED
    BY <2>1 DEF Bytes
<1>1. \/ last' = [k |-> "data", pkt |-> p, out |-> fakes \o Segments(p, data)]
      \/ last' = [k |-> "data", pkt |-> p, out |-> Whole(p.data)]
  BY Zenon DEF DataOut
<1>2. Delivered(p.data, Whole(p.data))
  BY <1>0, WholeDelivers
<1>3. Retold(p.data, data)
  <2>1. CASE HttpTarget(p)
    <3>1. MethodEnd(p.data) # 0 /\ ValueAt(p.data, "Host:") # 0
      BY <2>1, Zenon DEF HttpTarget
    <3> QED
      BY <1>0, <2>1, <3>1, RewriteRetold
  <2>2. CASE ~HttpTarget(p)
    <3>1. Spelled(p.data, p.data)
      BY <1>0 DEF Spelled
    <3> QED
      BY <2>2, <3>1, SpelledRetold
  <2> QED
    BY <2>1, <2>2
<1>4. Fakes(fakes)
  <2>1. Fakes(<<>>)
    <3>1. PICK e, F : e = <<>> /\ F = {}
      OBVIOUS
    <3>2. e \in Seq(F) /\ \A x \in F : x.t # "real"
      BY <3>1
    <3>3. Fakes(e)
      BY <3>2, Zenon DEF Fakes
    <3> QED
      BY <3>1, <3>3
  <2>2. Fakes(FakeRequest(p, dec.ttl))
    BY FakesFake
  <2> QED
    BY <2>1, <2>2, Zenon
<1> HIDE DEF fakes, data
<1>5. Delivered(p.data, fakes \o Segments(p, data))
  BY <1>0, <1>3, <1>4, SegmentsDeliver
<1> DEFINE o == fakes \o Segments(p, data) w == Whole(p.data)
<1> HIDE DEF o, w
<1>6. /\ last' = [k |-> "data", pkt |-> p, out |-> o] \/ last' = [k |-> "data", pkt |-> p, out |-> w]
      /\ Delivered(p.data, o) /\ Delivered(p.data, w)
  BY <1>1, <1>2, <1>5 DEF o, w
<1>7. last'.k = "data" /\ last'.pkt = p /\ (last'.out = o \/ last'.out = w)
  BY <1>6
<1> QED
  BY <1>6, <1>7

\* StreamPreserved speaks of the last packet only.
LEMMA StreamIsDelivery == StreamPreserved <=> (last.k = "data" => Delivered(last.pkt.data, last.out))
BY Zenon DEF StreamPreserved, Delivered, Reals, Carriers, ByteOf

\* And so it does after a step.
LEMMA StreamIsDeliveryNext ==
  StreamPreserved' <=> (last'.k = "data" => Delivered(last'.pkt.data, last'.out))
BY Zenon DEF StreamPreserved, Delivered, Reals, Carriers, ByteOf

\* The invariant of the packet stream.
StreamInv == Sized(cfg) /\ StreamPreserved

\* A step that leaves the configuration, and whose last packet is no data packet.
LEMMA OtherPacket ==
  ASSUME StreamInv, cfg' = cfg, last' = last \/ last'.k # "data" PROVE StreamInv'
<1>1. Sized(cfg)'
  BY DEF StreamInv, Sized
<1>2. CASE last' = last
  BY <1>1, <1>2, StreamIsDelivery, StreamIsDeliveryNext DEF StreamInv
<1>3. CASE last'.k # "data"
  BY <1>1, <1>3, StreamIsDeliveryNext DEF StreamInv
<1> QED
  BY <1>2, <1>3

\* The worker starts with sizes that are numbers, and no packet sent.
LEMMA StreamInit == Init => StreamInv
<1> SUFFICES ASSUME Init PROVE StreamInv
  OBVIOUS
<1>1. profile \in Profiles /\ cfg = Started(profile) /\ last = NoPacket
  BY DEF Init
<1>2. Sized(cfg)
  BY <1>1, StartedSized
<1>3. last.k # "data"
  BY <1>1 DEF NoPacket
<1> QED
  BY <1>2, <1>3, StreamIsDelivery DEF StreamInv

\* Every step of the worker keeps the stream.
LEMMA StreamStep == StreamInv /\ [Next]_vars => StreamInv'
<1> SUFFICES ASSUME StreamInv, [Next]_vars PROVE StreamInv'
  OBVIOUS
<1>0. NoPacket.k # "data"
  BY DEF NoPacket
<1>3. CASE OpenFilter \/ OpenFails \/ StopControl
  <2>1. cfg' = cfg /\ last' = last
    BY <1>3 DEF OpenFilter, OpenFails, StopControl, rest
  <2> QED
    BY <2>1, OtherPacket
<1>4. CASE Interrupt \/ Exit
  <2>1. cfg' = cfg /\ last' = NoPacket
    BY <1>4 DEF Interrupt, Exit, EndProcess
  <2> QED
    BY <1>0, <2>1, OtherPacket
<1>5. ASSUME NEW p \in Packets, DataOut(p) PROVE StreamInv'
  <2>1. cfg' = cfg /\ Sized(cfg)
    BY <1>5 DEF DataOut, worker, StreamInv
  <2>2. last'.k = "data" /\ last'.pkt = p /\ Delivered(p.data, last'.out)
    BY <1>5, <2>1, DataDelivered
  <2>3. StreamPreserved'
    BY <2>2, StreamIsDeliveryNext
  <2> QED
    BY <2>1, <2>3 DEF StreamInv, Sized
<1>6. ASSUME NEW c \in Conns, NEW ttl \in Ttls, SynAckIn(c, ttl) PROVE StreamInv'
  <2>1. cfg' = cfg /\ (last' = last \/ last'.k # "data")
    BY <1>6 DEF SynAckIn, worker
  <2> QED
    BY <2>1, OtherPacket
<1>7. ASSUME NEW d \in Inbound, DataIn(d) PROVE StreamInv'
  <2>1. cfg' = cfg /\ (last' = last \/ last'.k # "data")
    BY <1>7 DEF DataIn, worker
  <2> QED
    BY <2>1, OtherPacket
<1>8. ASSUME NEW v \in {4, 6}, NEW p \in Ports, NEW server \in Servers, QueryOut(v, p, server)
      PROVE  StreamInv'
  <2>1. cfg' = cfg /\ (last' = last \/ last'.k # "data")
    BY <1>8 DEF QueryOut, worker
  <2> QED
    BY <2>1, OtherPacket
<1>9. ASSUME NEW v \in {4, 6}, NEW p \in Ports, AnswerIn(v, p) PROVE StreamInv'
  <2>1. cfg' = cfg /\ (last' = last \/ last'.k # "data")
    BY <1>9 DEF AnswerIn, worker
  <2> QED
    BY <2>1, OtherPacket
<1>10. ASSUME NEW v \in {4, 6}, NEW long \in BOOLEAN, OtherUdp(v, long) PROVE StreamInv'
  <2>1. cfg' = cfg /\ (last' = last \/ last'.k # "data")
    BY <1>10 DEF OtherUdp, worker
  <2> QED
    BY <2>1, OtherPacket
<1>11. CASE Tick
  <2>1. cfg' = cfg /\ last' = NoPacket
    BY <1>11 DEF Tick, worker
  <2> QED
    BY <1>0, <2>1, OtherPacket
<1>12. CASE UNCHANGED vars
  BY <1>12, OtherPacket DEF vars, worker
<1> QED
  BY <1>3, <1>4, <1>5, <1>6, <1>7, <1>8, <1>9, <1>10, <1>11, <1>12 DEF Next

\* For every profile, configuration and packet, what leaves for a data packet is that data.
THEOREM StreamKept == Spec => []StreamPreserved
<1>1. StreamInv => StreamPreserved
  BY DEF StreamInv
<1> QED
  BY <1>1, StreamInit, StreamStep, PTL DEF Spec
=============================================================================
