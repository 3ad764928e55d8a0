------------------------------- MODULE Tunnel -------------------------------
(***************************************************************************)
(* The connections of the ByeDPI worker (extend.c, the tunnel half of      *)
(* proxy.c, desync.c): a client is paired with a connection to its         *)
(* destination, its request is cut up on the way as the group chosen for   *)
(* it says, and when the destination seems blocked the request is replayed *)
(* on a new connection with the next group.                                *)
(*                                                                         *)
(*   p     the parameters of this run of the worker (ParseArgs)            *)
(*   s     the groups and the cache (DesyncGroups)                         *)
(*   disk  the cache files (-y)                                            *)
(*   conn  the connections; the fields follow struct eval:                 *)
(*         st      idle, delayed, connecting, open or closed               *)
(*         hs      steps done of the handshake with an outgoing proxy      *)
(*         dp mask detect   the group, the groups ruled out, the trigger   *)
(*         recv rrecv       what the client and the destination have sent  *)
(*         round rround roundSent rroundSent partSent mark                 *)
(*         sq      length of the stored first request (sq_buff), or None   *)
(*         buf     the request bytes still to send [data, off], or None    *)
(*         rbuf    whether an answer waits for the client to read          *)
(*         cm rm   the poll masks of the client and the remote side        *)
(*         timer toCount    the timer of the remote side                   *)
(*         low     whether its TTL is lowered (restore_ttl)                *)
(*         and, for the properties: got, what the current destination      *)
(*         socket was given; heard, which sockets' answers the client got; *)
(*         inst, the number of the socket; failed, the groups given up;    *)
(*         why, the reason of a close; upset, the events it met that the   *)
(*         worker does not provide for:                                    *)
(*           part    a part of the request was refused by the socket, or   *)
(*                   no file for a fake was free: the part is not repeated *)
(*           pause   the socket was full at the end of a pause: nobody     *)
(*                   polls it                                              *)
(*           replay  a replay without group or slot, or cut short by the   *)
(*                   length of what was being sent                         *)
(*           reads   a request that is cut up came in two reads            *)
(*           banner  the destination spoke first                           *)
(*           early   an answer came while part of the request was held    *)
(*                                                                         *)
(* The bytes of a client are numbered 1, 2, ...; 0 is the record header    *)
(* that -r puts between two of them, -1 the urgent byte of -o and -q that  *)
(* the destination does not find in its stream.  Slots and poll rounds are *)
(* ConnPool's; the free list of buffers is left out.                       *)
(*                                                                         *)
(* Assumed of the network: a new socket takes a request whole, and a       *)
(* request that is cut up is one TLS record.                               *)
(***************************************************************************)
EXTENDS DesyncGroups

CONSTANTS Scenarios,  \* [args, target (per connection: dst, req), bytes, answers, restarts, faults]
          MaxAge      \* ages of cache entries are told apart up to this

\* A command line is a sequence of options.
ASSUME ArgsAreSequences ==
  \A x \in Scenarios : Len(x.args) \in Nat /\ DOMAIN x.args = 1..Len(x.args)

\* A scenario says where its connections go.
ASSUME TargetsAreGiven == \A x \in Scenarios : "target" \in DOMAIN x

VARIABLES sc, p, s, disk, conn
vars == <<sc, p, s, disk, conn>>

Conns == DOMAIN conn
ConnIds == UNION {DOMAIN x.target : x \in Scenarios}
Addrs == {sc.target[i].dst : i \in DOMAIN sc.target}

NewConn ==
  [st |-> "idle", hs |-> 0, dp |-> None, mask |-> {}, detect |-> {}, recv |-> 0,
   rrecv |-> 0, round |-> 0, rround |-> 0, roundSent |-> 0, rroundSent |-> 0,
   partSent |-> 0, mark |-> FALSE, sq |-> None, buf |-> None, rbuf |-> FALSE,
   cm |-> "in", rm |-> "none", timer |-> FALSE, toCount |-> 0, low |-> FALSE,
   got |-> <<>>, heard |-> {}, inst |-> 0, failed |-> {}, why |-> "",
   upset |-> {}]

Init ==
  /\ sc \in Scenarios
  /\ p = ParseArgs(sc.args) /\ ~p.invalid
  /\ s = NewStrategy(p, Addrs)
  /\ disk = [f \in {g.file[1] : g \in {h \in Range(p.groups) : h.file /= None}} |-> {}]
  /\ conn = [i \in DOMAIN sc.target |-> NewConn]

Dst(i) == sc.target[i].dst
Req(i) == sc.target[i].req
Bytes(n) == [k \in 1..n |-> k]

\* Both sides of connection i go: del_event of the pair.
Close(c, why) == [NewConn EXCEPT !.st = "closed", !.why = why, !.failed = c.failed]

\* A step leaves the strategy and the record of connection i.
Put(i, r) == s' = r.s /\ conn' = [conn EXCEPT ![i] = r.c] /\ UNCHANGED <<sc, p, disk>>

-----------------------------------------------------------------------------
(* Cutting a request up *)

RecHdr == 1   \* a record header counts as one byte here

\* gen_offset, the random anchor left out.
GenOffset(part, n, req) ==
  LET at == IF "end" \in part.flag THEN req.len
            ELSE IF "mid" \in part.flag THEN req.len \div 2 ELSE 0
  IN IF part.flag \cap {"sni", "host"} /= {}
     THEN IF req.at = 0 \/ ("sni" \in part.flag /\ req.kind /= "tls") THEN -1
          ELSE part.pos + req.at + at
     ELSE IF "mid" \in part.flag THEN part.pos + n \div 2
     ELSE IF part.pos < 0 \/ "end" \in part.flag THEN part.pos + n
     ELSE part.pos

\* A part and its repetitions, in turn.
Repeats(parts) ==
  FlattenSeq([k \in DOMAIN parts |->
    [j \in 1..(IF parts[k].r > 1 THEN parts[k].r ELSE 1) |->
       parts[k] @@ [shift |-> parts[k].s * (j - 1), odd |-> j % 2 = 1]]])

\* One more record header, at pos; one that does not fit ends the splitting.
TampAt(a, n, pos) ==
  IF a.stop \/ pos < a.lp \/ pos + RecHdr > n \/ n + RecHdr > p.bfsize
  THEN [a EXCEPT !.stop = TRUE]
  ELSE [data |-> SubSeq(a.data, 1, pos + RecHdr) \o <<0>> \o SubSeq(a.data, pos + RecHdr + 1, n),
        lp |-> pos + RecHdr, rc |-> a.rc + 1, stop |-> FALSE]

\* tamp: split the TLS record of the request with further record headers.
\* What -M and -m change keeps its length and is left out.
Tamp(g, req, data) ==
  LET Cut(a, part) ==
        TampAt(a, Len(a.data),
               a.rc * RecHdr + GenOffset(part, Len(a.data) - a.rc * RecHdr, req) + part.shift
                 - (IF part.pos < 0 \/ part.flag /= {} THEN RecHdr ELSE 0))
  IN IF req.kind /= "tls" THEN data
     ELSE FoldLeft(Cut, [data |-> data, lp |-> 0, rc |-> 0, stop |-> FALSE],
                   Repeats(g.tlsrec)).data

\* What a part leaves in the stream.  A fake is overwritten with the request
\* before it is sent again; an urgent byte follows the part it cuts off.
SendFake(data, from, to) == SubSeq(data, from + 1, to)
SendOob(data, from, to) == SubSeq(data, from + 1, to) \o <<-1>>
SendPart(m, data, from, to) ==
  CASE m \in {"split", "disorder"} -> SubSeq(data, from + 1, to)
    [] m \in {"oob", "disoob"} -> SendOob(data, from, to)
    [] m = "fake" -> SendFake(data, from, to)

\* A mutant of RestoreState: the TTL is restored only after a send.
RestoreStateSent(a, resumed) == IF resumed THEN a.low ELSE FALSE

\* restore_state, after a part; resumed: the part was sent by an earlier call.
RestoreState(a, resumed) == FALSE

\* Whether an earlier call, interrupted by a pause, sent this part.
Resumed(curr, partSkip) == curr = partSkip

\* A part that ends at pos is sent: bytes is what it puts in the stream.  The
\* socket takes nothing of part number no.
SendOne(c, no, a, part, pos, resumed, bytes) ==
  LET low == a.low \/ (part.m \in {"disorder", "disoob"} /\ part.odd)
      out == [a EXCEPT !.sent = IF resumed THEN @ ELSE @ \o bytes, !.part = a.curr,
                       !.lp = pos, !.low = IF resumed THEN @ ELSE low]
  IN IF a.curr = no /\ ~resumed /\ bytes /= <<>>
     THEN [a EXCEPT !.part = a.curr, !.low = low, !.wait = part.m = "fake",
                    !.stop = TRUE, !.refused = TRUE]
     ELSE IF p.waitSend /\ a.curr > c.partSent THEN [out EXCEPT !.wait = TRUE, !.stop = TRUE]
     ELSE [out EXCEPT !.low = RestoreState(out, resumed)]

\* One turn of the loop of desync, for a part that is to end at want: what an
\* earlier call has done is passed over, a part out of order ends the loop.
PartStep(c, off, no, data, a, part, want) ==
  LET done == \/ /\ (c.roundSent /= 0 /\ want < c.roundSent) \/ a.curr < c.partSent
                 /\ "start" \notin part.flag
              \/ off /= 0 /\ want < off
      pos == IF want > Len(data) THEN Len(data) ELSE want
  IN IF done THEN a
     ELSE IF want < a.lp THEN [a EXCEPT !.stop = TRUE]
     ELSE SendOne(c, no, a, part, pos, Resumed(a.curr, c.partSent),
                  SendPart(part.m, data, a.lp, pos))

\* The loop of desync over the parts of group g.
SendParts(c, g, req, off, no, data) ==
  LET Send(a, part) ==
        IF a.stop THEN a
        ELSE PartStep(c, off, no, data, [a EXCEPT !.curr = @ + 1], part,
                      GenOffset(part, Len(data), req) + part.shift)
  IN FoldLeft(Send, [lp |-> off, curr |-> 0, sent |-> <<>>, part |-> c.partSent, low |-> c.low,
                     wait |-> FALSE, stop |-> FALSE, refused |-> FALSE], Repeats(g.parts))

\* The end of desync, a being what the loop has done: the rest is sent.
SendRest(off, no, data, a) ==
  LET rest == ~a.wait /\ ~a.refused /\ no /= -1
  IN [data |-> data, part |-> a.part, low |-> a.low, wait |-> a.wait,
      sent |-> IF rest THEN a.sent \o SubSeq(data, a.lp + 1, Len(data)) ELSE a.sent,
      sn |-> (IF rest THEN Len(data) ELSE a.lp) - off,
      upset |-> IF a.refused THEN {"part"} ELSE {}]

\* desync: the bytes sent, the number of bytes it reports, and whether it
\* pauses, after a part (-Z) or for want of a file for a fake.  The socket
\* takes nothing of part number no (0: all parts, -1: of the rest).
DesyncData(c, g, req, off, no, data) ==
  SendRest(off, no, data, SendParts(c, g, req, off, no, data))

Desync(c, g, req, b, no) ==
  DesyncData(c, g, req, b.off, no, IF c.roundSent = 0 THEN Tamp(g, req, b.data) ELSE b.data)

\* A plain send that takes k bytes.
Plain(c, b, k) ==
  [data |-> b.data, part |-> c.partSent, low |-> c.low, wait |-> FALSE,
   sent |-> SubSeq(b.data, b.off + 1, b.off + k), sn |-> k, upset |-> {}]

\* The parts of group g that may be refused; a fresh socket refuses none, but
\* there may be no file for a fake.
Refusable(g, fresh) ==
  LET parts == Repeats(g.parts) IN
  {0} \cup (IF "refuse" \in sc.faults
            THEN {k \in DOMAIN parts : ~fresh \/ parts[k].m = "fake"}
                   \cup (IF fresh THEN {} ELSE {-1})
            ELSE {})

\* What sending buffer b may come to.
Sendings(i, c, b, fresh) ==
  LET g == s.grp[c.dp[1]]
      left == Len(b.data) - b.off
  IN IF CheckRound(g.rounds, c.round) THEN {Desync(c, g, Req(i), b, no) : no \in Refusable(g, fresh)}
     ELSE {Plain(c, b, k) : k \in (IF fresh THEN left ELSE 0)..left}

\* The connection after a send.
Sent(c, r) == [c EXCEPT !.got = @ \o r.sent, !.roundSent = @ + r.sn,
                        !.partSent = r.part, !.low = r.low, !.upset = @ \cup r.upset]

-----------------------------------------------------------------------------
(* Choosing a group, connecting, connecting again *)

\* create_conn: a new remote side, polled for POLLOUT; the client waits.
CreateConn(c) ==
  [c EXCEPT !.st = "connecting", !.hs = 0, !.cm = "none", !.rm = "out", !.rrecv = 0,
            !.rround = 0, !.rroundSent = 0, !.rbuf = FALSE, !.timer = FALSE,
            !.toCount = 0, !.low = FALSE, !.got = <<>>, !.inst = @ + 1]

\* What the cache knows about an address, for a connection without a group.
Recall(c, found) ==
  IF c.dp /= None \/ found = None THEN c
  ELSE [c EXCEPT !.mask = found[1].mask, !.detect = found[1].detect, !.dp = Some(found[1].dp)]

\* The end of connect_hook, f being the group found: a group that must see
\* the request before it picks the way out (-C) has the client send it first.
\* Whether it is done, and else why not: no group is left, or no socket or
\* slot (create_conn).
ConnectBy(st, c, f, full) ==
  LET c1 == [c EXCEPT !.dp = f.dp, !.mask = f.mask]
      g == st.grp[f.dp[1]]
      later == p.delay /\ c.buf = None /\ (g.hosts /= None \/ g.proto /= {})
      Result(c2, why) == [s |-> st, c |-> c2, why |-> why]
  IN IF f.dp = None THEN Result([c EXCEPT !.mask = f.mask], "nogroup")
     ELSE IF later THEN Result([c1 EXCEPT !.st = "delayed"], "")
     ELSE IF full THEN Result(c1, "full") ELSE Result(CreateConn(c1), "")

ConnectFrom(i, st, c, full) ==
  ConnectBy(st, c, FindDp(st, c, IF c.buf = None THEN None ELSE Some(Req(i)), Dst(i)), full)

\* The cache is asked only for a connection without a group.
Lookup(st, c, a) ==
  IF c.dp = None THEN CacheGet(st, a) ELSE {[found |-> None, cache |-> st.cache]}

\* Whether create_conn may find no socket or slot.
NoSlot == {FALSE, "full" \in sc.faults}

\* connect_hook: what the cache knows about the address, a group, and the
\* connection.
ConnectHook(i, st, c) ==
  {ConnectFrom(i, [st EXCEPT !.cache = e.cache], Recall(c, e.found), full) :
   e \in Lookup(st, c, Dst(i)), full \in NoSlot}

\* A connection that its handler gives up (-1) is closed.
Settle(results) ==
  {IF r.why = "" THEN r ELSE [r EXCEPT !.c = Close(r.c, r.why)] : r \in results}

\* A mutant of Replay: the replay starts where the lost connection stood.
ReplayRest(c) ==
  [c EXCEPT !.buf = IF c.sq = None THEN @ ELSE Some([data |-> Bytes(c.sq[1]), off |-> 0])]

\* reconnect, its first half: the stored request is to be sent from its start.
Replay(c) ==
  [c EXCEPT !.buf = IF c.sq = None THEN @ ELSE Some([data |-> Bytes(c.sq[1]), off |-> 0]),
            !.roundSent = 0, !.partSent = 0]

\* What becomes of a connection after on_trigger, which came to t.
Triggered(i, c, type, t) ==
  LET hit == [c EXCEPT !.mask = t.mask, !.detect = type]
  IN IF t.retry
     THEN ConnectHook(i, t.s, Replay([hit EXCEPT !.failed = @ \cup {c.dp[1]}]))
     ELSE {[s |-> t.s, c |-> hit, why |-> "trigger"]}

\* A trigger on connection i: on_trigger and, where it says so, reconnect.
OnTrigger(i, c, type, alive) == Triggered(i, c, type, Trigger(s, c, Dst(i), type, alive))

\* on_torst and handle_err on the remote side.
OnTorst(i, c) == Settle(OnTrigger(i, c, {"torst"}, TRUE))

\* on_fin: the end of a connection is an event only after a TLS request and
\* before a second answer.
OnFin(i, c, byClient) ==
  IF c.mark /\ c.rround <= 1 THEN Settle(OnTrigger(i, c, {"tlserr"}, ~byClient))
  ELSE {[s |-> s, c |-> Close(c, "end")]}

\* setup_conn: with the first request in hand the filters that look into it
\* apply as well.
SetupBy(i, c, f) ==
  IF f.dp = None THEN Close([c EXCEPT !.mask = f.mask], "nogroup")
  ELSE [c EXCEPT !.dp = f.dp, !.mask = f.mask, !.mark = Req(i).kind = "tls"]

SetupConn(i, c, data) ==
  IF c.recv /= Len(data) THEN c ELSE SetupBy(i, c, FindDp(s, c, Some(Req(i)), Dst(i)))

-----------------------------------------------------------------------------
(* The tunnel *)

\* The connection after a send, r, from its buffer b.
Flushed(c, b, r) ==
  IF r.sn < Len(b.data) - b.off \/ r.wait
  THEN [Sent(c, r) EXCEPT !.buf = Some([data |-> r.data, off |-> b.off + r.sn]),
                          !.timer = @ \/ r.wait,
                          !.upset = @ \cup IF c.rm /= "out" /\ ~c.timer /\ ~r.wait
                                           THEN {"pause"} ELSE {}]
  ELSE [Sent(c, r) EXCEPT !.buf = None, !.cm = "in", !.rm = "in"]

\* The first half of on_tunnel: send what is left of the client's buffer b.
FlushBuf(i, c, b, fresh) ==
  IF c.st = "closed" THEN {[s |-> s, c |-> c]}
  ELSE {[s |-> s, c |-> Flushed(c, b, r)] : r \in Sendings(i, c, b, fresh)}

Flush(i, c, fresh) == FlushBuf(i, SetupConn(i, c, c.buf[1].data), c.buf[1], fresh)

\* A mutant of Park: the remote side is not polled for what is left.
ParkUnwatched(c, r) ==
  [c EXCEPT !.buf = Some([data |-> r.data, off |-> r.sn]), !.timer = @ \/ r.wait,
            !.cm = "none", !.rm = "none"]

\* The second half of on_tunnel, bytes left over: they are kept, the client is
\* not read until they are sent, and POLLOUT or the timer comes back to them.
Park(c, r) ==
  [c EXCEPT !.buf = Some([data |-> r.data, off |-> r.sn]), !.timer = @ \/ r.wait,
            !.cm = "none", !.rm = IF r.wait THEN "none" ELSE "out"]

\* on_tunnel takes the replay that follows a failed send for a send of nothing
\* and sets the length of the buffer, which holds the stored request by now,
\* to that of the data.
CutReplay(c, data) ==
  [c EXCEPT !.buf = Some([data |-> SubSeq(c.buf[1].data \o SubSeq(data, c.sq[1] + 1, Len(data)),
                                          1, Len(data)), off |-> 0]),
            !.upset = @ \cup {"replay"}]

\* A send of bytes just received fails: a reset (handle_err).
SendFails(i, c, data) ==
  {IF r.why = "" /\ r.c.sq /= Some(Len(data)) THEN [r EXCEPT !.c = CutReplay(r.c, data)] ELSE r :
   r \in OnTorst(i, c)}

\* The connection after a send, r, of data just received.
PassedOn(c, r) ==
  IF r.sn < Len(r.data) \/ r.wait THEN Park(Sent(c, r), r) ELSE Sent(c, r)

SendData(i, c, data) ==
  UNION {{[s |-> s, c |-> PassedOn(c, r)]} \cup SendFails(i, c, r.data) :
         r \in Sendings(i, c, [data |-> data, off |-> 0], FALSE)}

\* The second half of on_tunnel: data just received is sent on.
SendOn(i, c, data) ==
  LET late == c.roundSent /= 0 /\ CheckRound(s.grp[c.dp[1]].rounds, c.round)
  IN IF c.st = "closed" THEN {[s |-> s, c |-> c]}
     ELSE SendData(i, [c EXCEPT !.upset = @ \cup IF late THEN {"reads"} ELSE {}], data)

\* tcp_recv_hook, n bytes from the client: rounds, and the copy of the first
\* request kept for a replay while it fits in a buffer.
RecvClient(c, n) ==
  LET first == c.roundSent = 0
      len == IF c.sq = None THEN n ELSE c.sq[1] + n
  IN [c EXCEPT !.recv = @ + n,
               !.round = IF first THEN @ + 1 ELSE @,
               !.rroundSent = IF first THEN 0 ELSE @,
               !.sq = IF p.auto /\ (@ /= None \/ c.recv = 0)
                      THEN IF len >= p.bfsize THEN None ELSE Some(len)
                      ELSE @]

\* A mutant of FreeFirstReq: the stored request outlives the first answer.
FreeFirstReqNever(c) == c

\* free_first_req
FreeFirstReq(c) == [c EXCEPT !.sq = None]

\* try_set_tls_timer: a timer watches over an unfinished TLS record; what is
\* not a record ends the watch.
WatchRecords(c, k) ==
  IF ~c.mark THEN c
  ELSE IF p.toBytes /= 0 /\ c.rrecv > p.toBytes THEN [c EXCEPT !.mark = FALSE, !.timer = FALSE]
  ELSE IF k \notin {"shello", "part", "alert"} THEN [c EXCEPT !.mark = FALSE]
  ELSE IF p.ptimeout = 0 THEN c ELSE [c EXCEPT !.timer = k = "part"]

\* tcp_recv_hook, an answer of the kind k.
RecvRemote(c, k) ==
  LET first == c.rroundSent = 0
      now == [c EXCEPT !.rrecv = @ + 1,
                       !.rround = IF first THEN @ + 1 ELSE @,
                       !.roundSent = IF first THEN 0 ELSE @,
                       !.partSent = IF first THEN 0 ELSE @]
  IN WatchRecords(now, k)

\* Whether an answer of the kind k to the request is what group g waits for.
Detects(g, req, k) ==
  \/ "redirect" \in g.detect /\ req.kind = "http" /\ k = "redirect"
  \/ "tlserr" \in g.detect /\ req.kind = "tls" /\ k \notin {"shello", "part"}

\* Forward an answer to the client, who takes it now or later.
Forward(c) ==
  {[s |-> s, c |-> [c EXCEPT !.heard = @ \cup {c.inst}, !.rroundSent = @ + 1]],
   [s |-> s, c |-> [c EXCEPT !.rbuf = TRUE, !.rm = "none", !.cm = "out"]]}

\* What becomes of the answer when it is a trigger, which came to r.
Responded(c, r) ==
  LET kept == IF r.why = "trigger" THEN r.c
              ELSE [r.c EXCEPT !.failed = c.failed, !.upset = @ \cup {"replay"}]
  IN IF r.why = "" THEN {r} ELSE {[q EXCEPT !.s = r.s] : q \in Forward(FreeFirstReq(kept))}

\* on_response: the first answer may be the sign of a block that some group
\* not yet ruled out waits for.
ResponseIn(i, c, waiting) ==
  IF waiting = <<>> THEN Forward(FreeFirstReq(c))
  ELSE UNION {Responded(c, r) : r \in OnTrigger(i, c, s.grp[waiting[1]].detect, TRUE)}

OnResponse(i, c, k) ==
  LET mask == c.mask \cup {c.dp[1]}
      Waits(g) == g \notin mask /\ Detects(s.grp[g], Req(i), k)
  IN ResponseIn(i, [c EXCEPT !.mask = mask], SelectSeq(Groups(s), Waits))

-----------------------------------------------------------------------------
(* Events *)

\* on_request: the client names its destination.
Connect(i) ==
  /\ conn[i].st = "idle"
  /\ \E r \in Settle(ConnectHook(i, s, conn[i])) : Put(i, r)

\* recv_and_connect: the request of a client that was made to wait for it.
DelayedRequest(i) ==
  LET c == conn[i] IN
  /\ c.st = "delayed" /\ c.cm = "in"
  /\ \E n \in 1..sc.bytes :
       LET c1 == [RecvClient(c, n) EXCEPT !.buf = Some([data |-> Bytes(n), off |-> 0])]
       IN \E r \in Settle(ConnectHook(i, s, c1)) : Put(i, r)

\* on_socks_conn and on_socks_recv: greet the outgoing proxy, then ask it.
SocksStep(i) ==
  LET c == conn[i] IN
  /\ c.st = "connecting" /\ s.grp[c.dp[1]].out /= None /\ c.hs < 2
  /\ Put(i, [s |-> s, c |-> [c EXCEPT !.hs = @ + 1, !.rm = "in"]])

\* on_connect: the tunnel is open; a request at hand is sent at once.
Connected(i) ==
  LET c == [conn[i] EXCEPT !.st = "open", !.cm = "in", !.rm = "in"] IN
  /\ conn[i].st = "connecting"
  /\ s.grp[c.dp[1]].out = None \/ c.hs = 2
  /\ \E r \in (IF c.buf = None THEN {[s |-> s, c |-> c]} ELSE Flush(i, c, TRUE)) : Put(i, r)

\* on_connect, the connection failed: on_connerr for the errors that look
\* like a block, and the end of the connection for the others.
ConnectFails(i) ==
  LET c == conn[i] IN
  /\ c.st = "connecting"
  /\ \/ \E r \in Settle(OnTrigger(i, c, {"connect"}, TRUE)) : Put(i, r)
     \/ Put(i, [s |-> s, c |-> Close(c, "error")])

\* The client side is readable: on_tunnel sends what it still holds, or
\* receives and sends on.
ClientData(i) ==
  LET c == conn[i] IN
  /\ c.st = "open" /\ c.cm = "in"
  /\ \/ c.buf /= None /\ \E r \in Flush(i, c, FALSE) : Put(i, r)
     \/ /\ c.buf = None
        /\ \E n \in 1..(sc.bytes - c.recv) :
             LET data == [k \in 1..n |-> c.recv + k]
             IN \E r \in SendOn(i, SetupConn(i, RecvClient(c, n), data), data) : Put(i, r)

\* The remote side takes more: on_tunnel sends on.
RemoteWritable(i) ==
  LET c == conn[i] IN
  /\ c.st = "open" /\ c.rm = "out"
  /\ \/ \E r \in Flush(i, c, FALSE) : Put(i, r)
     \/ \E r \in OnTorst(i, c) : Put(i, r)

\* The timer of the remote side: the end of a pause, or an answer that does
\* not come to its end (on_timeout).
Timer(i) ==
  LET c == [conn[i] EXCEPT !.timer = FALSE] IN
  /\ c.st = "open" /\ conn[i].timer
  /\ IF c.buf = None /\ c.rround > 0
     THEN IF c.toCount + 1 >= p.toCount
          THEN \E r \in OnTorst(i, [c EXCEPT !.toCount = @ + 1]) : Put(i, r)
          ELSE Put(i, [s |-> s, c |-> [conn[i] EXCEPT !.toCount = @ + 1]])
     ELSE IF c.buf = None THEN Put(i, [s |-> s, c |-> c])
     ELSE \E r \in Flush(i, c, FALSE) : Put(i, r)

\* The client side takes the answer that waits: on_tunnel sends it and reads on.
SendAnswer(c) ==
  [c EXCEPT !.heard = @ \cup {c.inst}, !.rroundSent = @ + 1, !.rbuf = FALSE,
            !.cm = "in", !.rm = "in"]

\* The remote side is readable: an answer, after the one that still waits.
Answer(i, k) ==
  LET c == IF conn[i].rbuf THEN SendAnswer(conn[i]) ELSE conn[i]
      c1 == [RecvRemote(c, k) EXCEPT !.upset = @ \cup (IF c.recv = 0 THEN {"banner"} ELSE {})
                                                 \cup (IF c.buf /= None THEN {"early"} ELSE {})]
  IN /\ conn[i].st = "open" /\ conn[i].rm = "in"
     /\ c.rrecv < sc.answers /\ (c.recv > 0 \/ "banner" \in sc.faults)
     /\ \E r \in (IF c1.sq /= None THEN OnResponse(i, c1, k) ELSE Forward(c1)) : Put(i, r)

\* The client reads again.
ClientWritable(i) ==
  /\ conn[i].st = "open" /\ conn[i].cm = "out"
  /\ Put(i, [s |-> s, c |-> SendAnswer(conn[i])])

\* The remote side ends: on_fin.
RemoteEnd(i) ==
  LET c == conn[i] IN
  /\ c.st = "open" /\ c.rm = "in"
  /\ \E r \in OnFin(i, c, FALSE) : Put(i, r)

\* A reset or a timeout of the remote side: on_torst.
RemoteReset(i) ==
  LET c == conn[i] IN
  /\ c.st = "open" /\ c.rm = "in"
  /\ \E r \in OnTorst(i, c) : Put(i, r)

\* The client leaves: on_ignore while it waits, on_fin in an open tunnel.
ClientEnd(i) ==
  LET c == conn[i] IN
  \/ /\ c.st \in {"connecting", "delayed"}
     /\ Put(i, [s |-> s, c |-> Close(c, "end")])
  \/ /\ c.st = "open" /\ c.cm = "in" /\ c.buf = None
     /\ \E r \in OnFin(i, c, TRUE) : Put(i, r)

\* What the cache knows about an address, some time later.
Older(v) ==
  IF v = None \/ v[1].age = MaxAge THEN v ELSE Some([v[1] EXCEPT !.age = @ + 1])

\* Time passes for the cache.
Age ==
  /\ \E a \in Addrs : s.cache[a] /= None /\ s.cache[a][1].age < MaxAge
  /\ \E g \in Ids(s) : s.grp[g].cacheTtl /= 0
  /\ s' = [s EXCEPT !.cache = [a \in Addrs |-> Older(s.cache[a])]]
  /\ UNCHANGED <<sc, p, disk, conn>>

\* The worker ends and is started again with the same options: after a
\* signal it writes its cache files (main), when it is killed it does not.
Restart(signal) ==
  /\ sc.restarts > 0
  /\ sc' = [sc EXCEPT !.restarts = @ - 1]
  /\ disk' = IF signal THEN DumpAllCache(s, disk) ELSE disk
  /\ s' = LoadCache(NewStrategy(p, Addrs), disk')
  /\ conn' = [i \in Conns |-> IF conn[i].st \in {"idle", "closed"} THEN conn[i]
                              ELSE Close(conn[i], "restart")]
  /\ UNCHANGED p

Answers == {"shello", "part", "alert", "redirect", "other"}

Next ==
  \/ \E i \in Conns :
       \/ Connect(i) \/ DelayedRequest(i) \/ SocksStep(i) \/ Connected(i)
       \/ ConnectFails(i) \/ ClientData(i) \/ RemoteWritable(i) \/ Timer(i)
       \/ \E k \in Answers : Answer(i, k)
       \/ ClientWritable(i) \/ RemoteEnd(i) \/ RemoteReset(i) \/ ClientEnd(i)
  \/ Age
  \/ \E signal \in BOOLEAN : Restart(signal)

\* What brings the event loop back to connection i: a connection attempt, a
\* timer, a side that is to take more.
Busy(i) ==
  /\ i \in Conns
  /\ LET c == conn[i]
     IN c.st = "connecting" \/ (c.st = "open" /\ (c.timer \/ c.cm = "out" \/ c.rm = "out"))

\* The event loop serves every ready socket and every timer (loop_event), a
\* connection attempt ends one way or the other, and peers read on: where
\* there is a reason to come back to a connection, something becomes of it.
\* Weak fairness of the handlers implies this.
Fairness ==
  \A i \in ConnIds : []<>(~Busy(i)) \/ []<><<Busy(i) /\ conn'[i] /= conn[i]>>_vars

Spec == Init /\ [][Next]_vars /\ Fairness

-----------------------------------------------------------------------------
(* Properties *)

Live(c) == c.st \in {"delayed", "connecting", "open"}

\* The list of groups stays whole whatever -L s moves in it (swop_groups):
\* every group is met exactly once, and prev undoes next.
ListWhole ==
  /\ IsInjective(Groups(s)) /\ Range(Groups(s)) = Ids(s)
  /\ s.grp[s.head].prev = 0
  /\ \A g \in Ids(s) : s.grp[g].next /= 0 => s.grp[s.grp[g].next].prev = g

\* A connection that was given up with one group is never served with that
\* group again (on_trigger, find_dp), whatever other connections do to the
\* list and to the cache in between.
NoGroupTwice ==
  \A i \in Conns : Live(conn[i]) => conn[i].dp = None \/ conn[i].dp[1] \notin conn[i].failed

\* A connection comes to use a group that waits for triggers only after one
\* of these was seen, by it or by an earlier connection to the address, or
\* when the cache assigns the group to the address (connect_hook, find_dp).
\* The triggers are those of the place the group has in the list by then:
\* swop_groups leaves them with the place.
TriggerSeen ==
  [][\A i \in Conns :
       LET c == conn'[i]
           d == s'.grp[c.dp[1]].detect
       IN (Live(c) /\ c.dp /= conn[i].dp)
            => \/ d = {} \/ d \cap c.detect /= {}
               \/ conn[i].dp = None /\ s.cache[Dst(i)] /= None /\ s.cache[Dst(i)][1].dp = c.dp[1]]_vars

\* A worker that was asked to end remembers, when it runs again, the group
\* of every address whose group has a file of its own, and claims no other
\* (dump_all_cache, load_cache).  Of groups that share a file the last one
\* of the list writes it: an address of theirs is forgotten, or assigned a
\* group that shares the file.
RestartRemembers ==
  [][(sc' /= sc /\ disk' /= disk) =>
       \A a \in Addrs :
         LET old == IF s.cache[a] = None THEN 0 ELSE s.cache[a][1].dp
             new == IF s'.cache[a] = None THEN 0 ELSE s'.cache[a][1].dp
             sharing == {g \in Ids(s) : s.grp[g].file = s.grp[old].file}
         IN IF old = 0 \/ s.grp[old].file = None THEN new = 0
            ELSE IF sharing = {old} THEN new = old
            ELSE new \in {0} \cup sharing]_vars

\* An address nothing is known about is served, over TCP and over UDP:
\* some group takes the connection and the request (the last lines of
\* parse_args, find_dp, udp_hook).
FreshServed ==
  \A i \in Conns :
    s.cache[Dst(i)] = None =>
      /\ FindDp(s, NewConn, Some(Req(i)), Dst(i)).dp /= None
      /\ UdpDp(s, Dst(i)) /= None

\* The bytes of the client that the destination finds in its stream.
Received(c) == SelectSeq(c.got, LAMBDA x : x > 0)

\* The destination is given the client's bytes, all of them, once and in
\* order, through cuts, pauses, short writes and replays; what is not in
\* the buffer was sent (desync, tcp_send_hook, on_tunnel, reconnect).  Not
\* so after a refused part, an unfinished replay or a request in two reads.
StreamIntact ==
  \A i \in Conns :
    LET c == conn[i]
    IN (c.st = "open" /\ c.upset \cap {"part", "replay", "reads"} = {}) =>
         /\ IsPrefix(Received(c), Bytes(c.recv))
         /\ c.buf = None => Len(Received(c)) = c.recv

\* No client is answered by two servers: a request is replayed only as long
\* as nothing of an answer went to the client (free_first_req, on_trigger).
\* A destination that speaks first is not foreseen.
OneServer ==
  \A i \in Conns : "banner" \notin conn[i].upset => Cardinality(conn[i].heard) <= 1

\* The TTL that -d lowers for a part is back when the request is out, even
\* if the worker paused or was refused the part in between (restore_state).
TtlRestored ==
  \A i \in Conns : conn[i].st = "open" /\ conn[i].buf = None /\ "early" \notin conn[i].upset
                     => ~conn[i].low

\* Bytes taken from a client, and an answer taken from a destination, are
\* passed on in the end or the connection closes: masks and timers bring the
\* worker back to them (on_tunnel).  Not so after a refused part, a pause
\* that ends at a full socket, or an unfinished replay.
NoStall ==
  \A i \in ConnIds :
    LET Held(c) == /\ c.st = "open" /\ c.upset \cap {"part", "pause", "replay", "reads", "early"} = {}
                   /\ Len(Received(c)) < c.recv \/ c.rbuf
    IN (i \in Conns /\ Held(conn[i])) ~> (i \in Conns /\ ~Held(conn[i]))

\* What the README of the worker says of "--auto=torst --hosts list.txt
\* --disorder 3": by default nothing is done, disorder is for blocked hosts
\* of the list.  So a connection on which nothing went wrong is not dropped
\* for want of a group (find_dp).
DefaultApplies ==
  \A i \in Conns : conn[i].why = "nogroup" => conn[i].failed /= {}
=============================================================================
