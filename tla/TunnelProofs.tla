---------------------------- MODULE TunnelProofs ----------------------------
(***************************************************************************)
(* What a connection of Tunnel may never do, for every command line,       *)
(* destination, request, fault and number of connections: it is given no   *)
(* group it has failed with, its client hears one server only, and it      *)
(* comes to use a group that waits for triggers only after one of these    *)
(* was seen, or from the cache.  All rest on what every handler keeps of   *)
(* the connection it serves (Sound).                                       *)
(***************************************************************************)
EXTENDS Tunnel, DesyncGroupsProofs

\* The fields the invariant is about.
Relevant == {"st", "dp", "mask", "detect", "failed", "sq", "recv", "cm", "rbuf", "heard",
             "inst", "upset"}

\* The groups a connection failed with are ruled out, and its group is none
\* of them.
RulesOut(c) ==
  /\ c.st = "idle" => c.dp = None /\ c.failed = {}
  /\ Live(c) => /\ c.dp /= None /\ c.failed \subseteq c.mask
                /\ c.dp[1] \notin c.failed

\* Once the client has heard a server, or is about to, the request is no
\* longer stored and has been received: nothing is left to replay.
NothingToReplay(c) ==
  /\ c.heard \subseteq {c.inst}
  /\ c.heard /= {} \/ c.cm = "out" \/ c.rbuf => c.recv > 0 /\ c.sq = None
  /\ c.st \in {"idle", "delayed"} => c.heard = {} /\ c.cm /= "out" /\ ~c.rbuf

Sound(c) ==
  /\ Relevant \subseteq DOMAIN c /\ c.recv \in Nat
  /\ RulesOut(c)
  /\ "banner" \notin c.upset => NothingToReplay(c)

AllSound == \A i \in DOMAIN conn : Sound(conn[i])

-----------------------------------------------------------------------------
(* Changes of a connection *)

\* The same connection, but for what the invariant does not mind.
Same(c, d) ==
  /\ Relevant \subseteq DOMAIN d
  /\ d.st = c.st /\ d.dp = c.dp /\ d.failed = c.failed /\ d.sq = c.sq /\ d.recv = c.recv
  /\ d.heard = c.heard /\ d.inst = c.inst
  /\ c.mask \subseteq d.mask /\ c.upset \subseteq d.upset
  /\ (d.cm = "out" => c.cm = "out") /\ d.rbuf = c.rbuf

\* A connection of which nothing relevant changed is sound still.
LEMMA SameSound == \A c, d : Sound(c) /\ Same(c, d) => Sound(d)
BY DEF Sound, Same, RulesOut, NothingToReplay, Live

\* A closed connection is sound.
LEMMA CloseSound == \A c, why : Sound(Close(c, why))
<1> TAKE c, why
<1> DEFINE d == Close(c, why)
<1>1. /\ Relevant \subseteq DOMAIN d /\ d.recv = 0 /\ d.st = "closed" /\ d.heard = {}
      /\ d.cm = "in" /\ ~d.rbuf
  BY DEF Close, NewConn, Relevant
<1> HIDE DEF d
<1>2. Sound(d)
  BY <1>1 DEF Sound, RulesOut, NothingToReplay, Live
<1> QED BY <1>2 DEF d

\* A connection that connect_hook may be called for: it has no group yet and
\* has failed with none, or all it has failed with is ruled out; the client
\* has heard no server.
Ready(c) ==
  /\ Relevant \subseteq DOMAIN c /\ c.recv \in Nat
  /\ IF c.dp = None THEN c.failed = {} ELSE c.failed \subseteq c.mask
  /\ "banner" \notin c.upset => c.heard = {} /\ c.cm /= "out" /\ ~c.rbuf

\* A connection that connect_hook gives up, as it leaves it.
GivenUp(c, d) ==
  /\ Relevant \subseteq DOMAIN d
  /\ d.st = c.st /\ d.failed = c.failed /\ d.sq = c.sq /\ d.recv = c.recv
  /\ d.heard = c.heard /\ d.inst = c.inst /\ d.upset = c.upset /\ d.cm = c.cm /\ d.rbuf = c.rbuf
  /\ c.mask \subseteq d.mask
  /\ d.dp = c.dp \/ (d.dp /= None /\ d.dp[1] \notin c.mask)

\* connect_hook and reconnect, from whichever group they start at.
LEMMA ConnectFromSound ==
  ASSUME NEW i, NEW st, NEW c, Ready(c), NEW full
  PROVE  LET r == ConnectFrom(i, st, c, full)
         IN /\ r.why \in {"", "nogroup", "full"} /\ "c" \in DOMAIN r
            /\ r.why = "" => Sound(r.c)
            /\ r.why /= "" => GivenUp(c, r.c)
<1> DEFINE f == FindDp(st, c, IF c.buf = None THEN None ELSE Some(Req(i)), Dst(i))
           c1 == [c EXCEPT !.dp = f.dp, !.mask = f.mask]
           r == ConnectBy(st, c, f, full)
<1>1. c.mask \subseteq f.mask /\ (f.dp /= None => f.dp[1] \notin c.mask)
  BY FindDpFresh
<1> HIDE DEF f
<1>2. GivenUp(c, [c EXCEPT !.mask = f.mask])
  BY <1>1 DEF GivenUp, Ready, Relevant
<1>3. ASSUME f.dp /= None PROVE GivenUp(c, c1)
  BY <1>1, <1>3 DEF GivenUp, Ready, Relevant
<1>4. ASSUME f.dp /= None PROVE Sound([c1 EXCEPT !.st = "delayed"])
  <2> DEFINE d == [c1 EXCEPT !.st = "delayed"]
  <2>1. /\ Relevant \subseteq DOMAIN d /\ d.recv = c.recv /\ d.st = "delayed" /\ d.dp = f.dp
        /\ d.failed = c.failed /\ d.mask = f.mask /\ d.upset = c.upset /\ d.heard = c.heard
        /\ d.cm = c.cm /\ d.rbuf = c.rbuf
    BY DEF Ready, Relevant
  <2> HIDE DEF d
  <2>2. Sound(d)
    BY <1>1, <1>4, <2>1 DEF Ready, Sound, RulesOut, NothingToReplay, Live
  <2> QED BY <2>2 DEF d
<1>5. ASSUME f.dp /= None PROVE Sound(CreateConn(c1))
  <2> DEFINE d == CreateConn(c1)
  <2>1. /\ Relevant \subseteq DOMAIN d /\ d.recv = c.recv /\ d.st = "connecting" /\ d.dp = f.dp
        /\ d.failed = c.failed /\ d.mask = f.mask /\ d.upset = c.upset /\ d.heard = c.heard
        /\ d.cm = "none" /\ ~d.rbuf
    BY DEF Ready, Relevant, CreateConn
  <2> HIDE DEF d
  <2>2. Sound(d)
    BY <1>1, <1>5, <2>1 DEF Ready, Sound, RulesOut, NothingToReplay, Live
  <2> QED BY <2>2 DEF d
<1> HIDE DEF c1
<1>6. /\ "c" \in DOMAIN r
      /\ f.dp = None => r.why = "nogroup" /\ r.c = [c EXCEPT !.mask = f.mask]
      /\ f.dp /= None => \/ r.why = "" /\ r.c = [c1 EXCEPT !.st = "delayed"]
                         \/ r.why = "full" /\ r.c = c1
                         \/ r.why = "" /\ r.c = CreateConn(c1)
  BY DEF ConnectBy, c1
<1>7. ConnectFrom(i, st, c, full) = r
  BY DEF ConnectFrom, f
<1> HIDE DEF r
<1> QED BY <1>2, <1>3, <1>4, <1>5, <1>6, <1>7

\* connect_hook leaves a sound connection, or gives up.
LEMMA ConnectHookSound ==
  ASSUME NEW i, NEW st, NEW c, Ready(c), NEW r \in ConnectHook(i, st, c)
  PROVE  /\ r.why \in {"", "nogroup", "full"} /\ "c" \in DOMAIN r
         /\ r.why = "" => Sound(r.c)
         /\ r.why /= "" /\ c.dp /= None => GivenUp(c, r.c)
<1>1. PICK e \in Lookup(st, c, Dst(i)), full \in NoSlot :
        r = ConnectFrom(i, [st EXCEPT !.cache = e.cache], Recall(c, e.found), full)
  BY DEF ConnectHook
<1> DEFINE d == Recall(c, e.found)
<1>2. c.dp /= None => d = c
  BY DEF Recall
<1>3. Ready(d)
  <2>1. CASE d = c
    BY <2>1
  <2>2. CASE d /= c
    <3>1. /\ c.dp = None
          /\ d = [c EXCEPT !.mask = e.found[1].mask, !.detect = e.found[1].detect,
                           !.dp = Some(e.found[1].dp)]
      BY <2>2 DEF Recall
    <3>2. /\ Relevant \subseteq DOMAIN d /\ d.recv = c.recv /\ d.failed = c.failed
          /\ d.upset = c.upset /\ d.heard = c.heard /\ d.cm = c.cm /\ d.rbuf = c.rbuf
      BY <3>1 DEF Ready, Relevant
    <3> HIDE DEF d
    <3> QED BY <3>1, <3>2 DEF Ready
  <2> QED BY <2>1, <2>2
<1> HIDE DEF d
<1>4. r = ConnectFrom(i, [st EXCEPT !.cache = e.cache], d, full)
  BY <1>1 DEF d
<1> QED BY <1>2, <1>3, <1>4, ConnectFromSound DEF Ready

-----------------------------------------------------------------------------
(* Triggers *)

\* A connection that is kept after a replay has failed.
Kept(c, d) == [d EXCEPT !.failed = c.failed, !.upset = @ \cup {"replay"}]

StaysOpen(c, d) == Sound(d) /\ d.st = c.st /\ d.recv = c.recv /\ c.upset \subseteq d.upset

\* A trigger leaves a sound connection, or one that is sound once it is kept.
LEMMA OnTriggerSound ==
  ASSUME NEW i, NEW c, Sound(c), Live(c), NEW type, NEW alive,
         NEW r \in OnTrigger(i, c, type, alive)
  PROVE  /\ "c" \in DOMAIN r
         /\ r.why = "" => Sound(r.c)
         /\ r.why = "trigger" => Same(c, r.c)
         /\ r.why \notin {"", "trigger"} => StaysOpen(c, Kept(c, r.c))
<1> DEFINE t == Trigger(s, c, Dst(i), type, alive)
           hit == [c EXCEPT !.mask = t.mask, !.detect = type]
           lost == [hit EXCEPT !.failed = @ \cup {c.dp[1]}]
           q == Replay(lost)
<1>1. /\ c.mask \cup {c.dp[1]} \subseteq t.mask
      /\ t.retry => c.sq /= None \/ c.recv = 0
  BY TriggerFacts
<1>2. r \in IF t.retry THEN ConnectHook(i, t.s, q) ELSE {[s |-> t.s, c |-> hit, why |-> "trigger"]}
  BY DEF OnTrigger, Triggered
<1> HIDE DEF t
<1>3. Same(c, hit)
  BY <1>1 DEF Same, Sound, Relevant
<1>4. /\ Relevant \subseteq DOMAIN lost /\ lost.st = c.st /\ lost.dp = c.dp
      /\ lost.mask = t.mask /\ lost.failed = c.failed \cup {c.dp[1]} /\ lost.sq = c.sq
      /\ lost.recv = c.recv /\ lost.heard = c.heard /\ lost.inst = c.inst
      /\ lost.upset = c.upset /\ lost.cm = c.cm /\ lost.rbuf = c.rbuf
  BY DEF Sound, Relevant
<1> HIDE DEF lost, hit
<1>5. /\ Relevant \subseteq DOMAIN q /\ q.st = c.st /\ q.dp = c.dp
      /\ q.mask = t.mask /\ q.failed = c.failed \cup {c.dp[1]} /\ q.sq = c.sq
      /\ q.recv = c.recv /\ q.heard = c.heard /\ q.inst = c.inst
      /\ q.upset = c.upset /\ q.cm = c.cm /\ q.rbuf = c.rbuf
  BY <1>4 DEF Replay, Relevant
<1> HIDE DEF q
<1>6. ASSUME t.retry PROVE Ready(q) /\ q.dp /= None
  BY <1>1, <1>5, <1>6 DEF Ready, Sound, RulesOut, NothingToReplay
<1>7. CASE t.retry
  <2>1. r \in ConnectHook(i, t.s, q)
    BY <1>2, <1>7
  <2>2. /\ r.why \in {"", "nogroup", "full"} /\ "c" \in DOMAIN r
        /\ r.why = "" => Sound(r.c)
        /\ r.why /= "" => GivenUp(q, r.c)
    BY <1>6, <1>7, <2>1, ConnectHookSound
  <2>3. ASSUME GivenUp(q, r.c) PROVE StaysOpen(c, Kept(c, r.c))
    <3> DEFINE d == r.c
               k == Kept(c, d)
    <3>1. /\ Relevant \subseteq DOMAIN k /\ k.st = c.st /\ k.failed = c.failed
          /\ k.sq = c.sq /\ k.recv = c.recv /\ k.heard = c.heard /\ k.inst = c.inst
          /\ k.upset = c.upset \cup {"replay"} /\ k.cm = c.cm /\ k.rbuf = c.rbuf /\ k.mask = d.mask
          /\ k.dp = d.dp /\ d.st = c.st
      BY <1>5, <2>3 DEF GivenUp, Kept, Relevant
    <3>2. /\ c.mask \subseteq d.mask
          /\ d.dp = c.dp \/ (d.dp /= None /\ d.dp[1] \notin c.mask)
      BY <1>1, <1>5, <2>3 DEF GivenUp
    <3> HIDE DEF k, d
    <3>3. Sound(k)
      BY <3>1, <3>2 DEF Sound, RulesOut, NothingToReplay, Live
    <3> QED BY <3>1, <3>3 DEF k, d, StaysOpen
  <2> QED BY <2>2, <2>3
<1>8. CASE ~t.retry
  <2>1. r = [s |-> t.s, c |-> hit, why |-> "trigger"]
    BY <1>2, <1>8
  <2>2. r.why = "trigger" /\ r.c = hit /\ "c" \in DOMAIN r
    BY <2>1
  <2> QED BY <1>3, <2>2
<1> QED BY <1>7, <1>8

\* A connection whose handler has failed is closed, so the others are sound.
LEMMA SettleSound ==
  ASSUME NEW R, \A q \in R : "c" \in DOMAIN q /\ (q.why = "" => Sound(q.c)),
         NEW r \in Settle(R)
  PROVE  Sound(r.c) /\ "c" \in DOMAIN r
<1>1. PICK q \in R : r = IF q.why = "" THEN q ELSE [q EXCEPT !.c = Close(q.c, q.why)]
  BY DEF Settle
<1> QED BY <1>1, CloseSound

\* So are the connections that on_torst and on_fin leave.
LEMMA OnTorstSound ==
  ASSUME NEW i, NEW c, Sound(c), Live(c), NEW r \in OnTorst(i, c)
  PROVE  Sound(r.c) /\ "c" \in DOMAIN r
<1> DEFINE R == OnTrigger(i, c, {"torst"}, TRUE)
<1>1. \A q \in R : "c" \in DOMAIN q /\ (q.why = "" => Sound(q.c))
  BY OnTriggerSound
<1>2. r \in Settle(R)
  BY DEF OnTorst
<1> HIDE DEF R
<1> QED BY <1>1, <1>2, SettleSound

\* on_fin: an end that comes early is an event, any other closes.
LEMMA OnFinSound ==
  ASSUME NEW i, NEW c, Sound(c), Live(c), NEW byClient, NEW r \in OnFin(i, c, byClient)
  PROVE  Sound(r.c)
<1> DEFINE R == OnTrigger(i, c, {"tlserr"}, ~byClient)
<1>1. \A q \in R : "c" \in DOMAIN q /\ (q.why = "" => Sound(q.c))
  BY OnTriggerSound
<1>2. r \in Settle(R) \/ r = [s |-> s, c |-> Close(c, "end")]
  BY DEF OnFin
<1> HIDE DEF R
<1>3. CASE r \in Settle(R)
  BY <1>1, <1>3, SettleSound
<1>4. CASE r = [s |-> s, c |-> Close(c, "end")]
  BY <1>4, CloseSound
<1> QED BY <1>2, <1>3, <1>4

-----------------------------------------------------------------------------
(* Sending *)

\* setup_conn takes a group that is not ruled out, or closes.
LEMMA SetupSound ==
  ASSUME NEW i, NEW c, Sound(c), c.st = "open", NEW data
  PROVE  Sound(SetupConn(i, c, data)) /\ SetupConn(i, c, data).st \in {"open", "closed"}
<1> DEFINE f == FindDp(s, c, Some(Req(i)), Dst(i))
           d == [c EXCEPT !.dp = f.dp, !.mask = f.mask, !.mark = Req(i).kind = "tls"]
           shut == Close([c EXCEPT !.mask = f.mask], "nogroup")
<1>1. c.mask \subseteq f.mask /\ (f.dp /= None => f.dp[1] \notin c.mask)
  BY FindDpFresh
<1>2. \/ SetupConn(i, c, data) = c
      \/ SetupConn(i, c, data) = shut
      \/ f.dp /= None /\ SetupConn(i, c, data) = d
  BY DEF SetupConn, SetupBy
<1> HIDE DEF f
<1>3. /\ Relevant \subseteq DOMAIN d /\ d.st = "open" /\ d.dp = f.dp /\ d.mask = f.mask
      /\ d.failed = c.failed /\ d.sq = c.sq /\ d.recv = c.recv /\ d.heard = c.heard
      /\ d.inst = c.inst /\ d.upset = c.upset /\ d.cm = c.cm /\ d.rbuf = c.rbuf
  BY DEF Sound, Relevant
<1> HIDE DEF d
<1>4. f.dp /= None => Sound(d)
  BY <1>1, <1>3 DEF Sound, RulesOut, NothingToReplay, Live
<1>5. Sound(shut) /\ shut.st = "closed"
  BY CloseSound DEF Close, NewConn
<1> HIDE DEF shut
<1> QED BY <1>2, <1>3, <1>4, <1>5

\* A send changes nothing the invariant is about.
LEMMA SentSame ==
  ASSUME NEW c, Relevant \subseteq DOMAIN c, NEW r
  PROVE  Same(c, Sent(c, r)) /\ Sent(c, r).cm = c.cm
BY DEF Same, Sent, Relevant

\* What was left of a request goes out.
LEMMA FlushSound ==
  ASSUME NEW i, NEW c, Sound(c), c.st = "open", NEW fresh, NEW r \in Flush(i, c, fresh)
  PROVE  Sound(r.c)
<1> DEFINE b == c.buf[1]
           d == SetupConn(i, c, b.data)
<1>1. Sound(d)
  BY SetupSound
<1>2. r \in FlushBuf(i, d, b, fresh)
  BY DEF Flush
<1> HIDE DEF b, d
<1>3. CASE d.st = "closed"
  BY <1>1, <1>2, <1>3 DEF FlushBuf
<1>4. CASE d.st /= "closed"
  <2>1. PICK q : r.c = Flushed(d, b, q)
    BY <1>2, <1>4 DEF FlushBuf
  <2> DEFINE e == Sent(d, q)
             more == IF d.rm /= "out" /\ ~d.timer /\ ~q.wait THEN {"pause"} ELSE {}
  <2>2. Same(d, e)
    BY <1>1, SentSame DEF Sound
  <2>3. \/ r.c = [e EXCEPT !.buf = Some([data |-> q.data, off |-> b.off + q.sn]),
                           !.timer = @ \/ q.wait, !.upset = @ \cup more]
        \/ r.c = [e EXCEPT !.buf = None, !.cm = "in", !.rm = "in"]
    BY <2>1 DEF Flushed
  <2> HIDE DEF e, more
  <2>4. Same(d, r.c)
    BY <2>2, <2>3 DEF Same, Relevant
  <2> QED BY <1>1, <2>4, SameSound
<1> QED BY <1>3, <1>4

\* A send that fails is taken for a reset (on_torst).
LEMMA SendFailsSound ==
  ASSUME NEW i, NEW c, Sound(c), Live(c), NEW data, NEW r \in SendFails(i, c, data)
  PROVE  Sound(r.c)
<1>1. PICK q \in OnTorst(i, c) : r = q \/ r = [q EXCEPT !.c = CutReplay(q.c, data)]
  BY DEF SendFails
<1>2. Sound(q.c) /\ "c" \in DOMAIN q
  BY OnTorstSound
<1>3. Same(q.c, CutReplay(q.c, data))
  BY <1>2 DEF Same, Sound, CutReplay, Relevant
<1>4. Sound(CutReplay(q.c, data))
  BY <1>2, <1>3, SameSound
<1>5. r.c = q.c \/ r.c = CutReplay(q.c, data)
  BY <1>1, <1>2
<1> QED BY <1>2, <1>4, <1>5

\* A request is sent on, desynchronised or not, replayed or not.
LEMMA SendOnSound ==
  ASSUME NEW i, NEW c, Sound(c), c.st \in {"open", "closed"}, NEW data,
         NEW r \in SendOn(i, c, data)
  PROVE  Sound(r.c)
<1> DEFINE late == c.roundSent /= 0 /\ CheckRound(s.grp[c.dp[1]].rounds, c.round)
           d == [c EXCEPT !.upset = @ \cup IF late THEN {"reads"} ELSE {}]
<1>1. CASE c.st = "closed"
  BY <1>1 DEF SendOn
<1>2. CASE c.st = "open"
  <2>1. r \in SendData(i, d, data)
    BY <1>2 DEF SendOn
  <2> HIDE DEF late
  <2>2. Same(c, d)
    BY DEF Same, Sound, Relevant
  <2> HIDE DEF d
  <2>3. Sound(d) /\ Live(d)
    BY <1>2, <2>2, SameSound DEF Same, Live
  <2>4. PICK q : r \in {[s |-> s, c |-> PassedOn(d, q)]} \cup SendFails(i, d, q.data)
    BY <2>1 DEF SendData
  <2>5. Same(d, Sent(d, q))
    BY <2>3, SentSame DEF Sound
  <2>6. Same(d, PassedOn(d, q))
    BY <2>5 DEF Same, PassedOn, Park, Relevant
  <2>7. Sound(PassedOn(d, q))
    BY <2>3, <2>6, SameSound
  <2> QED BY <2>3, <2>4, <2>7, SendFailsSound
<1> QED BY <1>1, <1>2

\* What a client sends is stored only while nothing was stored before or it
\* is the first thing sent.
LEMMA RecvClientSound ==
  ASSUME NEW c, Sound(c), Live(c), NEW n \in Nat \ {0}
  PROVE  /\ Sound(RecvClient(c, n)) /\ RecvClient(c, n).st = c.st
         /\ RecvClient(c, n).dp = c.dp
<1> DEFINE d == RecvClient(c, n)
<1>1. /\ Relevant \subseteq DOMAIN d /\ d.st = c.st /\ d.dp = c.dp /\ d.mask = c.mask
      /\ d.failed = c.failed /\ d.heard = c.heard /\ d.inst = c.inst
      /\ d.upset = c.upset /\ d.cm = c.cm /\ d.rbuf = c.rbuf /\ d.recv = c.recv + n
  BY DEF RecvClient, Sound, Relevant
<1>2. c.sq = None /\ c.recv > 0 => d.sq = None
  BY DEF RecvClient, Sound, Relevant
<1> HIDE DEF d
<1>3. Sound(d)
  BY <1>1, <1>2 DEF Sound, RulesOut, NothingToReplay, Live
<1> QED BY <1>1, <1>3 DEF d

-----------------------------------------------------------------------------
(* Answers *)

\* An answer is forwarded after the request was received and freed.
LEMMA ForwardSound ==
  ASSUME NEW c, Sound(c), c.st = "open", c.sq = None,
         "banner" \notin c.upset => c.recv > 0, NEW r \in Forward(c)
  PROVE  Sound(r.c) /\ "s" \in DOMAIN r
<1> DEFINE now == [c EXCEPT !.heard = @ \cup {c.inst}, !.rroundSent = @ + 1]
           later == [c EXCEPT !.rbuf = TRUE, !.rm = "none", !.cm = "out"]
<1>1. "s" \in DOMAIN r /\ (r.c = now \/ r.c = later)
  BY DEF Forward
<1>2. /\ Relevant \subseteq DOMAIN now /\ now.st = c.st /\ now.dp = c.dp
      /\ now.mask = c.mask /\ now.failed = c.failed /\ now.sq = c.sq /\ now.recv = c.recv
      /\ now.heard = c.heard \cup {c.inst} /\ now.inst = c.inst /\ now.upset = c.upset
      /\ now.cm = c.cm /\ now.rbuf = c.rbuf
  BY DEF Sound, Relevant
<1>3. /\ Relevant \subseteq DOMAIN later /\ later.st = c.st /\ later.dp = c.dp
      /\ later.mask = c.mask /\ later.failed = c.failed /\ later.sq = c.sq
      /\ later.recv = c.recv /\ later.heard = c.heard /\ later.inst = c.inst
      /\ later.upset = c.upset
  BY DEF Sound, Relevant
<1> HIDE DEF now, later
<1>4. Sound(now) /\ Sound(later)
  BY <1>2, <1>3 DEF Sound, RulesOut, NothingToReplay, Live
<1> QED BY <1>1, <1>4

\* free_first_req: there is nothing to replay from then on.
LEMMA FreeFirstReqSound ==
  ASSUME NEW c, Sound(c)
  PROVE  LET d == FreeFirstReq(c)
         IN /\ Sound(d) /\ d.sq = None /\ d.st = c.st /\ d.upset = c.upset
            /\ d.recv = c.recv
<1> DEFINE d == FreeFirstReq(c)
<1>1. /\ Relevant \subseteq DOMAIN d /\ d.st = c.st /\ d.dp = c.dp /\ d.mask = c.mask
      /\ d.failed = c.failed /\ d.sq = None /\ d.recv = c.recv /\ d.heard = c.heard
      /\ d.inst = c.inst /\ d.upset = c.upset /\ d.cm = c.cm /\ d.rbuf = c.rbuf
  BY DEF FreeFirstReq, Sound, Relevant
<1> HIDE DEF d
<1>2. Sound(d)
  BY <1>1 DEF Sound, RulesOut, NothingToReplay, Live
<1> QED BY <1>1, <1>2 DEF d

\* on_response and what tcp_recv_hook makes of its result.
LEMMA OnResponseSound ==
  ASSUME NEW i, NEW c, Sound(c), c.st = "open", "banner" \notin c.upset => c.recv > 0,
         NEW k, NEW r \in OnResponse(i, c, k)
  PROVE  Sound(r.c)
<1> DEFINE mask == c.mask \cup {c.dp[1]}
           d == [c EXCEPT !.mask = mask]
           waiting == SelectSeq(Groups(s), LAMBDA g : g \notin mask /\ Detects(s.grp[g], Req(i), k))
<1>1. r \in ResponseIn(i, d, waiting)
  BY DEF OnResponse
<1> HIDE DEF waiting
<1>2. Same(c, d)
  BY DEF Same, Sound, Relevant
<1> HIDE DEF d
<1>3. Sound(d) /\ Live(d) /\ d.st = "open" /\ ("banner" \notin d.upset => d.recv > 0)
  BY <1>2, SameSound DEF Same, Live
<1>4. ASSUME NEW e, StaysOpen(d, e), NEW q \in Forward(FreeFirstReq(e))
      PROVE  Sound(q.c) /\ "s" \in DOMAIN q
  BY <1>3, <1>4, FreeFirstReqSound, ForwardSound DEF StaysOpen
<1>5. StaysOpen(d, d)
  BY <1>3 DEF StaysOpen
<1>6. CASE waiting = <<>>
  BY <1>1, <1>4, <1>5, <1>6 DEF ResponseIn
<1>7. CASE waiting /= <<>>
  <2>1. PICK t \in OnTrigger(i, d, s.grp[waiting[1]].detect, TRUE) : r \in Responded(d, t)
    BY <1>1, <1>7 DEF ResponseIn
  <2>2. /\ t.why = "" => Sound(t.c)
        /\ t.why = "trigger" => Same(d, t.c)
        /\ t.why \notin {"", "trigger"} => StaysOpen(d, Kept(d, t.c))
    BY <1>3, OnTriggerSound
  <2>3. CASE t.why = ""
    BY <2>1, <2>2, <2>3 DEF Responded
  <2>4. CASE t.why /= ""
    <3> DEFINE e == IF t.why = "trigger" THEN t.c ELSE Kept(d, t.c)
    <3>1. StaysOpen(d, e)
      BY <1>3, <2>2, <2>4, SameSound DEF StaysOpen, Same
    <3>2. r \in {[q EXCEPT !.s = t.s] : q \in Forward(FreeFirstReq(e))}
      BY <2>1, <2>4 DEF Responded, Kept
    <3> HIDE DEF e
    <3>3. PICK q \in Forward(FreeFirstReq(e)) : r = [q EXCEPT !.s = t.s]
      BY <3>2
    <3>4. Sound(q.c) /\ "c" \in DOMAIN q
      BY <1>4, <3>1 DEF Forward
    <3> QED BY <3>3, <3>4
  <2> QED BY <2>3, <2>4
<1> QED BY <1>6, <1>7

\* The connection after an answer was received, the events noted.
Noted(c, k) ==
  [RecvRemote(c, k) EXCEPT !.upset = @ \cup (IF c.recv = 0 THEN {"banner"} ELSE {})
                                       \cup (IF c.buf /= None THEN {"early"} ELSE {})]

\* An answer leaves a sound connection that has a request to answer, or is
\* noted as the answer to none.
LEMMA RecvRemoteSound ==
  ASSUME NEW c, Sound(c), c.st = "open", NEW k
  PROVE  LET d == Noted(c, k)
         IN Sound(d) /\ d.st = "open" /\ ("banner" \notin d.upset => d.recv > 0)
<1> DEFINE e == RecvRemote(c, k)
           d == Noted(c, k)
<1>1. Same(c, e) /\ e.upset = c.upset
  BY DEF RecvRemote, WatchRecords, Same, Sound, Relevant
<1>2. d = [e EXCEPT !.upset = @ \cup (IF c.recv = 0 THEN {"banner"} ELSE {})
                              \cup (IF c.buf /= None THEN {"early"} ELSE {})]
  BY DEF Noted
<1> HIDE DEF e, d
<1>3. Same(c, d) /\ ("banner" \notin d.upset => c.recv /= 0)
  BY <1>1, <1>2 DEF Same, Relevant
<1>4. Sound(d) /\ d.st = "open" /\ ("banner" \notin d.upset => d.recv > 0)
  BY <1>3, SameSound DEF Same, Sound
<1> QED BY <1>4 DEF d

\* An answer that waits may be sent: it was received after the request, which
\* is no longer stored.
LEMMA SendAnswerSound ==
  ASSUME NEW c, Sound(c), c.st = "open", c.cm = "out" \/ c.rbuf
  PROVE  Sound(SendAnswer(c)) /\ SendAnswer(c).st = "open"
<1> DEFINE d == SendAnswer(c)
<1>1. /\ Relevant \subseteq DOMAIN d /\ d.st = c.st /\ d.cm = "in" /\ ~d.rbuf /\ d.dp = c.dp
      /\ d.mask = c.mask /\ d.failed = c.failed /\ d.sq = c.sq /\ d.recv = c.recv
      /\ d.heard = c.heard \cup {c.inst} /\ d.inst = c.inst /\ d.upset = c.upset
  BY DEF SendAnswer, Sound, Relevant
<1> HIDE DEF d
<1>2. Sound(d)
  BY <1>1 DEF Sound, RulesOut, NothingToReplay, Live
<1> QED BY <1>1, <1>2 DEF d

-----------------------------------------------------------------------------
(* Every step *)

\* At first no connection exists.
LEMMA InitSound == Init => AllSound
<1>1. Sound(NewConn)
  BY DEF Sound, NewConn, RulesOut, NothingToReplay, Live, Relevant
<1> QED BY <1>1 DEF Init, AllSound

\* A handler that leaves its connection sound leaves them all sound.
LEMMA PutSound ==
  ASSUME AllSound, NEW i \in DOMAIN conn, NEW r, Sound(r.c), Put(i, r)
  PROVE  AllSound'
BY DEF AllSound, Put, Sound, RulesOut, NothingToReplay, Live

\* connect_hook, for a request with an address.
LEMMA ConnectKeeps == ASSUME AllSound, NEW i \in Conns, Connect(i) PROVE AllSound'
<1> DEFINE R == ConnectHook(i, s, conn[i])
<1>1. PICK r \in Settle(R) : Put(i, r)
  BY DEF Connect
<1>2. Sound(conn[i]) /\ conn[i].st = "idle"
  BY DEF AllSound, Conns, Connect
<1>3. Ready(conn[i])
  BY <1>2 DEF Sound, RulesOut, NothingToReplay, Ready
<1>4. \A q \in R : "c" \in DOMAIN q /\ (q.why = "" => Sound(q.c))
  BY <1>3, ConnectHookSound
<1> HIDE DEF R
<1>5. Sound(r.c)
  BY <1>4, SettleSound
<1> QED BY <1>1, <1>5, PutSound DEF Conns

\* The first request, when the connection waited for it.
LEMMA DelayedRequestKeeps ==
  ASSUME AllSound, NEW i \in Conns, DelayedRequest(i) PROVE AllSound'
<1>1. Sound(conn[i]) /\ conn[i].st = "delayed"
  BY DEF AllSound, Conns, DelayedRequest
<1>2. PICK n \in 1..sc.bytes :
        LET d == [RecvClient(conn[i], n) EXCEPT !.buf = Some([data |-> Bytes(n), off |-> 0])]
        IN \E r \in Settle(ConnectHook(i, s, d)) : Put(i, r)
  BY DEF DelayedRequest
<1> DEFINE e == RecvClient(conn[i], n)
           d == [e EXCEPT !.buf = Some([data |-> Bytes(n), off |-> 0])]
           R == ConnectHook(i, s, d)
<1>3. PICK r \in Settle(R) : Put(i, r)
  BY <1>2
<1>4. Sound(e) /\ e.st = "delayed"
  BY <1>1, RecvClientSound DEF Live
<1> HIDE DEF e
<1>5. Same(e, d)
  BY <1>4 DEF Same, Sound, Relevant
<1> HIDE DEF d
<1>6. Sound(d) /\ d.st = "delayed"
  BY <1>4, <1>5, SameSound DEF Same
<1>7. Ready(d)
  BY <1>6 DEF Sound, RulesOut, NothingToReplay, Ready, Live
<1>8. \A q \in R : "c" \in DOMAIN q /\ (q.why = "" => Sound(q.c))
  BY <1>7, ConnectHookSound
<1> HIDE DEF R
<1>9. Sound(r.c)
  BY <1>8, SettleSound
<1> QED BY <1>3, <1>9, PutSound DEF Conns

\* A step of the handshake with the outgoing proxy.
LEMMA SocksStepKeeps == ASSUME AllSound, NEW i \in Conns, SocksStep(i) PROVE AllSound'
<1> DEFINE d == [conn[i] EXCEPT !.hs = @ + 1, !.rm = "in"]
           r == [s |-> s, c |-> d]
<1>1. Sound(conn[i]) /\ Put(i, r)
  BY DEF AllSound, Conns, SocksStep
<1>2. Same(conn[i], d)
  BY <1>1 DEF Same, Sound, Relevant
<1>3. Sound(r.c)
  BY <1>1, <1>2, SameSound
<1> QED BY <1>1, <1>3, PutSound DEF Conns

\* on_connect, when the remote answered.
LEMMA ConnectedKeeps == ASSUME AllSound, NEW i \in Conns, Connected(i) PROVE AllSound'
<1> DEFINE c == conn[i]
           d == [c EXCEPT !.st = "open", !.cm = "in", !.rm = "in"]
<1>1. Sound(c) /\ c.st = "connecting"
  BY DEF AllSound, Conns, Connected
<1>2. PICK r \in (IF d.buf = None THEN {[s |-> s, c |-> d]} ELSE Flush(i, d, TRUE)) : Put(i, r)
  BY DEF Connected
<1>3. /\ Relevant \subseteq DOMAIN d /\ d.st = "open" /\ d.cm = "in" /\ d.rbuf = c.rbuf
      /\ d.dp = c.dp /\ d.mask = c.mask /\ d.failed = c.failed /\ d.sq = c.sq
      /\ d.recv = c.recv /\ d.heard = c.heard /\ d.inst = c.inst /\ d.upset = c.upset
  BY <1>1 DEF Sound, Relevant
<1> HIDE DEF d, c
<1>4. Sound(d)
  BY <1>1, <1>3 DEF Sound, RulesOut, NothingToReplay, Live
<1>5. Sound(r.c)
  <2>1. CASE d.buf = None
    BY <1>2, <1>4, <2>1
  <2>2. CASE d.buf /= None
    BY <1>2, <1>3, <1>4, <2>2, FlushSound
  <2> QED BY <2>1, <2>2
<1> QED BY <1>2, <1>5, PutSound DEF Conns

\* on_connect, when it refused or could not be reached.
LEMMA ConnectFailsKeeps ==
  ASSUME AllSound, NEW i \in Conns, ConnectFails(i) PROVE AllSound'
<1> DEFINE R == OnTrigger(i, conn[i], {"connect"}, TRUE)
<1>1. Sound(conn[i]) /\ Live(conn[i])
  BY DEF AllSound, Conns, ConnectFails, Live
<1>2. \A q \in R : "c" \in DOMAIN q /\ (q.why = "" => Sound(q.c))
  BY <1>1, OnTriggerSound
<1>3. \/ \E r \in Settle(R) : Put(i, r)
      \/ Put(i, [s |-> s, c |-> Close(conn[i], "error")])
  BY DEF ConnectFails
<1> HIDE DEF R
<1>4. \A r \in Settle(R) : Sound(r.c)
  BY <1>2, SettleSound
<1>5. PICK r : Put(i, r) /\ Sound(r.c)
  BY <1>3, <1>4, CloseSound
<1> QED BY <1>5, PutSound DEF Conns

\* on_tunnel, for data of the client.
LEMMA ClientDataKeeps == ASSUME AllSound, NEW i \in Conns, ClientData(i) PROVE AllSound'
<1> DEFINE c == conn[i]
           Data(n) == [k \in 1..n |-> c.recv + k]
<1>1. Sound(c) /\ c.st = "open"
  BY DEF AllSound, Conns, ClientData
<1>2. \/ \E r \in Flush(i, c, FALSE) : Put(i, r)
      \/ \E n \in 1..(sc.bytes - c.recv) :
           \E r \in SendOn(i, SetupConn(i, RecvClient(c, n), Data(n)), Data(n)) : Put(i, r)
  BY DEF ClientData
<1> HIDE DEF Data, c
<1>3. CASE \E r \in Flush(i, c, FALSE) : Put(i, r)
  BY <1>1, <1>3, FlushSound, PutSound DEF Conns
<1>4. ASSUME NEW n \in 1..(sc.bytes - c.recv),
             NEW r \in SendOn(i, SetupConn(i, RecvClient(c, n), Data(n)), Data(n)), Put(i, r)
      PROVE  AllSound'
  <2> DEFINE e == RecvClient(c, n)
             d == SetupConn(i, e, Data(n))
  <2>1. Sound(e) /\ e.st = "open"
    BY <1>1, RecvClientSound DEF Live
  <2> HIDE DEF e
  <2>2. Sound(d) /\ d.st \in {"open", "closed"}
    BY <2>1, SetupSound
  <2> HIDE DEF d
  <2>3. r \in SendOn(i, d, Data(n))
    BY <1>4 DEF d, e
  <2>4. Sound(r.c)
    BY <2>2, <2>3, SendOnSound
  <2> QED BY <1>4, <2>4, PutSound DEF Conns
<1> QED BY <1>2, <1>3, <1>4

\* on_tunnel, when the remote takes data again.
LEMMA RemoteWritableKeeps ==
  ASSUME AllSound, NEW i \in Conns, RemoteWritable(i) PROVE AllSound'
<1>1. Sound(conn[i]) /\ conn[i].st = "open" /\ Live(conn[i])
  BY DEF AllSound, Conns, RemoteWritable, Live
<1>2. PICK r \in Flush(i, conn[i], FALSE) \cup OnTorst(i, conn[i]) : Put(i, r)
  BY DEF RemoteWritable
<1>3. Sound(r.c)
  BY <1>1, FlushSound, OnTorstSound
<1> QED BY <1>2, <1>3, PutSound DEF Conns

\* The timer of the remote ran out.
LEMMA TimerKeeps == ASSUME AllSound, NEW i \in Conns, Timer(i) PROVE AllSound'
<1> DEFINE c == conn[i]
           d == [c EXCEPT !.timer = FALSE]
           e == [d EXCEPT !.toCount = @ + 1]
           f == [c EXCEPT !.toCount = @ + 1]
<1>1. Sound(c)
  BY DEF AllSound, Conns
<1>2. Same(c, d) /\ Same(c, e) /\ Same(c, f)
  BY <1>1 DEF Same, Sound, Relevant
<1>3. d.st = "open"
  BY DEF Timer
<1>4. \/ \E r \in OnTorst(i, e) : Put(i, r)
      \/ Put(i, [s |-> s, c |-> f])
      \/ Put(i, [s |-> s, c |-> d])
      \/ \E r \in Flush(i, d, FALSE) : Put(i, r)
  BY Zenon DEF Timer
<1> HIDE DEF c, d, e, f
<1>5. /\ Sound(d) /\ Sound(e) /\ Sound(f)
      /\ d.st = "open" /\ Live(e)
  BY <1>1, <1>2, <1>3, SameSound DEF Same, Live
<1>6. \A r \in OnTorst(i, e) : Sound(r.c)
  BY <1>5, OnTorstSound
<1>7. \A r \in Flush(i, d, FALSE) : Sound(r.c)
  BY <1>5, FlushSound
<1>8. PICK r : Put(i, r) /\ Sound(r.c)
  <2>1. Sound([s |-> s, c |-> f].c) /\ Sound([s |-> s, c |-> d].c)
    BY <1>5
  <2> QED BY <1>4, <1>6, <1>7, <2>1, Zenon
<1> QED BY <1>8, PutSound DEF Conns

\* on_tunnel, for an answer of the remote.
LEMMA AnswerKeeps ==
  ASSUME AllSound, NEW i \in Conns, NEW k \in Answers, Answer(i, k) PROVE AllSound'
<1> DEFINE c == IF conn[i].rbuf THEN SendAnswer(conn[i]) ELSE conn[i]
           d == Noted(c, k)
<1>1. Sound(conn[i]) /\ conn[i].st = "open"
  BY DEF AllSound, Conns, Answer
<1>2. Sound(c) /\ c.st = "open"
  BY <1>1, SendAnswerSound
<1>3. PICK r \in (IF d.sq /= None THEN OnResponse(i, d, k) ELSE Forward(d)) : Put(i, r)
  BY DEF Answer, Noted
<1> HIDE DEF c
<1>4. Sound(d) /\ d.st = "open" /\ ("banner" \notin d.upset => d.recv > 0)
  BY <1>2, RecvRemoteSound
<1> HIDE DEF d
<1>5. Sound(r.c)
  <2>1. CASE d.sq /= None
    BY <1>3, <1>4, <2>1, OnResponseSound
  <2>2. CASE d.sq = None
    BY <1>3, <1>4, <2>2, ForwardSound
  <2> QED BY <2>1, <2>2
<1> QED BY <1>3, <1>5, PutSound DEF Conns

\* on_tunnel, when the client takes data again.
LEMMA ClientWritableKeeps ==
  ASSUME AllSound, NEW i \in Conns, ClientWritable(i) PROVE AllSound'
<1> DEFINE r == [s |-> s, c |-> SendAnswer(conn[i])]
<1>1. Sound(conn[i]) /\ conn[i].st = "open" /\ conn[i].cm = "out" /\ Put(i, r)
  BY DEF AllSound, Conns, ClientWritable
<1>2. Sound(r.c)
  BY <1>1, SendAnswerSound
<1> QED BY <1>1, <1>2, PutSound DEF Conns

\* RemoteEnd, RemoteReset and ClientEnd.
LEMMA EndKeeps ==
  ASSUME AllSound, NEW i \in Conns, RemoteEnd(i) \/ RemoteReset(i) \/ ClientEnd(i)
  PROVE  AllSound'
<1>1. Sound(conn[i])
  BY DEF AllSound, Conns
<1>2. ASSUME conn[i].st = "open", NEW byClient
      PROVE  \A r \in OnFin(i, conn[i], byClient) \cup OnTorst(i, conn[i]) : Sound(r.c)
  BY <1>1, <1>2, OnFinSound, OnTorstSound DEF Live
<1>3. \/ Put(i, [s |-> s, c |-> Close(conn[i], "end")])
      \/ /\ conn[i].st = "open"
         /\ \E byClient : \E r \in OnFin(i, conn[i], byClient) \cup OnTorst(i, conn[i]) : Put(i, r)
  BY DEF RemoteEnd, RemoteReset, ClientEnd
<1>4. PICK r : Put(i, r) /\ Sound(r.c)
  BY <1>2, <1>3, CloseSound
<1> QED BY <1>4, PutSound DEF Conns

\* A restart of the process drops every connection.
LEMMA RestartKeeps == ASSUME AllSound, NEW signal, Restart(signal) PROVE AllSound'
<1>1. conn' = [i \in DOMAIN conn |-> IF conn[i].st \in {"idle", "closed"} THEN conn[i]
                                     ELSE Close(conn[i], "restart")]
  BY DEF Restart, Conns
<1>2. \A i \in DOMAIN conn : Sound(conn'[i])
  BY <1>1, CloseSound DEF AllSound
<1> QED BY <1>1, <1>2 DEF AllSound, Sound, RulesOut, NothingToReplay, Live

\* Every step keeps every connection sound.
LEMMA StepSound == AllSound /\ [Next]_vars => AllSound'
<1> SUFFICES ASSUME AllSound, [Next]_vars PROVE AllSound'
  OBVIOUS
<1>1. CASE Age \/ UNCHANGED vars
  BY <1>1 DEF Age, vars, AllSound, Sound, RulesOut, NothingToReplay, Live
<1>2. CASE \E signal \in BOOLEAN : Restart(signal)
  BY <1>2, RestartKeeps
<1>3. ASSUME NEW i \in Conns,
             \/ Connect(i) \/ DelayedRequest(i) \/ SocksStep(i) \/ Connected(i)
             \/ ConnectFails(i) \/ ClientData(i) \/ RemoteWritable(i) \/ Timer(i)
             \/ \E k \in Answers : Answer(i, k)
             \/ ClientWritable(i) \/ RemoteEnd(i) \/ RemoteReset(i) \/ ClientEnd(i)
      PROVE  AllSound'
  BY <1>3, ConnectKeeps, DelayedRequestKeeps, SocksStepKeeps, ConnectedKeeps,
     ConnectFailsKeeps, ClientDataKeeps, RemoteWritableKeeps, TimerKeeps, AnswerKeeps,
     ClientWritableKeeps, EndKeeps
<1> QED BY <1>1, <1>2, <1>3 DEF Next

-----------------------------------------------------------------------------
(* Theorems *)

\* Every connection is sound in every reachable state: the inductive
\* invariant both theorems below rest on.
THEOREM ConnectionsSound == Spec => []AllSound
<1> QED BY InitSound, StepSound, PTL DEF Spec

\* No connection is given a group it has failed with, however the list of
\* groups is sorted and whatever the cache remembers: on_trigger and
\* on_response rule a group out before connect_hook and setup_conn choose.
THEOREM FailedGroupsStayOut == Spec => []NoGroupTwice
<1>1. AllSound => NoGroupTwice
  BY DEF AllSound, NoGroupTwice, Conns, Sound, RulesOut
<1> QED BY <1>1, ConnectionsSound, PTL

\* A client never hears two servers: once an answer went to it, or waits to,
\* the request is no longer stored and nothing is replayed to another
\* connection (free_first_req before the answer is sent, can_reconn).
THEOREM ClientHearsOneServer == Spec => []OneServer
<1>1. AllSound => OneServer
  <2> SUFFICES ASSUME AllSound, NEW i \in DOMAIN conn, "banner" \notin conn[i].upset
               PROVE  Cardinality(conn[i].heard) <= 1
    BY DEF OneServer, Conns
  <2>1. conn[i].heard \subseteq {conn[i].inst}
    BY DEF AllSound, Sound, NothingToReplay
  <2>2. conn[i].heard = {} \/ conn[i].heard = {conn[i].inst}
    BY <2>1
  <2>3. Cardinality({}) = 0 /\ Cardinality({conn[i].inst}) = 1
    BY FS_EmptySet, FS_Singleton
  <2> QED BY <2>2, <2>3
<1> QED BY <1>1, ConnectionsSound, PTL

-----------------------------------------------------------------------------
(* Triggers seen *)

\* The group of a connection is dp still, or one of whose triggers it has
\* seen one, or the one that the cache assigns to the address.
Earned(i, dp, st, c) ==
  \/ c.dp = dp \/ Fits(c.dp[1], c.detect, st)
  \/ dp = None /\ s.cache[Dst(i)] /= None /\ c.dp = Some(s.cache[Dst(i)][1].dp)

\* So for the result of a handler, unless it has closed the connection.
Earns(i, dp, r) == "c" \in DOMAIN r /\ "s" \in DOMAIN r /\ (Live(r.c) => Earned(i, dp, r.s, r.c))

\* A connection whose group and triggers are those of another.
Likewise(c, d) == d.st = c.st /\ d.dp = c.dp /\ d.detect = c.detect

\* connect_hook and reconnect, from whichever group they start at.
LEMMA ConnectFromEarns ==
  ASSUME NEW i, NEW st, NEW c, Relevant \subseteq DOMAIN c, NEW full
  PROVE  LET r == ConnectFrom(i, st, c, full)
         IN /\ "c" \in DOMAIN r /\ "s" \in DOMAIN r
            /\ r.c.dp = c.dp \/ Fits(r.c.dp[1], r.c.detect, r.s)
            /\ r.why = "" /\ c.dp[1] \in c.mask => Fits(r.c.dp[1], r.c.detect, r.s)
<1> DEFINE f == FindDp(st, c, IF c.buf = None THEN None ELSE Some(Req(i)), Dst(i))
           c1 == [c EXCEPT !.dp = f.dp, !.mask = f.mask]
           r == ConnectBy(st, c, f, full)
<1>1. f.dp = None \/ f.dp = c.dp \/ Fits(f.dp[1], c.detect, st)
  BY FindDpFits
<1>0. f.dp /= None => f.dp[1] \notin c.mask
  BY FindDpFresh
<1> HIDE DEF f
<1>2. c1.dp = f.dp /\ c1.detect = c.detect
  BY DEF Relevant
<1>3. [c EXCEPT !.mask = f.mask].dp = c.dp
  BY DEF Relevant
<1>4. /\ [c1 EXCEPT !.st = "delayed"].dp = f.dp
      /\ [c1 EXCEPT !.st = "delayed"].detect = c.detect
  BY DEF Relevant
<1>5. CreateConn(c1).dp = f.dp /\ CreateConn(c1).detect = c.detect
  BY DEF Relevant, CreateConn
<1> HIDE DEF c1
<1>6. /\ "c" \in DOMAIN r /\ "s" \in DOMAIN r /\ r.s = st
      /\ f.dp = None => r.c = [c EXCEPT !.mask = f.mask] /\ r.why /= ""
      /\ f.dp /= None => r.c \in {[c1 EXCEPT !.st = "delayed"], c1, CreateConn(c1)}
  BY DEF ConnectBy, c1
<1>7. ConnectFrom(i, st, c, full) = r
  BY DEF ConnectFrom, f
<1> HIDE DEF r
<1> QED BY <1>0, <1>1, <1>2, <1>3, <1>4, <1>5, <1>6, <1>7

\* connect_hook, whether or not it asks the cache.
LEMMA ConnectHookEarns ==
  ASSUME NEW i, NEW st, NEW c, Relevant \subseteq DOMAIN c, c.dp /= None \/ st = s,
         NEW r \in ConnectHook(i, st, c)
  PROVE  /\ Earns(i, c.dp, r)
         /\ r.why = "" /\ c.dp /= None /\ c.dp[1] \in c.mask => Fits(r.c.dp[1], r.c.detect, r.s)
<1>1. PICK e \in Lookup(st, c, Dst(i)), full \in NoSlot :
        r = ConnectFrom(i, [st EXCEPT !.cache = e.cache], Recall(c, e.found), full)
  BY DEF ConnectHook
<1> DEFINE d == Recall(c, e.found)
<1>2. /\ "c" \in DOMAIN r /\ "s" \in DOMAIN r
      /\ r.c.dp = d.dp \/ Fits(r.c.dp[1], r.c.detect, r.s)
      /\ r.why = "" /\ d.dp[1] \in d.mask => Fits(r.c.dp[1], r.c.detect, r.s)
  <2>1. Relevant \subseteq DOMAIN d
    BY DEF Recall
  <2> HIDE DEF d
  <2>2. r = ConnectFrom(i, [st EXCEPT !.cache = e.cache], d, full)
    BY <1>1 DEF d
  <2> QED BY <2>1, <2>2, ConnectFromEarns
<1>3. d = c \/ (c.dp = None /\ e.found /= None /\ d.dp = Some(e.found[1].dp))
  BY DEF Recall, Relevant
<1>4. c.dp = None => e.found = None \/ e.found = st.cache[Dst(i)]
  BY DEF Lookup, CacheGet
<1> HIDE DEF d
<1> QED BY <1>2, <1>3, <1>4 DEF Earns, Earned

\* A trigger: the connection is given a group that waits for this one.
LEMMA OnTriggerEarns ==
  ASSUME NEW i, NEW c, Sound(c), Live(c), NEW type, NEW alive,
         NEW r \in OnTrigger(i, c, type, alive)
  PROVE  /\ Earns(i, c.dp, r)
         /\ r.why = "" => Fits(r.c.dp[1], r.c.detect, r.s)
<1> DEFINE t == Trigger(s, c, Dst(i), type, alive)
           hit == [c EXCEPT !.mask = t.mask, !.detect = type]
           q == Replay([hit EXCEPT !.failed = @ \cup {c.dp[1]}])
<1>1. r \in IF t.retry THEN ConnectHook(i, t.s, q) ELSE {[s |-> t.s, c |-> hit, why |-> "trigger"]}
  BY DEF OnTrigger, Triggered
<1>0. c.dp[1] \in t.mask
  BY TriggerFacts
<1> HIDE DEF t
<1>2. hit.dp = c.dp /\ q.dp = c.dp /\ q.mask = t.mask /\ Relevant \subseteq DOMAIN q
  BY DEF Sound, Relevant, Replay
<1>3. c.dp /= None
  BY DEF Sound, RulesOut
<1> HIDE DEF hit, q
<1>4. CASE t.retry
  <2>1. r \in ConnectHook(i, t.s, q)
    BY <1>1, <1>4
  <2>2. Earns(i, q.dp, r) /\ (r.why = "" => Fits(r.c.dp[1], r.c.detect, r.s))
    BY <1>0, <1>2, <1>3, <2>1, ConnectHookEarns
  <2> QED BY <1>2, <2>2
<1>5. CASE ~t.retry
  <2>1. r = [s |-> t.s, c |-> hit, why |-> "trigger"]
    BY <1>1, <1>5
  <2>2. r.c = hit /\ r.why /= "" /\ "c" \in DOMAIN r /\ "s" \in DOMAIN r
    BY <2>1
  <2> QED BY <1>2, <2>2 DEF Earns, Earned
<1> QED BY <1>4, <1>5

\* A handler that fails closes: what stays open has been given a group that
\* waits for the trigger.
LEMMA SettleEarns ==
  ASSUME NEW i, NEW R,
         \A q \in R : "c" \in DOMAIN q /\ "s" \in DOMAIN q
                        /\ (q.why = "" => Fits(q.c.dp[1], q.c.detect, q.s)),
         NEW dp, NEW r \in Settle(R)
  PROVE  Earns(i, dp, r)
<1>1. PICK q \in R : r = IF q.why = "" THEN q ELSE [q EXCEPT !.c = Close(q.c, q.why)]
  BY DEF Settle
<1>2. Close(q.c, q.why).st = "closed"
  BY DEF Close, NewConn
<1> QED BY <1>1, <1>2 DEF Earns, Earned, Live

\* on_torst, on_fin and the trigger of a connection that failed.
LEMMA TriggeredEarns ==
  ASSUME NEW i, NEW c, Sound(c), Live(c), NEW dp, NEW type, NEW alive,
         NEW r \in Settle(OnTrigger(i, c, type, alive))
  PROVE  Earns(i, dp, r)
<1> DEFINE R == OnTrigger(i, c, type, alive)
<1>1. \A q \in R : "c" \in DOMAIN q /\ "s" \in DOMAIN q
                     /\ (q.why = "" => Fits(q.c.dp[1], q.c.detect, q.s))
  BY OnTriggerEarns DEF Earns
<1> HIDE DEF R
<1>2. r \in Settle(R)
  BY DEF R
<1> QED BY <1>1, <1>2, SettleEarns

\* A closed connection has no group.
LEMMA ClosedEarns ==
  ASSUME NEW i, NEW dp, NEW c, NEW why
  PROVE  Earns(i, dp, [s |-> s, c |-> Close(c, why)])
<1>1. Close(c, why).st = "closed"
  BY DEF Close, NewConn
<1> QED BY <1>1 DEF Earns, Live

\* on_fin
LEMMA OnFinEarns ==
  ASSUME NEW i, NEW c, Sound(c), Live(c), NEW dp, NEW byClient, NEW r \in OnFin(i, c, byClient)
  PROVE  Earns(i, dp, r)
<1>1. \/ r \in Settle(OnTrigger(i, c, {"tlserr"}, ~byClient))
      \/ r = [s |-> s, c |-> Close(c, "end")]
  BY DEF OnFin
<1> QED BY <1>1, TriggeredEarns, ClosedEarns

\* A connection whose group and triggers stay has earned what it had.
LEMMA LikewiseEarns ==
  ASSUME NEW i, NEW dp, NEW st, NEW c, Live(c) => Earned(i, dp, st, c), NEW d, Likewise(c, d)
  PROVE  Earns(i, dp, [s |-> st, c |-> d])
BY DEF Likewise, Earns, Earned, Live

\* setup_conn
LEMMA SetupEarns ==
  ASSUME NEW i, NEW c, Sound(c), NEW data
  PROVE  Live(SetupConn(i, c, data)) => Earned(i, c.dp, s, SetupConn(i, c, data))
<1> DEFINE f == FindDp(s, c, Some(Req(i)), Dst(i))
           d == [c EXCEPT !.dp = f.dp, !.mask = f.mask, !.mark = Req(i).kind = "tls"]
           shut == Close([c EXCEPT !.mask = f.mask], "nogroup")
<1>1. f.dp = None \/ f.dp = c.dp \/ Fits(f.dp[1], c.detect, s)
  BY FindDpFits
<1>2. \/ SetupConn(i, c, data) = c
      \/ SetupConn(i, c, data) = shut
      \/ f.dp /= None /\ SetupConn(i, c, data) = d
  BY DEF SetupConn, SetupBy
<1> HIDE DEF f
<1>3. d.dp = f.dp /\ d.detect = c.detect
  BY DEF Sound, Relevant
<1>4. shut.st = "closed"
  BY DEF Close, NewConn
<1> HIDE DEF d, shut
<1> QED BY <1>1, <1>2, <1>3, <1>4 DEF Earned, Live

\* A send leaves the group alone.
LEMMA SentLikewise ==
  ASSUME NEW c, Sound(c), NEW r
  PROVE  Likewise(c, Sent(c, r)) /\ Relevant \subseteq DOMAIN Sent(c, r)
BY DEF Likewise, Sent, Sound, Relevant

\* What was left of a request goes out.
LEMMA FlushEarns ==
  ASSUME NEW i, NEW c, Sound(c), c.st = "open", NEW fresh, NEW r \in Flush(i, c, fresh)
  PROVE  Earns(i, c.dp, r)
<1> DEFINE b == c.buf[1]
           d == SetupConn(i, c, b.data)
<1>1. Sound(d) /\ (Live(d) => Earned(i, c.dp, s, d))
  BY SetupSound, SetupEarns
<1>2. r \in FlushBuf(i, d, b, fresh)
  BY DEF Flush
<1> HIDE DEF b, d
<1>3. r = [s |-> s, c |-> d] \/ \E q : r = [s |-> s, c |-> Flushed(d, b, q)]
  BY <1>2 DEF FlushBuf
<1>4. ASSUME NEW q PROVE Likewise(d, Flushed(d, b, q))
  <2> DEFINE e == Sent(d, q)
             more == IF d.rm /= "out" /\ ~d.timer /\ ~q.wait THEN {"pause"} ELSE {}
             f == Flushed(d, b, q)
  <2>1. Likewise(d, e) /\ Relevant \subseteq DOMAIN e
    BY <1>1, SentLikewise
  <2>2. \/ f = [e EXCEPT !.buf = Some([data |-> q.data, off |-> b.off + q.sn]),
                         !.timer = @ \/ q.wait, !.upset = @ \cup more]
        \/ f = [e EXCEPT !.buf = None, !.cm = "in", !.rm = "in"]
    BY DEF Flushed
  <2> HIDE DEF e, more, f
  <2>3. Likewise(d, f)
    BY <2>1, <2>2 DEF Likewise, Relevant
  <2> QED BY <2>3 DEF f
<1>5. Likewise(d, d)
  BY DEF Likewise
<1> QED BY <1>1, <1>3, <1>4, <1>5, LikewiseEarns

\* A send that fails is taken for a reset (on_torst).
LEMMA SendFailsEarns ==
  ASSUME NEW i, NEW c, Sound(c), Live(c), NEW dp, NEW data, NEW r \in SendFails(i, c, data)
  PROVE  Earns(i, dp, r)
<1>1. PICK q \in OnTorst(i, c) : r = q \/ r = [q EXCEPT !.c = CutReplay(q.c, data)]
  BY DEF SendFails
<1>2. Sound(q.c) /\ Earns(i, dp, q)
  BY OnTorstSound, TriggeredEarns DEF OnTorst
<1> DEFINE d == CutReplay(q.c, data)
<1>3. Likewise(q.c, d)
  BY <1>2 DEF Likewise, Sound, CutReplay, Relevant
<1> HIDE DEF d
<1>4. CASE r = [q EXCEPT !.c = d]
  <2>1. "c" \in DOMAIN r /\ "s" \in DOMAIN r /\ r.c = d /\ r.s = q.s
    BY <1>2, <1>4 DEF Earns
  <2> QED BY <1>2, <1>3, <2>1 DEF Earns, Earned, Likewise, Live
<1> QED BY <1>1, <1>2, <1>4 DEF d

\* Data just received is sent on, with the group that setup_conn chose.
LEMMA SendOnEarns ==
  ASSUME NEW i, NEW c, Sound(c), c.st \in {"open", "closed"}, NEW dp,
         Live(c) => Earned(i, dp, s, c), NEW data, NEW r \in SendOn(i, c, data)
  PROVE  Earns(i, dp, r)
<1> DEFINE late == c.roundSent /= 0 /\ CheckRound(s.grp[c.dp[1]].rounds, c.round)
           d == [c EXCEPT !.upset = @ \cup IF late THEN {"reads"} ELSE {}]
<1>1. Likewise(c, c)
  BY DEF Likewise
<1>2. CASE c.st = "closed"
  <2>1. r = [s |-> s, c |-> c]
    BY <1>2 DEF SendOn
  <2> QED BY <1>1, <2>1, LikewiseEarns
<1>3. CASE c.st = "open"
  <2>1. r \in SendData(i, d, data)
    BY <1>3 DEF SendOn
  <2> HIDE DEF late
  <2>2. Same(c, d) /\ Likewise(c, d)
    BY DEF Same, Likewise, Sound, Relevant
  <2> HIDE DEF d
  <2>3. Sound(d) /\ Live(d)
    BY <1>3, <2>2, SameSound DEF Same, Live
  <2>4. PICK q : r \in {[s |-> s, c |-> PassedOn(d, q)]} \cup SendFails(i, d, q.data)
    BY <2>1 DEF SendData
  <2>5. Likewise(d, Sent(d, q)) /\ Relevant \subseteq DOMAIN Sent(d, q)
    BY <2>3, SentLikewise
  <2>6. Likewise(c, PassedOn(d, q))
    BY <2>2, <2>5 DEF Likewise, PassedOn, Park, Relevant
  <2>7. Earns(i, dp, [s |-> s, c |-> PassedOn(d, q)])
    BY <2>6, LikewiseEarns
  <2> QED BY <2>3, <2>4, <2>7, SendFailsEarns
<1> QED BY <1>2, <1>3

\* An answer that is forwarded leaves the group alone.
LEMMA ForwardLikewise ==
  ASSUME NEW c, Relevant \subseteq DOMAIN c, NEW r \in Forward(c)
  PROVE  Likewise(c, r.c) /\ r.s = s /\ "c" \in DOMAIN r /\ "s" \in DOMAIN r
<1> DEFINE now == [c EXCEPT !.heard = @ \cup {c.inst}, !.rroundSent = @ + 1]
           later == [c EXCEPT !.rbuf = TRUE, !.rm = "none", !.cm = "out"]
<1>1. Likewise(c, now) /\ Likewise(c, later)
  BY DEF Likewise, Relevant
<1>2. r = [s |-> s, c |-> now] \/ r = [s |-> s, c |-> later]
  BY DEF Forward
<1> HIDE DEF now, later
<1> QED BY <1>1, <1>2

\* So it does after the stored request was freed.
LEMMA ForwardFreed ==
  ASSUME NEW c, Relevant \subseteq DOMAIN c, NEW r \in Forward(FreeFirstReq(c))
  PROVE  Likewise(c, r.c) /\ r.s = s /\ "c" \in DOMAIN r /\ "s" \in DOMAIN r
<1>1. Likewise(c, FreeFirstReq(c)) /\ Relevant \subseteq DOMAIN FreeFirstReq(c)
  BY DEF FreeFirstReq, Likewise, Relevant
<1> QED BY <1>1, ForwardLikewise DEF Likewise

\* on_response: an answer that is a trigger is seen by the connection.
LEMMA OnResponseEarns ==
  ASSUME NEW i, NEW c, Sound(c), c.st = "open", NEW k, NEW r \in OnResponse(i, c, k)
  PROVE  Earns(i, c.dp, r)
<1> DEFINE mask == c.mask \cup {c.dp[1]}
           d == [c EXCEPT !.mask = mask]
           waiting == SelectSeq(Groups(s), LAMBDA g : g \notin mask /\ Detects(s.grp[g], Req(i), k))
<1>1. r \in ResponseIn(i, d, waiting)
  BY DEF OnResponse
<1> HIDE DEF waiting
<1>2. Same(c, d) /\ Likewise(c, d)
  BY DEF Same, Likewise, Sound, Relevant
<1> HIDE DEF d
<1>3. Sound(d) /\ Live(d) /\ Relevant \subseteq DOMAIN d
  BY <1>2, SameSound DEF Same, Live
<1>4. CASE waiting = <<>>
  <2>1. r \in Forward(FreeFirstReq(d))
    BY <1>1, <1>4 DEF ResponseIn
  <2>2. Likewise(d, r.c) /\ r.s = s /\ "c" \in DOMAIN r /\ "s" \in DOMAIN r
    BY <1>3, <2>1, ForwardFreed
  <2> QED BY <1>2, <2>2 DEF Likewise, Earns, Earned
<1>5. CASE waiting /= <<>>
  <2>1. PICK t \in OnTrigger(i, d, s.grp[waiting[1]].detect, TRUE) : r \in Responded(d, t)
    BY <1>1, <1>5 DEF ResponseIn
  <2>2. Earns(i, d.dp, t)
    BY <1>3, OnTriggerEarns
  <2>3. CASE t.why = ""
    BY <1>2, <2>1, <2>2, <2>3 DEF Responded, Likewise
  <2>4. CASE t.why /= ""
    <3> DEFINE e == IF t.why = "trigger" THEN t.c ELSE Kept(d, t.c)
    <3>1. Relevant \subseteq DOMAIN t.c
      <4>1. Same(d, t.c) \/ Sound(Kept(d, t.c))
        BY <1>3, <2>4, OnTriggerSound DEF StaysOpen
      <4> QED BY <4>1 DEF Same, Sound, Kept
    <3>2. Likewise(t.c, e) /\ Relevant \subseteq DOMAIN e
      BY <3>1 DEF Kept, Likewise, Relevant
    <3>3. r \in {[q EXCEPT !.s = t.s] : q \in Forward(FreeFirstReq(e))}
      BY <2>1, <2>4 DEF Responded, Kept
    <3> HIDE DEF e
    <3>4. PICK q \in Forward(FreeFirstReq(e)) : r = [q EXCEPT !.s = t.s]
      BY <3>3
    <3>5. Likewise(e, q.c) /\ "c" \in DOMAIN q /\ "s" \in DOMAIN q
      BY <3>2, ForwardFreed
    <3>6. Likewise(t.c, r.c) /\ r.s = t.s /\ "c" \in DOMAIN r /\ "s" \in DOMAIN r
      BY <3>2, <3>4, <3>5 DEF Likewise
    <3> QED BY <1>2, <2>2, <3>6 DEF Likewise, Earns, Earned, Live
  <2> QED BY <2>3, <2>4
<1> QED BY <1>4, <1>5

\* The steps that choose a group for a client that asks for a connection.
LEMMA RequestEarns ==
  ASSUME AllSound, NEW i \in Conns, Connect(i) \/ DelayedRequest(i)
  PROVE  \E r : Put(i, r) /\ Earns(i, conn[i].dp, r)
<1>1. Sound(conn[i])
  BY DEF AllSound, Conns
<1>2. ASSUME NEW c, Likewise(conn[i], c), Relevant \subseteq DOMAIN c,
             NEW r \in Settle(ConnectHook(i, s, c))
      PROVE  Earns(i, conn[i].dp, r)
  <2>1. PICK q \in ConnectHook(i, s, c) : r = IF q.why = "" THEN q ELSE [q EXCEPT !.c = Close(q.c, q.why)]
    BY DEF Settle
  <2>2. Earns(i, conn[i].dp, q)
    BY <1>2, ConnectHookEarns DEF Likewise
  <2>3. Close(q.c, q.why).st = "closed"
    BY DEF Close, NewConn
  <2> QED BY <2>1, <2>2, <2>3 DEF Earns, Live
<1>3. CASE Connect(i)
  <2>1. PICK r \in Settle(ConnectHook(i, s, conn[i])) : Put(i, r)
    BY <1>3 DEF Connect
  <2> QED BY <1>1, <1>2, <2>1 DEF Likewise, Sound
<1>4. CASE DelayedRequest(i)
  <2>1. PICK n \in 1..sc.bytes :
          LET d == [RecvClient(conn[i], n) EXCEPT !.buf = Some([data |-> Bytes(n), off |-> 0])]
          IN \E r \in Settle(ConnectHook(i, s, d)) : Put(i, r)
    BY <1>4 DEF DelayedRequest
  <2> DEFINE d == [RecvClient(conn[i], n) EXCEPT !.buf = Some([data |-> Bytes(n), off |-> 0])]
  <2>2. Likewise(conn[i], d) /\ Relevant \subseteq DOMAIN d
    BY <1>1 DEF Likewise, RecvClient, Sound, Relevant
  <2>3. PICK r \in Settle(ConnectHook(i, s, d)) : Put(i, r)
    BY <2>1
  <2> HIDE DEF d
  <2> QED BY <1>2, <2>2, <2>3
<1> QED BY <1>3, <1>4

\* The steps of a tunnel.
LEMMA TunnelEarns ==
  ASSUME AllSound, NEW i \in Conns,
         SocksStep(i) \/ Connected(i) \/ ClientData(i) \/ RemoteWritable(i) \/ Timer(i)
  PROVE  \E r : Put(i, r) /\ Earns(i, conn[i].dp, r)
<1> DEFINE c == conn[i]
<1>1. Sound(c)
  BY DEF AllSound, Conns
<1>2. ASSUME NEW d, Likewise(c, d) PROVE Earns(i, c.dp, [s |-> s, c |-> d])
  BY <1>2, LikewiseEarns DEF Earned
<1>3. CASE SocksStep(i)
  <2> DEFINE d == [c EXCEPT !.hs = @ + 1, !.rm = "in"]
  <2>1. Put(i, [s |-> s, c |-> d]) /\ Likewise(c, d)
    BY <1>1, <1>3 DEF SocksStep, Likewise, Sound, Relevant
  <2> HIDE DEF d
  <2> QED BY <1>2, <2>1
<1>4. CASE Connected(i)
  <2> DEFINE d == [c EXCEPT !.st = "open", !.cm = "in", !.rm = "in"]
  <2>1. PICK r \in (IF d.buf = None THEN {[s |-> s, c |-> d]} ELSE Flush(i, d, TRUE)) : Put(i, r)
    BY <1>4 DEF Connected
  <2>2. /\ Relevant \subseteq DOMAIN d /\ d.st = "open" /\ d.cm = "in" /\ d.rbuf = c.rbuf
        /\ d.dp = c.dp /\ d.mask = c.mask /\ d.failed = c.failed /\ d.sq = c.sq
        /\ d.recv = c.recv /\ d.heard = c.heard /\ d.inst = c.inst /\ d.upset = c.upset
        /\ c.st = "connecting"
    BY <1>1, <1>4 DEF Sound, Relevant, Connected
  <2> HIDE DEF d, c
  <2>3. Sound(d)
    BY <1>1, <2>2 DEF Sound, RulesOut, NothingToReplay, Live
  <2>4. CASE d.buf = None
    <3>1. r = [s |-> s, c |-> d]
      BY <2>1, <2>4
    <3>2. Earns(i, c.dp, r)
      BY <2>2, <3>1 DEF Earns, Earned
    <3> QED BY <2>1, <3>2 DEF c
  <2>5. CASE d.buf /= None
    <3>1. Earns(i, d.dp, r)
      BY <2>1, <2>2, <2>3, <2>5, FlushEarns
    <3> QED BY <2>1, <2>2, <3>1 DEF c
  <2> QED BY <2>4, <2>5
<1>5. CASE ClientData(i)
  <2> DEFINE Data(n) == [k \in 1..n |-> c.recv + k]
  <2>1. c.st = "open"
    BY <1>5 DEF ClientData
  <2>2. \/ \E r \in Flush(i, c, FALSE) : Put(i, r)
        \/ \E n \in 1..(sc.bytes - c.recv) :
             \E r \in SendOn(i, SetupConn(i, RecvClient(c, n), Data(n)), Data(n)) : Put(i, r)
    BY <1>5 DEF ClientData
  <2> HIDE DEF Data, c
  <2>3. ASSUME NEW n \in 1..(sc.bytes - c.recv),
               NEW r \in SendOn(i, SetupConn(i, RecvClient(c, n), Data(n)), Data(n)), Put(i, r)
        PROVE  Earns(i, c.dp, r)
    <3> DEFINE e == RecvClient(c, n)
               d == SetupConn(i, e, Data(n))
    <3>1. Sound(e) /\ e.st = "open" /\ e.dp = c.dp
      BY <1>1, <2>1, RecvClientSound DEF Live
    <3> HIDE DEF e
    <3>2. Sound(d) /\ d.st \in {"open", "closed"} /\ (Live(d) => Earned(i, c.dp, s, d))
      BY <3>1, SetupSound, SetupEarns
    <3> HIDE DEF d
    <3>3. r \in SendOn(i, d, Data(n))
      BY <2>3 DEF d, e
    <3> QED BY <3>2, <3>3, SendOnEarns
  <2>4. CASE \E r \in Flush(i, c, FALSE) : Put(i, r)
    BY <1>1, <2>1, <2>4, FlushEarns DEF c
  <2> QED BY <2>2, <2>3, <2>4 DEF c
<1>6. CASE RemoteWritable(i)
  <2>1. c.st = "open" /\ Live(c)
    BY <1>6 DEF RemoteWritable, Live
  <2>2. PICK r \in Flush(i, c, FALSE) \cup OnTorst(i, c) : Put(i, r)
    BY <1>6 DEF RemoteWritable
  <2>3. Earns(i, c.dp, r)
    BY <1>1, <2>1, FlushEarns, TriggeredEarns DEF OnTorst
  <2> QED BY <2>2, <2>3
<1>7. CASE Timer(i)
  <2> DEFINE d == [c EXCEPT !.timer = FALSE]
             e == [d EXCEPT !.toCount = @ + 1]
             f == [c EXCEPT !.toCount = @ + 1]
  <2>1. /\ Same(c, d) /\ Same(c, e) /\ Likewise(c, d) /\ Likewise(c, f)
    BY <1>1 DEF Same, Likewise, Sound, Relevant
  <2>2. d.st = "open"
    BY <1>7 DEF Timer
  <2>3. \/ \E r \in OnTorst(i, e) : Put(i, r)
        \/ Put(i, [s |-> s, c |-> f])
        \/ Put(i, [s |-> s, c |-> d])
        \/ \E r \in Flush(i, d, FALSE) : Put(i, r)
    BY <1>7, Zenon DEF Timer
  <2> HIDE DEF c, d, e, f
  <2>4. Sound(d) /\ Sound(e) /\ d.dp = c.dp /\ Live(e)
    BY <1>1, <2>1, <2>2, SameSound DEF Same, Live
  <2>5. \A r \in OnTorst(i, e) : Earns(i, c.dp, r)
    BY <2>4, TriggeredEarns DEF OnTorst
  <2>6. \A r \in Flush(i, d, FALSE) : Earns(i, c.dp, r)
    BY <2>2, <2>4, FlushEarns
  <2>7. Earns(i, c.dp, [s |-> s, c |-> f]) /\ Earns(i, c.dp, [s |-> s, c |-> d])
    BY <1>2, <2>1
  <2>8. \E r : Put(i, r) /\ Earns(i, c.dp, r)
    BY <2>3, <2>5, <2>6, <2>7, Zenon
  <2> QED BY <2>8 DEF c
<1> QED BY <1>3, <1>4, <1>5, <1>6, <1>7

\* The steps of the remote side, and the end of the client's.
LEMMA AnswerEarns ==
  ASSUME AllSound, NEW i \in Conns,
         \/ ConnectFails(i) \/ \E k \in Answers : Answer(i, k)
         \/ ClientWritable(i) \/ RemoteEnd(i) \/ RemoteReset(i) \/ ClientEnd(i)
  PROVE  \E r : Put(i, r) /\ Earns(i, conn[i].dp, r)
<1>1. Sound(conn[i])
  BY DEF AllSound, Conns
<1>2. ASSUME NEW c, Sound(c)
      PROVE  /\ Likewise(c, SendAnswer(c))
             /\ \A k : Likewise(c, Noted(c, k))
  <2>1. Likewise(c, SendAnswer(c))
    BY <1>2 DEF SendAnswer, Likewise, Sound, Relevant
  <2>2. ASSUME NEW k PROVE Likewise(c, Noted(c, k))
    <3> DEFINE e == RecvRemote(c, k)
               d == Noted(c, k)
    <3>1. Likewise(c, e) /\ Relevant \subseteq DOMAIN e
      BY <1>2 DEF RecvRemote, WatchRecords, Likewise, Sound, Relevant
    <3>2. d = [e EXCEPT !.upset = @ \cup (IF c.recv = 0 THEN {"banner"} ELSE {})
                                  \cup (IF c.buf /= None THEN {"early"} ELSE {})]
      BY DEF Noted
    <3> HIDE DEF e, d
    <3>3. Likewise(c, d)
      BY <3>1, <3>2 DEF Likewise, Relevant
    <3> QED BY <3>3 DEF d
  <2> QED BY <2>1, <2>2
<1>3. CASE ConnectFails(i)
  <2>1. Live(conn[i])
    BY <1>3 DEF ConnectFails, Live
  <2>2. PICK r \in Settle(OnTrigger(i, conn[i], {"connect"}, TRUE))
                     \cup {[s |-> s, c |-> Close(conn[i], "error")]} : Put(i, r)
    BY <1>3 DEF ConnectFails
  <2>3. Earns(i, conn[i].dp, r)
    BY <1>1, <2>1, TriggeredEarns, ClosedEarns
  <2> QED BY <2>2, <2>3
<1>4. ASSUME NEW k \in Answers, Answer(i, k)
      PROVE  \E r : Put(i, r) /\ Earns(i, conn[i].dp, r)
  <2> DEFINE c == IF conn[i].rbuf THEN SendAnswer(conn[i]) ELSE conn[i]
             d == Noted(c, k)
  <2>1. conn[i].st = "open"
    BY <1>4 DEF Answer
  <2>2. Sound(c) /\ Likewise(conn[i], c)
    BY <1>1, <1>2, <2>1, SendAnswerSound DEF Likewise
  <2>3. PICK r \in (IF d.sq /= None THEN OnResponse(i, d, k) ELSE Forward(d)) : Put(i, r)
    BY <1>4 DEF Answer, Noted
  <2> HIDE DEF c
  <2>4. Sound(d) /\ Likewise(conn[i], d) /\ d.st = "open"
    BY <1>2, <2>1, <2>2, RecvRemoteSound DEF Likewise
  <2> HIDE DEF d
  <2>5. CASE d.sq /= None
    <3>1. Earns(i, d.dp, r)
      BY <2>3, <2>4, <2>5, OnResponseEarns
    <3> QED BY <2>3, <2>4, <3>1 DEF Likewise
  <2>6. CASE d.sq = None
    <3>1. Likewise(d, r.c) /\ r.s = s /\ "c" \in DOMAIN r /\ "s" \in DOMAIN r
      BY <2>3, <2>4, <2>6, ForwardLikewise DEF Sound
    <3>2. Earns(i, conn[i].dp, r)
      BY <2>4, <3>1 DEF Likewise, Earns, Earned
    <3> QED BY <2>3, <3>2
  <2> QED BY <2>5, <2>6
<1>5. CASE ClientWritable(i)
  <2> DEFINE r == [s |-> s, c |-> SendAnswer(conn[i])]
  <2>1. Put(i, r)
    BY <1>5 DEF ClientWritable
  <2>2. Earns(i, conn[i].dp, r)
    BY <1>1, <1>2, LikewiseEarns DEF Earned
  <2> QED BY <2>1, <2>2
<1>6. CASE RemoteEnd(i) \/ RemoteReset(i) \/ ClientEnd(i)
  <2>1. ASSUME conn[i].st = "open", NEW byClient
        PROVE  \A r \in OnFin(i, conn[i], byClient) \cup OnTorst(i, conn[i]) : Earns(i, conn[i].dp, r)
    BY <1>1, <2>1, OnFinEarns, TriggeredEarns DEF Live, OnTorst
  <2>2. \/ Put(i, [s |-> s, c |-> Close(conn[i], "end")])
        \/ /\ conn[i].st = "open"
           /\ \E byClient : \E r \in OnFin(i, conn[i], byClient) \cup OnTorst(i, conn[i]) : Put(i, r)
    BY <1>6 DEF RemoteEnd, RemoteReset, ClientEnd
  <2> QED BY <2>1, <2>2, ClosedEarns
<1> QED BY <1>3, <1>4, <1>5, <1>6

\* A connection comes to use a group that waits for triggers only after one
\* of these was seen, or when the cache assigns the group to the address:
\* connect_hook and setup_conn choose with find_dp, and on_trigger rules out
\* the group in use before a replay, so that another one must fit.
THEOREM GroupsAreEarned == Spec => TriggerSeen
<1>1. AllSound /\ [Next]_vars =>
        [\A i \in Conns :
           LET c == conn'[i]
               d == s'.grp[c.dp[1]].detect
           IN (Live(c) /\ c.dp /= conn[i].dp)
                => \/ d = {} \/ d \cap c.detect /= {}
                   \/ conn[i].dp = None /\ s.cache[Dst(i)] /= None
                      /\ s.cache[Dst(i)][1].dp = c.dp[1]]_vars
  <2> SUFFICES ASSUME AllSound, Next, NEW j \in Conns, Live(conn'[j]), conn'[j].dp /= conn[j].dp
               PROVE  Earned(j, conn[j].dp, s', conn'[j])
    <3>1. \A g : Some(g)[1] = g
      BY DEF Some
    <3> QED BY <3>1 DEF Earned, Fits
  <2>1. ASSUME NEW i \in Conns, \E r : Put(i, r) /\ Earns(i, conn[i].dp, r)
        PROVE  Earned(j, conn[j].dp, s', conn'[j])
    BY <2>1 DEF Put, Earns, Conns
  <2>2. CASE Age
    BY <2>2 DEF Age
  <2>3. CASE \E signal \in BOOLEAN : Restart(signal)
    <3>1. conn'[j] = conn[j] \/ conn'[j] = Close(conn[j], "restart")
      BY <2>3 DEF Restart
    <3>2. Close(conn[j], "restart").st = "closed"
      BY DEF Close, NewConn
    <3> QED BY <3>1, <3>2 DEF Live
  <2> QED BY <2>1, <2>2, <2>3, RequestEarns, TunnelEarns, AnswerEarns DEF Next
<1> QED BY <1>1, ConnectionsSound, PTL DEF Spec, TriggerSeen
=============================================================================
