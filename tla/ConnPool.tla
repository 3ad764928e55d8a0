------------------------------ MODULE ConnPool ------------------------------
(***************************************************************************)
(* The event pool of the ByeDPI worker (conev.c, the poll branch that the  *)
(* Windows build compiles) and what the callbacks of proxy.c and extend.c  *)
(* do to it: accept, connect, UDP associate, tunnel, reconnect, tear-down. *)
(*                                                                         *)
(* Abstraction.  A connection is the value its add_event call got: fd is a *)
(* number never used again, so that a report delivered to the wrong        *)
(* connection shows.  mod_iter is compared only with pool->iters; `fresh`  *)
(* is that comparison.  Bytes, addresses and protocols are left to module  *)
(* Tunnel: each callback here chooses among the outcomes that differ in    *)
(* what they do to the pool.  The clock is whatever time_ms returns (on    *)
(* Windows its conversion to a 32-bit long is out of range): a deadline is *)
(* any member of Times and a timer may be found due at any call.  Buffers  *)
(* are left out; `keeps` says a client's request may still be replayed.    *)
(* getsockname on an open socket is assumed to succeed.                    *)
(***************************************************************************)
EXTENDS Integers, FiniteSets, FiniteSetsExt

CONSTANTS
    Size,        \* pool->max
    MaxOpened,   \* bound on the sockets opened in a behaviour
    MaxReported, \* bound on the connections one poll reports
    Times        \* possible values of time_ms() + ms

ASSUME PoolAssumption ==
    /\ Size \in Nat \ {0} /\ MaxOpened \in Nat /\ MaxReported \in Nat
    /\ Times \subseteq Nat \ {0}

Slots == 0 .. Size - 1
Items == 0 .. Size - 1
NULL == Size

VARIABLES
    pool,   \* struct poolhd with its items, pevents
    offs,   \* loop_event's i: the next slot the scan looks at
    brk     \* pool->brk, then "gone" once destroy_pool has run

vars == <<pool, offs, brk>>

-----------------------------------------------------------------------------
(* Pool operations, as functions of the pool.                              *)

Alive(p, v) == v # NULL /\ p.fd[v] # 0

Full(p) == p.count >= Size

\* add_event: the item at links[count], zeroed, and the slot count.
AddEvent(p, k, e) ==
    LET v == p.links[p.count] f == p.opened + 1
    IN  [p EXCEPT !.fd = [p.fd EXCEPT ![v] = f], !.index = [p.index EXCEPT ![v] = p.count],
                  !.fresh = [p.fresh EXCEPT ![v] = TRUE], !.kind = [p.kind EXCEPT ![v] = k],
                  !.conn = [p.conn EXCEPT ![v] = FALSE], !.keeps = [p.keeps EXCEPT ![v] = TRUE],
                  !.pair = [p.pair EXCEPT ![v] = NULL], !.tv = [p.tv EXCEPT ![v] = 0],
                  !.tvn = [p.tvn EXCEPT ![v] = NULL], !.tvp = [p.tvp EXCEPT ![v] = NULL],
                  !.pfd = [p.pfd EXCEPT ![p.count] = [fd |-> f, ev |-> e, rev |-> FALSE]],
                  !.count = p.count + 1, !.opened = f]

Newest(p) == p.links[p.count - 1]

\* Mutant: the tail pointer is left behind when the last timer goes.
RemoveTimerTail(p, v) ==
    LET n == p.tvn[v] b == p.tvp[v]
    IN  [p EXCEPT !.tvn = IF b # NULL THEN [p.tvn EXCEPT ![b] = n, ![v] = NULL]
                                      ELSE [p.tvn EXCEPT ![v] = NULL],
                  !.tvp = IF n # NULL THEN [p.tvp EXCEPT ![n] = b, ![v] = NULL]
                                      ELSE [p.tvp EXCEPT ![v] = NULL],
                  !.start = IF p.start = v THEN n ELSE p.start,
                  !.tv = [p.tv EXCEPT ![v] = 0]]

\* remove_timer
RemoveTimer(p, v) ==
    LET n == p.tvn[v] b == p.tvp[v]
    IN  [p EXCEPT !.tvn = IF b # NULL THEN [p.tvn EXCEPT ![b] = n, ![v] = NULL]
                                      ELSE [p.tvn EXCEPT ![v] = NULL],
                  !.tvp = IF n # NULL THEN [p.tvp EXCEPT ![n] = b, ![v] = NULL]
                                      ELSE [p.tvp EXCEPT ![v] = NULL],
                  !.start = IF p.start = v THEN n ELSE p.start,
                  !.end = IF p.end = v THEN b ELSE p.end,
                  !.tv = [p.tv EXCEPT ![v] = 0]]

\* The timer of the search from the tail: the first with an earlier deadline.
Before(p, t) ==
    LET from[v \in Items \cup {NULL}] ==
            IF v # NULL /\ p.tv[v] >= t THEN from[p.tvp[v]] ELSE v
    IN  from[p.end]

\* set_timer: no effect on a running timer; else a sorted insertion.
SetTimer(p, v, t) ==
    LET b == Before(p, t)
        n == IF b = NULL THEN p.start ELSE p.tvn[b]
    IN  IF p.tv[v] # 0 THEN p ELSE
        [p EXCEPT !.tv = [p.tv EXCEPT ![v] = t],
                  !.tvn = IF b # NULL THEN [p.tvn EXCEPT ![b] = v, ![v] = n]
                                      ELSE [p.tvn EXCEPT ![v] = n],
                  !.tvp = IF n # NULL THEN [p.tvp EXCEPT ![n] = v, ![v] = b]
                                      ELSE [p.tvp EXCEPT ![v] = b],
                  !.start = IF p.start = NULL \/ n = p.start THEN v ELSE p.start,
                  !.end = IF p.end = NULL \/ b = p.end THEN v ELSE p.end]

\* mod_etype: through val->index, whoever occupies that slot.
ModEtype(p, v, e) == [p EXCEPT !.pfd = [p.pfd EXCEPT ![p.index[v]].ev = e]]

\* Mutant: the moved connection's poll record stays behind.
UnlinkLinksOnly(p, v) ==
    LET c == p.count - 1 i == p.index[v] ev == p.links[c]
        q == RemoveTimer(p, v)
    IN  [q EXCEPT !.fd = [p.fd EXCEPT ![v] = 0], !.fresh = [p.fresh EXCEPT ![v] = TRUE],
                  !.kind = [p.kind EXCEPT ![v] = "none"], !.conn = [p.conn EXCEPT ![v] = FALSE],
                  !.keeps = [p.keeps EXCEPT ![v] = FALSE], !.owed = p.owed \ {p.fd[v]},
                  !.count = c, !.links = [p.links EXCEPT ![i] = ev, ![c] = v],
                  !.index = [p.index EXCEPT ![ev] = i]]

\* del_event up to its recursion: timer, then slot swap with the last.
\* (kind, conn and keeps of a closed connection are not read again.)
Unlink(p, v) ==
    LET c == p.count - 1 i == p.index[v] ev == p.links[c]
        q == RemoveTimer(p, v)
    IN  [q EXCEPT !.fd = [p.fd EXCEPT ![v] = 0], !.fresh = [p.fresh EXCEPT ![v] = TRUE],
                  !.kind = [p.kind EXCEPT ![v] = "none"], !.conn = [p.conn EXCEPT ![v] = FALSE],
                  !.keeps = [p.keeps EXCEPT ![v] = FALSE], !.owed = p.owed \ {p.fd[v]},
                  !.count = c, !.links = [p.links EXCEPT ![i] = ev, ![c] = v],
                  !.pfd = [p.pfd EXCEPT ![i] = p.pfd[c]],
                  !.index = [p.index EXCEPT ![ev] = i]]

\* del_event for d.val: nothing for a closed one; else it is closed, and the
\* one that pair led to is next.
DelOne(d) ==
    LET p == d.pool v == d.val e == p.pair[v]
        q == Unlink(p, v)
    IN  IF ~ Alive(p, v) THEN d
        ELSE IF e = NULL THEN [pool |-> q, val |-> NULL]
        ELSE [pool |-> [q EXCEPT !.pair = IF p.pair[e] = v
                                          THEN [p.pair EXCEPT ![e] = NULL, ![v] = NULL]
                                          ELSE [p.pair EXCEPT ![v] = NULL]],
              val |-> e]

\* del_event with its recursion, which ends when at most Size are closed.
DelEvent(p, v) ==
    LET del[k \in 0 .. Size] ==
            IF k = 0 THEN [pool |-> p, val |-> v] ELSE DelOne(del[k - 1])
    IN  del[Size].pool

-----------------------------------------------------------------------------
(* Building blocks of the callbacks.                                       *)

\* The callback returned -1: loop_event deletes the connection it ran for.
Fails(p, v) == {DelEvent(p, v)}

\* create_conn for client c: the remote, watched for POLLOUT, and the pair.
CreateConn(p, c) ==
    LET q == AddEvent(p, "connecting", "out") r == Newest(q)
    IN  [ModEtype(q, c, "none") EXCEPT !.pair = [q.pair EXCEPT ![c] = r, ![r] = c],
                                       !.conn = [q.conn EXCEPT ![r] = TRUE],
                                       !.kind = [q.kind EXCEPT ![c] = "waiting"]]

CanOpen(p, n) == p.opened + n <= MaxOpened

\* reconnect of remote r: a new remote takes its place, then it is closed.
Reconnect(p, r) ==
    LET q == CreateConn(p, p.pair[r])
    IN  DelEvent([q EXCEPT !.pair = [q.pair EXCEPT ![r] = NULL]], r)

\* on_trigger with a next group: possible while the request is kept or
\* nothing has been received; -1 when the pool is full.
CanReconnect(p, r) ==
    /\ p.keeps[p.pair[r]]
    /\ ~ Full(p) /\ CanOpen(p, 1)

\* The accept loop: one connection per call that finds room, else closed.
AcceptOne(p) == IF Full(p) THEN p ELSE AddEvent(p, "request", "in")

\* on_accept: none, one or two clients were waiting.
OnAccept(p, v) ==
    {p} \cup (IF CanOpen(p, 1) THEN {AcceptOne(p)} ELSE {})
        \cup (IF CanOpen(p, 2) THEN {AcceptOne(AcceptOne(p))} ELSE {})

\* connect_hook from a request: refused, or connecting.
ConnectHook(p, c) ==
    {DelEvent(p, c)}
    \cup (IF Full(p) \/ ~ CanOpen(p, 1) THEN {}
          ELSE {CreateConn(p, c)})

\* Mutant: the half-built association is left when the second socket fails.
UdpAssociateOrphan(p, c) ==
    IF Full(p) THEN DelEvent(p, c)
    ELSE LET q == AddEvent(p, "udp", "in") r == Newest(q)
         IN  IF Full(q) THEN DelEvent(q, c)
             ELSE LET s == AddEvent(q, "udp", "in") u == Newest(s)
                  IN  [ModEtype(s, c, "none") EXCEPT
                          !.pair = [s.pair EXCEPT ![c] = u, ![u] = r, ![r] = c],
                          !.kind = [s.kind EXCEPT ![c] = "waiting"]]

\* udp_associate: two datagram sockets in a ring with the control connection;
\* the first is closed again when there is no room for the second.
UdpAssociate(p, c) ==
    IF Full(p) THEN DelEvent(p, c)
    ELSE LET q == AddEvent(p, "udp", "in") r == Newest(q)
         IN  IF Full(q) THEN DelEvent(DelEvent(q, r), c)
             ELSE LET s == AddEvent(q, "udp", "in") u == Newest(s)
                  IN  [ModEtype(s, c, "none") EXCEPT
                          !.pair = [s.pair EXCEPT ![c] = u, ![u] = r, ![r] = c],
                          !.kind = [s.kind EXCEPT ![c] = "waiting"]]

\* on_request and recv_and_connect: protocol error, the client still to be
\* heard (SOCKS5 greeting, or connect_hook put the connection off), UDP
\* association, TCP connect.
OnRequest(p, v) ==
    Fails(p, v) \cup {p} \cup (IF CanOpen(p, Min({2, Size - p.count})) THEN {UdpAssociate(p, v)} ELSE {})
    \cup ConnectHook(p, v)

\* on_ignore: only a hang-up or an error ends the connection.
OnIgnore(p, v) == {p} \cup Fails(p, v)

\* on_udp_tunnel: a datagram passes, or an error ends the association.
OnUdpTunnel(p, v) == {p} \cup Fails(p, v)

-----------------------------------------------------------------------------
(* on_tunnel.  s is the side whose bytes move, d the side they go to.      *)

\* Reconnecting is tried only for the remote, and never after the client left.
Retry(p, r) == IF CanReconnect(p, r) THEN {Reconnect(p, r)} ELSE {}

\* Pending bytes: send error, still not all sent, waiting for the socket to
\* drain, or the remote replaced after a reset.
FlushStops(p, v, s, d) ==
    Fails(p, v) \cup {p}
    \cup (IF p.conn[d] THEN Retry(p, d) \cup {SetTimer(p, d, t) : t \in Times} ELSE {})

FlushDone(p, s, d) == ModEtype(ModEtype(p, s, "in"), d, "in")

\* tcp_recv_hook with data: an answer frees the request kept for a retry and
\* may arm or stop the record timer; a request too long is not kept.
Received(p, s, d) ==
    LET a == [p EXCEPT !.keeps = [p.keeps EXCEPT ![d] = FALSE]]
    IN  IF p.conn[s]
        THEN {a, RemoveTimer(a, s)} \cup {SetTimer(RemoveTimer(a, s), s, t) : t \in Times}
        ELSE {p, [p EXCEPT !.keeps = [p.keeps EXCEPT ![s] = FALSE]]}

\* Mutant: the old remote's slot is no longer watched.
RetryUnwatched(p, s, d) ==
    {ModEtype(ModEtype(q, s, "none"), d, "none") : q \in Retry(p, d)}

\* The remote was reset while the request was being sent: it is replaced, and
\* on_tunnel then uses the indexes of the client and of the remote it knew.
RetryAfterSend(p, s, d) ==
    {ModEtype(ModEtype(q, s, "none"), d, "out") : q \in Retry(p, d)}

\* The received bytes: all sent, some sent, or (first request) to be resumed
\* by a timer; send error; remote replaced.
SendReceived(p, v, s, d) ==
    {p, ModEtype(ModEtype(p, s, "none"), d, "out")} \cup Fails(p, v)
    \cup (IF p.conn[d]
          THEN RetryAfterSend(p, s, d)
               \cup {ModEtype(ModEtype(SetTimer(p, d, t), s, "none"), d, "none") : t \in Times}
          ELSE {})

\* The receive-and-send loop: nothing there, end of stream or error, an
\* answer that asks for another group, or data.
Receive(p, v, s, d) ==
    {p} \cup Fails(p, v) \cup (IF p.conn[s] THEN Retry(p, s) ELSE {})
    \cup UNION {SendReceived(x, v, s, d) : x \in Received(p, s, d)}

\* With or without bytes left over from an earlier call.
TunnelOutcomes(p, v, s) ==
    LET d == p.pair[s]
    IN  FlushStops(p, v, s, d) \cup Receive(p, v, s, d) \cup Receive(FlushDone(p, s, d), v, s, d)

\* on_timeout: counted and armed again, or the remote is given up.
OnTimeout(p, v) == {SetTimer(p, v, t) : t \in Times} \cup Retry(p, v) \cup Fails(p, v)

\* on_tunnel: a timer on a remote that has answered is a timeout; POLLOUT and
\* any other timer continue the peer's pending bytes.
OnTunnel(p, v, due) ==
    LET peer == p.pair[v]
    IN  (IF due THEN OnTimeout(p, v) ELSE TunnelOutcomes(p, v, v)) \cup TunnelOutcomes(p, v, peer)

\* on_connect: refused (retried or answered with an error), or both ends are
\* watched and a saved request is sent.
OnConnect(p, v) ==
    LET c == p.pair[v]
        up == [ModEtype(ModEtype(p, v, "in"), c, "in")
                  EXCEPT !.kind = [p.kind EXCEPT ![v] = "tunnel", ![c] = "tunnel"]]
    IN  Fails(p, v) \cup Retry(p, v)
        \cup TunnelOutcomes(up, v, c) \cup {up} \cup Fails(up, v)

-----------------------------------------------------------------------------
(* loop_event                                                              *)

\* Mutant: slots that changed hands in this round are not skipped.
DeliverableAny(p, o) == {i \in 0 .. o : p.pfd[i].rev}

\* The slots the scan has not reached whose report next_event would deliver.
Deliverable(p, o) == {i \in 0 .. o : p.pfd[i].rev /\ ~ p.fresh[p.links[i]]}

\* init_pool
NewPool ==
    [links |-> [i \in Slots |-> i],
     pfd |-> [i \in Slots |-> [fd |-> 0, ev |-> "none", rev |-> FALSE]],
     fd |-> [v \in Items |-> 0], index |-> [v \in Items |-> 0],
     fresh |-> [v \in Items |-> FALSE], kind |-> [v \in Items |-> "none"],
     conn |-> [v \in Items |-> FALSE], keeps |-> [v \in Items |-> FALSE],
     pair |-> [v \in Items |-> NULL], tv |-> [v \in Items |-> 0],
     tvn |-> [v \in Items |-> NULL], tvp |-> [v \in Items |-> NULL],
     start |-> NULL, end |-> NULL, count |-> 0, opened |-> 0, owed |-> {}]

\* start_event_loop adds the listening socket and runs loop_event.
Init ==
    /\ pool = AddEvent(NewPool, "accept", "in")
    /\ offs = -1 /\ brk = "no"

\* next_event, the poll: any of the watched connections are reported.
Poll ==
    /\ brk = "no" /\ Deliverable(pool, offs) = {}
    /\ \E rep \in SUBSET (0 .. pool.count - 1) :
          /\ Cardinality(rep) \in 1 .. MaxReported
          /\ pool' = [pool EXCEPT
                 !.pfd = [i \in Slots |-> IF i < pool.count THEN [pool.pfd[i] EXCEPT !.rev = i \in rep]
                                                            ELSE pool.pfd[i]],
                 !.fresh = [v \in Items |-> FALSE],
                 !.owed = {pool.pfd[i].fd : i \in rep}]
    /\ offs' = pool.count - 1
    /\ UNCHANGED brk

\* A round with nothing left to deliver is over: the scan runs down to -1 and
\* the next poll overwrites revents and outdates every mod_iter.
RoundOver(p) ==
    [p EXCEPT !.pfd = [i \in Slots |-> [p.pfd[i] EXCEPT !.rev = FALSE]],
              !.fresh = [v \in Items |-> FALSE]]

\* The callback of connection v, by the cb it has now; due: a timer fired.
Outcomes(p, v, due) ==
    CASE p.kind[v] = "accept" -> OnAccept(p, v)
      [] p.kind[v] = "request" -> OnRequest(p, v)
      [] p.kind[v] = "waiting" -> OnIgnore(p, v)
      [] p.kind[v] = "connecting" -> OnConnect(p, v)
      [] p.kind[v] = "tunnel" -> OnTunnel(p, v, due)
      [] p.kind[v] = "udp" -> OnUdpTunnel(p, v)

\* The callback ran and the scan goes on below slot o.
After(q, o) ==
    IF Deliverable(q, o) # {} THEN pool' = q /\ offs' = o
                              ELSE pool' = RoundOver(q) /\ offs' = -1

\* next_event takes the report of slot i.
Taken(p, i) ==
    [p EXCEPT !.pfd = [p.pfd EXCEPT ![i].rev = FALSE], !.owed = p.owed \ {p.fd[p.links[i]]}]

\* next_event, the scan: the highest slot left that has a report.
ServeNext ==
    LET i == Max(Deliverable(pool, offs))
        v == pool.links[i]
        p == Taken(pool, i)
    IN  /\ brk = "no" /\ Deliverable(pool, offs) # {}
        /\ \/ /\ \E q \in Outcomes(p, v, FALSE) : After(q, i - 1)
              /\ UNCHANGED brk
           \/ \* on_accept, fatal error: the listener goes and the loop ends
              /\ p.kind[v] = "accept"
              /\ pool' = DelEvent(p, v) /\ offs' = i - 1 /\ brk' = "set"

\* next_event_tv: the earliest timer is due, or poll waited it out.
ServeTimer ==
    LET v == pool.start
    IN  /\ brk = "no" /\ v # NULL
        /\ \E q \in Outcomes(RemoveTimer(pool, v), v, TRUE) : After(q, offs)
        /\ UNCHANGED brk

\* The loop of destroy_pool.
DelFirst(p) == IF p.count = 0 THEN p ELSE DelEvent(p, p.links[0])

DelAll(p) ==
    LET del[k \in 0 .. Size] == IF k = 0 THEN p ELSE DelFirst(del[k - 1])
    IN  del[Size]

\* destroy_pool after the loop ended (accept error or poll error).
DestroyPool ==
    /\ brk # "gone"
    /\ pool' = [NewPool EXCEPT !.count = DelAll(pool).count]
    /\ brk' = "gone" /\ offs' = -1

Next == Poll \/ ServeNext \/ ServeTimer \/ DestroyPool

Spec == Init /\ [][Next]_vars

-----------------------------------------------------------------------------
(* Properties.                                                             *)

Live == {v \in Items : pool.fd[v] # 0}

\* The three arrays describe one set of connections: links is a permutation,
\* its first count entries are the open connections, and each one's index
\* leads to its own poll record (the asserts of del_event, mod_etype and
\* next_event).
PoolConsistent ==
    /\ {pool.links[i] : i \in Slots} = Items
    /\ Live = {pool.links[i] : i \in 0 .. pool.count - 1}
    /\ \A v \in Live : /\ pool.links[pool.index[v]] = v
                       /\ pool.pfd[pool.index[v]].fd = pool.fd[v]
    /\ \A i \in 0 .. offs : pool.pfd[i].rev => i < pool.count \/ pool.fresh[pool.links[i]]

\* While a round of reports is delivered, connections are closed, opened and
\* moved between slots; still the reports the scan will deliver are exactly
\* those of the open connections poll reported and that were not served yet:
\* none is lost, none goes to another connection or to a reused slot.
ReportsIntact ==
    brk = "no" => {pool.pfd[i].fd : i \in Deliverable(pool, offs)} = pool.owed

\* Between callbacks no open connection is tied to a closed one: a tunnel is
\* a pair, a UDP association a ring of three, and they close as a whole.
GroupsWhole ==
    \A v \in Live :
        /\ pool.kind[v] \in {"waiting", "connecting", "tunnel", "udp"} =>
              /\ Alive(pool, pool.pair[v])
              /\ LET w == pool.pair[pool.pair[v]]
                 IN  w = v \/ (Alive(pool, w) /\ pool.pair[w] = v)
        /\ pool.kind[v] \in {"accept", "request"} => pool.pair[v] = NULL

\* The armed timers form one doubly linked list, earliest first, from
\* tv_start to tv_end, and no closed connection is on it.
TimersSorted ==
    LET armed == {v \in Items : pool.tv[v] # 0}
    IN  /\ armed \subseteq Live
        /\ (pool.start = NULL) <=> (armed = {})
        /\ (pool.end = NULL) <=> (armed = {})
        /\ \A v \in armed :
              /\ IF pool.tvn[v] = NULL THEN v = pool.end
                 ELSE /\ pool.tvn[v] \in armed /\ pool.tvp[pool.tvn[v]] = v
                      /\ pool.tv[v] <= pool.tv[pool.tvn[v]]
              /\ IF pool.tvp[v] = NULL THEN v = pool.start
                 ELSE pool.tvp[v] \in armed /\ pool.tvn[pool.tvp[v]] = v

\* A remote still connecting is watched for POLLOUT, also when on_tunnel has
\* just set the event mask through the index of the remote it replaced.
ConnectingWatched ==
    \A v \in Live : pool.kind[v] = "connecting" => pool.pfd[pool.index[v]].ev = "out"
=============================================================================
