------------------------------ MODULE MCTunnel ------------------------------
(***************************************************************************)
(* Instances of Tunnel: option lists in the style of the README of the     *)
(* worker, each with the connections that make it interesting.             *)
(***************************************************************************)
EXTENDS Tunnel

A4 == [ip |-> "a", port |-> 443, fam |-> "v4"]
B4 == [ip |-> "b", port |-> 443, fam |-> "v4"]
C6 == [ip |-> "c", port |-> 80, fam |-> "v6"]

\* A TLS request: a record header, the host in its third byte.
Tls(host) == [kind |-> "tls", host |-> host, at |-> 2, len |-> 1]
Http == [kind |-> "http", host |-> "listed", at |-> 1, len |-> 1]
Plain0 == [kind |-> "other", host |-> "", at |-> 0, len |-> 0]

To(dst, req) == [dst |-> dst, req |-> req]
O(o, v) == [o |-> o, v |-> v]
Offset(pos, rs, flag) == [pos |-> pos, rs |-> rs, flag |-> flag]
At(pos) == Offset(pos, <<>>, {})
Sni(pos) == Offset(pos, <<>>, {"sni"})
Auto(ts) == O("A", [detect |-> ts, pri |-> None])
AutoPri(ts, n) == O("A", [detect |-> ts, pri |-> Some(n)])

Scene(args, target, bytes, answers) ==
  [args |-> args, target |-> target, bytes |-> bytes, answers |-> answers, restarts |-> 0,
   faults |-> {}]
With(scene, faults) == [scene EXCEPT !.faults = faults]

\* The profile the service ships: --split 1+s --disorder 3+s --auto=torst.
Shipped == Scene(<<O("s", Sni(1)), O("d", Sni(3)), Auto({"torst"})>>,
                 <<To(A4, Tls("listed"))>>, 4, 2)

\* Pauses between parts, repeated parts, split records.
Paused == Scene(<<O("Z", 0), O("W", 5), O("d", Offset(1, <<2, 1>>, {})), O("r", Sni(0)),
                  Auto({"torst", "tlserr"}), O("o", At(1)), O("f", At(-1)), O("t", 8)>>,
                <<To(A4, Tls("listed"))>>, 3, 2)

\* The request is cut in the second round only; the writes around it are plain.
SecondRound == Scene(<<O("R", <<2, 2>>), O("q", At(1)), O("d", Offset(0, <<>>, {"mid"})),
                       Auto({"torst"}), O("s", Offset(0, <<>>, {"end"}))>>,
                     <<To(A4, Plain0)>>, 4, 2)

\* A timer over unfinished answers, -T 1:1:2:1, and a replay for listed hosts only.
Watched == Scene(<<O("T", <<1, 1, 2, 1>>), O("s", At(1)), Auto({"torst", "tlserr"}), O("H", {"listed"}), O("m", 3)>>,
                 <<To(A4, Tls("other"))>>, 2, 2)

\* Two connections to one address, a chain of groups with different triggers.
Chain == Scene(<<O("s", At(1)), Auto({"torst"}), O("d", At(1)), Auto({"tlserr"}),
                 Auto({"tlserr", "connect"}), O("L", {"o"})>>,
               <<To(A4, Tls("listed")), To(A4, Tls("other"))>>, 1, 1)

\* Groups that trade places as they fail, on two addresses.
Sorted == Scene(<<AutoPri({"torst"}, 2), O("L", {"s"}), Auto({"tlserr", "torst"}), O("L", {"s", "n"}),
                  AutoPri({"torst"}, 1), O("L", {"s"})>>,
                <<To(A4, Tls("listed")), To(B4, Tls("listed"))>>, 1, 1)

\* Redirects, and what the cache forgets.
Aging == Scene(<<O("u", 1), Auto({"redirect"}), O("u", 1), O("M", {"h"}), Auto({"connect"}), O("u", 2)>>,
               <<To(A4, Http), To(B4, Http)>>, 1, 1)

\* An outgoing proxy for listed hosts, the rest direct.
Upstream == Scene(<<O("C", "proxy"), O("H", {"listed"}), Auto({})>>,
                  <<To(A4, Tls("listed")), To(A4, Tls("other"))>>, 1, 1)

\* Every group limited: by address, port, protocol.
Limited == Scene(<<O("K", {"t"}), O("V", <<443, 443>>), O("j", {"a"}), O("a", 1), Auto({}),
                   O("K", {"u"}), Auto({}), O("K", {"i", "h"}), Auto({"torst"}), O("K", {"h"})>>,
                 <<To(A4, Plain0), To(C6, Http)>>, 1, 1)

\* Cache files, and a restart.
Kept == [Scene(<<O("s", At(1)), Auto({"torst"}), O("y", "first"), O("L", {"s"}),
                 Auto({"torst", "connect"}), O("y", "second")>>,
               <<To(A4, Tls("listed")), To(B4, Tls("listed"))>>, 1, 1) EXCEPT !.restarts = 1]

\* A file that two groups share.
Shared == [Scene(<<Auto({"torst"}), O("y", "first"), Auto({"torst", "connect"}), O("y", "first")>>,
                 <<To(A4, Tls("listed")), To(B4, Tls("listed"))>>, 1, 1) EXCEPT !.restarts = 1]

\* A pause after the first part of a replay, in which the answer may come.
Early == Scene(<<O("Z", 0), O("s", At(1)), Auto({"torst"}), O("d", At(1)), Auto({"torst"})>>,
               <<To(A4, Tls("listed"))>>, 2, 2)

MCScenarios ==
  {With(Shipped, {"refuse", "full"}), With(Paused, {"refuse"}), With(SecondRound, {"refuse", "banner"}),
   With(Watched, {"full", "banner"}), Chain,
   Sorted, Aging, Upstream, Limited, Kept, Shared, Early}

\* README of the worker: --auto=torst --hosts list.txt --disorder 3.
ListedOnly == Scene(<<Auto({"torst"}), O("H", {"listed"}), O("d", At(3))>>,
                    <<To(A4, Tls("other")), To(A4, Tls("other"))>>, 1, 1)
ReadmeScenarios == {ListedOnly}
=============================================================================
