---------------------------- MODULE MCPacketFilter ----------------------------
EXTENDS PacketFilter

CONSTANTS s1, s2, r

MCServers == {s1, s2}
Web == [id |-> 1, port |-> 80]
Tls == [id |-> 2, port |-> 443]
Alt == [id |-> 4, port |-> 8080]

Hello(c, size, host, data) ==
  [conn |-> c, kind |-> "hello", size |-> size, host |-> host, sni |-> 2, data |-> data]
Http(c, host, data) ==
  [conn |-> c, kind |-> "http", size |-> "big", host |-> host, sni |-> 0, data |-> data]

Start == <<"GET", "SP", "/", "\n">>
HostLine == <<"Host:", "SP", "a", "b", "a", "\n">>
AgentLine == <<"UA:", "SP", "u", "v", "w", "\n">>
Site == <<"www", "site", "org">>
Other == <<"mysite", "org">>

MCPackets ==
  {Hello(Tls, "big", Site, <<"22", "n", "a", "b", "x">>),
   Hello(Tls, "big", Other, <<"22", "n", "b", "b", "x">>),
   Hello(Tls, "big", <<>>, <<"22", "x", "x", "x", "x">>),
   Hello(Tls, "tiny", <<>>, <<"22", "3">>),
   Hello(Tls, "jumbo", Site, <<"22", "n", "a", "b", "x">>),
   [Hello(Tls, "big", <<>>, <<"23", "x", "x">>) EXCEPT !.kind = "app"],
   Http(Web, Site, Start \o HostLine \o AgentLine),
   Http(Web, Other, Start \o AgentLine \o HostLine),
   Http(Web, Site, Start \o HostLine),
   Http(Web, Site, <<"ET", "SP", "/", "\n">> \o HostLine \o AgentLine),
   Http(Alt, Site, Start \o HostLine \o AgentLine)}

Fs == <<Opt("-f", 2), Opt("-e", 2)>>
List == Opt("--blacklist", {<<"site", "org">>})

\* Modes, and profiles that combine options the way the shipped ones and the usage text do.
MCProfiles ==
  {<<>>} \cup {<<Flag(m)>> : m \in Modes}
  \cup {<<Flag("-1"), Flag("-a"), Flag("-m"), List>>,
        <<Flag("-4"), Flag("-w"), Opt("--port", 8080), Opt("--ip-id", 54)>>,
        <<Flag("-m"), Opt("-k", 3), Opt("-f", 3), Opt("--port", 0)>>,
        <<Flag("-r"), Opt("-e", 3), Flag("-n"), Flag("--frag-by-sni"), Flag("--allow-no-sni"), List>>,
        Fs \o <<Opt("--set-ttl", 5), Opt("--min-ttl", 4), Flag("--wrong-chksum"),
                Opt("--fake-gen", 2), Opt("--fake-resend", 2), Flag("--fake-with-sni"),
                Opt("--fake-from-hex", <<1, 6>>)>>,
        Fs \o <<Opt("--auto-ttl", <<2>>), Opt("--max-payload", 1200), Flag("--wrong-seq"), Flag("-s")>>,
        <<Flag("--reverse-frag")>>,
        <<Opt("--dns-addr", 1), Opt("--dns-port", 1253)>>,
        <<Flag("-4"), Opt("--dns-addr", 1), Opt("--dnsv6-addr", 2), Opt("--dnsv6-port", 5353)>>,
        <<Opt("--dns-port", 1253)>>, <<Opt("-f", 70000)>>}

\* For FakesExpire: the mode with --auto-ttl, one connection.
MCTtlProfiles == {<<Flag("-5")>>}
MCTtlPackets == {Hello(Tls, "big", <<>>, <<"22", "x", "x", "x">>)}
MCConns == {Web, Tls}
MCOneConn == {Tls}
=============================================================================
