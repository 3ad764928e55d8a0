---------------------------- MODULE MCDnsOverride ----------------------------
(* Small instances of DnsOverride. *)
EXTENDS DnsOverride

\* IPv4 by DHCP or static, IPv6 by DHCP.
DhcpV6Configs == [v4 : {"dhcp", "static"}, v6 : {"dhcp"}]
\* Users who also configured IPv6 resolvers by hand.
AllConfigs == [v4 : {"dhcp", "static"}, v6 : {"dhcp", "static"}]

\* The failures after which the promise still holds.
SafeFaults == {"save", "apply", "clear"}

\* Every call may fail.
AllFaults == Calls

=============================================================================
