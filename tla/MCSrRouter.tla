----------------------------- MODULE MCSrRouter -----------------------------
(* Instances of SrRouter for TLC: two attached subnets, one blacklisted. *)
EXTENDS SrRouter

CONSTANTS
  i1, i2,     \* interfaces
  r1, r2,     \* the router's addresses on them; r2 lies in the blacklisted net
  h1, h2,     \* hosts behind i1
  k,          \* a host behind i2, blacklisted
  g,          \* a host behind i2 that is not
  u           \* an address without a route

MCAddr == {r1, r2, h1, h2, k, g, u}

MCIfIp == [i \in {i1, i2} |-> IF i = i1 THEN r1 ELSE r2]

\* The router's address r2 is outside of every prefix.
MCRoute == [a \in MCAddr |-> IF a \in {u, r2} THEN NULL
                             ELSE IF a \in {k, g} THEN i2 ELSE i1]

Ip(i, s, d, t, p) ==
  [kind |-> "ip", iface |-> i, sound |-> TRUE, src |-> s, dst |-> d,
   ttl |-> t, proto |-> p]

Arp(i, op, sip, tip) ==
  [kind |-> "arp", iface |-> i, sound |-> TRUE, op |-> op, sip |-> sip,
   tip |-> tip]

\* Every case of sr_handlepacket, with frames that come in by the interface
\* their source is routed to.
Symmetric ==
  {Ip(i1, h1, g, 2, "tcp_udp"), Ip(i1, h1, g, 0, "other"),
   Ip(i1, h1, g, 1, "tcp_udp"), Ip(i2, g, h1, 1, "tcp_udp"),
   Ip(i2, g, h2, 3, "icmp"), Ip(i1, h1, k, 2, "tcp_udp"),
   Ip(i2, k, h1, 2, "tcp_udp"), Ip(i1, h2, u, 2, "tcp_udp"),
   Ip(i2, g, r1, 2, "tcp_udp"), Ip(i1, h1, r1, 2, "echo"),
   Ip(i2, g, r1, 1, "echo"), Ip(i1, u, r1, 2, "echo"),
   Ip(i1, h1, r1, 2, "icmp"), Ip(i2, g, r2, 1, "echo"),
   [Ip(i1, h1, g, 2, "other") EXCEPT !.sound = FALSE],
   [kind |-> "other", iface |-> i1],
   Arp(i1, "request", h1, r1), Arp(i1, "request", h1, h2),
   Arp(i1, "reply", h1, r1), Arp(i2, "reply", g, r2),
   Arp(i2, "reply", k, r2), Arp(i1, "other", h1, r1)}

\* Frames from a source without a route, and from one that is routed to the
\* other interface.
Asymmetric ==
  {Ip(i1, u, g, 1, "other"), Ip(i1, u, g, 2, "other"),
   Ip(i1, u, r1, 2, "tcp_udp"), Ip(i2, h2, r1, 2, "tcp_udp"),
   Arp(i1, "reply", h2, r1)}

Mixed == Symmetric \cup Asymmetric

\* Every host is its own gateway, as in the rtable of the repository.
Attached == [a \in MCAddr |-> a]

\* h2 is behind the gateway h1.
Behind == [a \in MCAddr |-> IF a = h2 THEN h1 ELSE a]

=============================================================================
