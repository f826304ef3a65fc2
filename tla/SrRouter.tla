------------------------------ MODULE SrRouter ------------------------------
(***************************************************************************)
(* sr_handlepacket of sr_router.c: what the router makes of every frame    *)
(* that arrives, and how the packets it makes leave.                       *)
(*                                                                         *)
(* The ARP cache is seen from the outside: an address has a mapping or has *)
(* none, a packet without one waits, and waiting packets leave with a      *)
(* reply or are given up (SrArp models how).  A route is the interface of  *)
(* the entry sr_findLPMentry returns (SrLpm models how).                   *)
(***************************************************************************)
EXTENDS Naturals, FiniteSets

CONSTANTS
  Iface,     \* names of the interfaces
  Addr,      \* IP addresses
  NULL,      \* no route
  IfIp,      \* interface -> its IP address
  Route,     \* address -> interface of the longest matching prefix, or NULL
  Gateway,   \* address -> gw of that entry, which the code stores and never reads
  Black,     \* the addresses of the blacklisted subnet
  InitTtl,   \* INIT_TTL
  TtlMod,    \* number of values of ip_ttl (256 in the code)
  Frames,    \* the frames that may arrive
  MaxFrames  \* bound on the frames handled in a behaviour

Ttl == 0..(TtlMod - 1)

\* A frame as sr_handlepacket tells frames apart.  "sound" stands for the
\* checks of length, version and checksum.
IpFrame == [kind : {"ip"}, iface : Iface, sound : BOOLEAN, src : Addr,
            dst : Addr, ttl : Ttl,
            proto : {"echo", "icmp", "tcp_udp", "other"}]

ArpFrame == [kind : {"arp"}, iface : Iface, sound : BOOLEAN,
             op : {"request", "reply", "other"}, sip : Addr, tip : Addr]

OtherFrame == [kind : {"other"}, iface : Iface]

\* A packet the router sends: the interface whose hardware address is its
\* source, the interface it leaves by, and the IP header.
Packet == [shost : Iface, iface : Iface, src : Addr, dst : Addr, ttl : Ttl,
           what : {"forward", "echo_reply", "ttl_exceeded",
                   "net_unreachable", "port_unreachable",
                   "host_unreachable"}]

\* An ARP reply it sends: the same two interfaces, whose address it gives, and
\* to whom.
ArpPacket == [shost : Iface, iface : Iface, sip : Addr, tip : Addr]

ASSUME TopologyAssumption ==
  /\ IfIp \in [Iface -> Addr] /\ Route \in [Addr -> Iface \cup {NULL}]
  /\ Gateway \in [Addr -> Addr] /\ NULL \notin Iface /\ Black \subseteq Addr

ASSUME FramesAssumption ==
  /\ TtlMod \in Nat \ {0} /\ InitTtl \in Ttl /\ MaxFrames \in Nat
  /\ \A f \in Frames : f \in IpFrame \/ f \in ArpFrame \/ f \in OtherFrame

VARIABLES
  cache,     \* addresses the ARP cache has a mapping of
  pending,   \* packets waiting for a mapping
  sent,      \* IP packets written to the socket
  arped,     \* ARP replies written to the socket
  refused,   \* what sr_send_packet refused
  handled,   \* number of frames handled
  fault      \* packets for which a null route was used

vars == <<cache, pending, sent, refused, arped, handled, fault>>

\* Every variable holds a value of its kind.
TypeOK ==
  /\ cache \subseteq Addr /\ pending \subseteq Packet
  /\ sent \subseteq Packet /\ arped \subseteq ArpPacket
  /\ refused \subseteq Packet \cup ArpPacket
  /\ handled \in 0..MaxFrames /\ fault \subseteq Packet

-----------------------------------------------------------------------------
(* The packets the router makes. *)

\* Mutant of EchoReply: the source address of the interface that was pinged.
EchoReplyPinged(f) ==
  [shost |-> CHOOSE i \in Iface : IfIp[i] = f.dst, iface |-> Route[f.src],
   src |-> f.dst, dst |-> f.src, ttl |-> InitTtl, what |-> "echo_reply"]

\* The echo request turned around, out of the interface of the route back.
EchoReply(f) ==
  [shost |-> Route[f.src], iface |-> Route[f.src], src |-> f.dst,
   dst |-> f.src, ttl |-> InitTtl, what |-> "echo_reply"]

\* An ICMP error about f, back out of the interface f came in by.
Error(f, what) ==
  [shost |-> f.iface, iface |-> f.iface, src |-> IfIp[f.iface],
   dst |-> f.src, ttl |-> InitTtl, what |-> what]

\* Mutant of Forward: the packet leaves by the interface it came in by.
ForwardBack(f) ==
  [shost |-> f.iface, iface |-> f.iface, src |-> f.src, dst |-> f.dst,
   ttl |-> (f.ttl + TtlMod - 1) % TtlMod, what |-> "forward"]

\* Mutant of Forward: the TTL is computed in an int and kept as one.
ForwardUnwrapped(f) ==
  [shost |-> Route[f.dst], iface |-> Route[f.dst], src |-> f.src,
   dst |-> f.dst, ttl |-> f.ttl - 1, what |-> "forward"]

\* The packet itself, with the next TTL, which wraps at 0.
Forward(f) ==
  [shost |-> Route[f.dst], iface |-> Route[f.dst], src |-> f.src,
   dst |-> f.dst, ttl |-> (f.ttl + TtlMod - 1) % TtlMod, what |-> "forward"]

\* The ICMP error sr_arpcache_handle_arpreq makes for a packet it gives up.
HostUnreachable(q) ==
  [shost |-> Route[q.src], iface |-> Route[q.src], src |-> IfIp[Route[q.src]],
   dst |-> q.src, ttl |-> InitTtl, what |-> "host_unreachable"]

\* The ARP request turned around, out of the interface it came in by.
ArpAnswer(f) ==
  [shost |-> f.iface, iface |-> f.iface, sip |-> IfIp[f.iface], tip |-> f.sip]

\* sr_ether_addrs_match_interface
Sendable(q) == q.shost = q.iface

\* sr_send_packet of every IP packet of Q.
Send(Q) ==
  /\ sent' = sent \cup {q \in Q : Sendable(q)}
  /\ refused' = refused \cup {q \in Q : ~Sendable(q)}

\* Look every destination up and send, or queue and call handle_arpreq, which
\* looks for a route to the destination and uses what it finds: the program
\* ends where it finds none.
Transmit(Q, waiting) ==
  /\ Send({q \in Q : q.dst \in cache})
  /\ pending' = waiting \cup {q \in Q : q.dst \notin cache}
  /\ fault' = {q \in Q : q.dst \notin cache /\ Route[q.dst] = NULL}

-----------------------------------------------------------------------------
(* sr_handlepacket. *)

\* Mutant of Admitted: only the source is looked up in the blacklist.
AdmittedSource(f) ==
  f.kind = "ip" /\ f.sound /\ f.src \notin Black

\* The frame passes the checks and is not blacklisted.
Admitted(f) ==
  f.kind = "ip" /\ f.sound /\ f.src \notin Black /\ f.dst \notin Black

Mine(a) == \E i \in Iface : IfIp[i] = a

Handle == fault = {} /\ handled < MaxFrames /\ handled' = handled + 1

\* Frames that are checked and dropped, or are neither IP nor ARP.
Drop(f) ==
  /\ Handle
  /\ \/ f.kind = "other"
     \/ f.kind = "ip" /\ ~Admitted(f)
     \/ f.kind = "ip" /\ Admitted(f) /\ Mine(f.dst) /\ f.proto \in {"icmp", "other"}
     \/ /\ f.kind = "ip" /\ Admitted(f) /\ Mine(f.dst) /\ f.proto = "echo"
        /\ Route[f.src] = NULL
     \/ f.kind = "arp" /\ (~f.sound \/ f.tip # IfIp[f.iface] \/ f.op = "other")
  /\ UNCHANGED <<cache, pending, sent, refused, arped, fault>>

\* Mutant of Echo: no check that there is a route back.
EchoUnchecked(f) ==
  /\ Handle
  /\ Admitted(f) /\ Mine(f.dst) /\ f.proto = "echo"
  /\ Transmit({EchoReply(f)}, pending)
  /\ UNCHANGED <<cache, arped>>

\* An ICMP echo request for the router.
Echo(f) ==
  /\ Handle
  /\ Admitted(f) /\ Mine(f.dst) /\ f.proto = "echo" /\ Route[f.src] # NULL
  /\ Transmit({EchoReply(f)}, pending)
  /\ UNCHANGED <<cache, arped>>

\* TCP or UDP for the router.
PortUnreachable(f) ==
  /\ Handle
  /\ Admitted(f) /\ Mine(f.dst) /\ f.proto = "tcp_udp"
  /\ Transmit({Error(f, "port_unreachable")}, pending)
  /\ UNCHANGED <<cache, arped>>

TtlExceeded(f) ==
  /\ Handle
  /\ Admitted(f) /\ ~Mine(f.dst) /\ Route[f.dst] # NULL /\ f.ttl = 1
  /\ Transmit({Error(f, "ttl_exceeded")}, pending)
  /\ UNCHANGED <<cache, arped>>

ForwardPacket(f) ==
  /\ Handle
  /\ Admitted(f) /\ ~Mine(f.dst) /\ Route[f.dst] # NULL /\ f.ttl # 1
  /\ Transmit({Forward(f)}, pending)
  /\ UNCHANGED <<cache, arped>>

NetUnreachable(f) ==
  /\ Handle
  /\ Admitted(f) /\ ~Mine(f.dst) /\ Route[f.dst] = NULL
  /\ Transmit({Error(f, "net_unreachable")}, pending)
  /\ UNCHANGED <<cache, arped>>

\* An ARP request for the address of the interface is answered there, whoever
\* asks.
ArpRequest(f) ==
  /\ Handle
  /\ f.kind = "arp" /\ f.sound /\ f.tip = IfIp[f.iface] /\ f.op = "request"
  /\ IF Sendable(ArpAnswer(f))
     THEN arped' = arped \cup {ArpAnswer(f)} /\ UNCHANGED refused
     ELSE refused' = refused \cup {ArpAnswer(f)} /\ UNCHANGED arped
  /\ UNCHANGED <<cache, pending, sent, fault>>

\* An ARP reply gives a mapping, unless the cache is full (SrArp), and the
\* packets that wait for it are sent either way.
ArpReply(f) ==
  /\ Handle
  /\ f.kind = "arp" /\ f.sound /\ f.tip = IfIp[f.iface] /\ f.op = "reply"
  /\ cache' \in {cache, cache \cup {f.sip}}
  /\ Send({q \in pending : q.dst = f.sip})
  /\ pending' = {q \in pending : q.dst # f.sip}
  /\ UNCHANGED <<arped, fault>>

-----------------------------------------------------------------------------
(* The ARP cache on its own: SrArp. *)

Expire(a) ==
  /\ fault = {} /\ a \in cache
  /\ cache' = cache \ {a}
  /\ UNCHANGED <<pending, sent, refused, arped, handled, fault>>

\* The errors for the packets that wait for a, where there is a route back.
Unreachables(a) ==
  {HostUnreachable(q) :
     q \in {p \in pending : p.dst = a /\ Route[p.src] # NULL}}

\* The request for a is given up, by the sweep or by a handle_arpreq of the
\* main thread right after it has queued a packet; the nested requests this
\* makes (SrArp) may be given up next.
GiveUp(a) ==
  /\ fault = {} /\ \E q \in pending : q.dst = a
  /\ Transmit(Unreachables(a), {q \in pending : q.dst # a})
  /\ UNCHANGED <<cache, arped, handled>>

\* The program has crashed, or the bound on the frames is reached.
Halted == (fault # {} \/ handled = MaxFrames) /\ UNCHANGED vars

Init ==
  /\ cache = {} /\ pending = {} /\ sent = {} /\ refused = {}
  /\ arped = {} /\ handled = 0 /\ fault = {}

HandlePacket(f) ==
  \/ Drop(f) \/ Echo(f) \/ PortUnreachable(f) \/ TtlExceeded(f)
  \/ ForwardPacket(f) \/ NetUnreachable(f) \/ ArpRequest(f) \/ ArpReply(f)

Next ==
  \/ \E f \in Frames : HandlePacket(f)
  \/ \E a \in Addr : Expire(a) \/ GiveUp(a)
  \/ Halted

Spec == Init /\ [][Next]_vars

-----------------------------------------------------------------------------
(* Properties. *)

\* sr_send_packet never refuses what the router makes, ARP replies included: at
\* once, or after it has waited for a mapping, its source hardware address is
\* that of the interface it leaves by.
NeverRefused == refused = {}

\* The blacklist: the router sends no IP packet to or for a blacklisted host,
\* and queues none for one, also not the errors made when a queued packet is
\* given up.  Its own address in that subnet is not a host.  (ARP requests of
\* such a host are answered: the blacklist is read for IP packets only.)
BlacklistSilent ==
  \A q \in sent \cup pending :
    /\ q.src \in Black => Mine(q.src)
    /\ q.dst \in Black => Mine(q.dst)

\* The errors that sr_handlepacket makes and sends back without looking up a
\* route.
DirectError == {"port_unreachable", "ttl_exceeded", "net_unreachable"}

\* Only an ICMP error about a frame from a source without a route meets the
\* null entry that sr_arpcache_handle_arpreq uses unchecked (sr_arpcache.c:121):
\* what is forwarded, an echo reply and a host unreachable, made much later for
\* whatever was queued, the router's own packets too, are sent only where there
\* is a route.
NeverUnrouted == \A q \in fault : q.what \in DirectError

\* A packet leaves by the interface on which its destination is resolved (the
\* ARP request goes out of the interface of the route, sr_arpcache.c:121), or
\* the hardware address it carries is that of a host on another link; only an
\* ICMP error about a frame that came in elsewhere does not.
LeavesOnLink ==
  \A q \in sent :
    \/ q.iface = Route[q.dst]
    \/ q.what \in DirectError /\ \E f \in Frames : f.kind = "ip" /\ f.src = q.dst
                                                /\ f.iface = q.iface

\* "When sending packet to next_hop_ip: entry = arpcache_lookup(next_hop_ip)"
\* (sr_arpcache.h:10-20): a packet waits only while the cache has no mapping of
\* its next hop, the gateway of its route.
WaitsForNextHop == \A q \in pending : Gateway[q.dst] \notin cache

=============================================================================
