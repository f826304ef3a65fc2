--------------------------- MODULE SrRouter_proofs ---------------------------
(***************************************************************************)
(* Proofs about SrRouter, for every topology, routing table, blacklist and *)
(* set of frames.                                                          *)
(*                                                                         *)
(* What leaves the router may have waited for a mapping, and a packet that *)
(* is given up is answered with a new one: the properties of what is sent  *)
(* are inductive only together with the same facts about what waits.       *)
(***************************************************************************)
EXTENDS SrRouter, TLAPS

\* The packet is on the link of its destination, or it is one of the errors
\* that go back where the frame came from.
OnLink(q) ==
  \/ q.iface = Route[q.dst]
  \/ q.what \in DirectError /\ \E f \in Frames : f.kind = "ip" /\ f.src = q.dst
                                              /\ f.iface = q.iface

\* Neither address of the packet is that of a blacklisted host.
Unlisted(q) ==
  /\ q.src \in Black => Mine(q.src)
  /\ q.dst \in Black => Mine(q.dst)

\* What every packet satisfies from the moment sr_handlepacket has made it.
Lawful(q) == q \in Packet /\ Sendable(q) /\ Unlisted(q) /\ OnLink(q)

\* Where the null entry is met by this packet, it is an error that
\* sr_handlepacket sends back without a lookup.
Routed(q) == Route[q.dst] = NULL => q.what \in DirectError

\* The inductive invariant: the facts about what is sent, of what waits too.
RouterInv ==
  /\ TypeOK /\ NeverRefused /\ NeverUnrouted
  /\ \A q \in sent \cup pending : Lawful(q)

-----------------------------------------------------------------------------
(* The packets the router makes. *)

\* The TTL that is written into a forwarded packet, one less and wrapping at
\* 0, is again a TTL.
LEMMA TtlLemma ==
  ASSUME NEW t \in Ttl PROVE (t + TtlMod - 1) % TtlMod \in Ttl
<1>1. TtlMod \in Nat /\ TtlMod > 0 /\ t \in Nat /\ t + TtlMod - 1 \in Nat
  BY FramesAssumption DEF Ttl
<1>2. \A a, b \in Nat : b > 0 => a % b \in 0..(b - 1)
  OBVIOUS
<1> QED BY <1>1, <1>2 DEF Ttl

\* An echo reply to an admitted request is lawful where there is a route back.
LEMMA EchoReplyLawful ==
  ASSUME NEW f \in Frames, Admitted(f), Mine(f.dst), Route[f.src] # NULL
  PROVE  Lawful(EchoReply(f)) /\ Routed(EchoReply(f))
<1>1. f \in IpFrame
  BY FramesAssumption DEF Admitted, IpFrame, ArpFrame, OtherFrame
<1>2. f.src \in Addr /\ f.dst \in Addr /\ Route[f.src] \in Iface
  BY <1>1, TopologyAssumption DEF IpFrame
<1>3. InitTtl \in Ttl
  BY FramesAssumption
<1>4. EchoReply(f) \in Packet
  BY <1>2, <1>3 DEF EchoReply, Packet
<1> QED BY <1>4 DEF Lawful, Routed, Sendable, Unlisted, OnLink, Admitted, EchoReply

\* An error about an admitted frame is lawful, with or without a route back.
LEMMA ErrorLawful ==
  ASSUME NEW f \in Frames, Admitted(f), NEW what \in DirectError
  PROVE  Lawful(Error(f, what)) /\ Routed(Error(f, what))
<1>1. f \in IpFrame
  BY FramesAssumption DEF Admitted, IpFrame, ArpFrame, OtherFrame
<1>2. f.src \in Addr /\ f.iface \in Iface /\ IfIp[f.iface] \in Addr
  BY <1>1, TopologyAssumption DEF IpFrame
<1>3. InitTtl \in Ttl
  BY FramesAssumption
<1>4. Error(f, what) \in Packet
  BY <1>2, <1>3 DEF Error, Packet, DirectError
<1>5. Mine(Error(f, what).src)
  BY <1>2 DEF Error, Mine
<1> QED BY <1>4, <1>5 DEF Lawful, Routed, Sendable, Unlisted, OnLink, Admitted, Error

\* A packet that is forwarded is lawful: it has a route and neither of its
\* addresses is blacklisted.
LEMMA ForwardLawful ==
  ASSUME NEW f \in Frames, Admitted(f), Route[f.dst] # NULL
  PROVE  Lawful(Forward(f)) /\ Routed(Forward(f))
<1>1. f \in IpFrame
  BY FramesAssumption DEF Admitted, IpFrame, ArpFrame, OtherFrame
<1>2. f.src \in Addr /\ f.dst \in Addr /\ Route[f.dst] \in Iface /\ f.ttl \in Ttl
  BY <1>1, TopologyAssumption DEF IpFrame
<1>3. (f.ttl + TtlMod - 1) % TtlMod \in Ttl
  BY <1>2, TtlLemma
<1>4. Forward(f) \in Packet
  BY <1>2, <1>3 DEF Forward, Packet
<1> QED BY <1>4 DEF Lawful, Routed, Sendable, Unlisted, OnLink, Admitted, Forward

\* The error for a lawful packet that is given up is lawful: an address that
\* may not be sent for could only be one of the router's own.
LEMMA HostUnreachableLawful ==
  ASSUME NEW q, Lawful(q), Route[q.src] # NULL
  PROVE  Lawful(HostUnreachable(q)) /\ Routed(HostUnreachable(q))
<1>1. q.src \in Addr /\ Route[q.src] \in Iface /\ IfIp[Route[q.src]] \in Addr
  BY TopologyAssumption DEF Lawful, Packet
<1>2. InitTtl \in Ttl
  BY FramesAssumption
<1>3. HostUnreachable(q) \in Packet
  BY <1>1, <1>2 DEF HostUnreachable, Packet
<1>4. Mine(HostUnreachable(q).src)
  BY <1>1 DEF HostUnreachable, Mine
<1> QED
  BY <1>3, <1>4
  DEF Lawful, Routed, Sendable, Unlisted, OnLink, HostUnreachable

-----------------------------------------------------------------------------
(* What sending and queueing preserve. *)

\* sr_send_packet of lawful packets refuses none of them.
LEMMA SendLemma ==
  ASSUME NEW Q, \A q \in Q : Lawful(q), RouterInv, Send(Q)
  PROVE  sent' = sent \cup Q /\ refused' = {}
<1>1. \A q \in Q : Sendable(q)
  BY DEF Lawful
<1> QED BY <1>1 DEF Send, RouterInv, NeverRefused

\* Sending or queueing lawful packets, with some of those that waited left
\* waiting, keeps what the invariant says of the packets.
LEMMA TransmitLemma ==
  ASSUME NEW Q, \A q \in Q : Lawful(q) /\ Routed(q),
         NEW W, W \subseteq pending, RouterInv, Transmit(Q, W)
  PROVE  /\ NeverRefused' /\ NeverUnrouted'
         /\ sent' \subseteq Packet /\ pending' \subseteq Packet
         /\ refused' \subseteq Packet \cup ArpPacket /\ fault' \subseteq Packet
         /\ \A q \in sent' \cup pending' : Lawful(q)
<1> DEFINE S == {q \in Q : q.dst \in cache}
<1>1. sent' = sent \cup S /\ refused' = {}
  <2>1. Send(S) /\ \A q \in S : Lawful(q)
    BY DEF Transmit
  <2> HIDE DEF S
  <2> QED BY <2>1, SendLemma
<1>2. pending' = W \cup {q \in Q : q.dst \notin cache}
  BY DEF Transmit
<1>3. \A q \in sent' \cup pending' : Lawful(q)
  BY <1>1, <1>2 DEF RouterInv
<1>4. fault' \subseteq Q /\ \A q \in fault' : Route[q.dst] = NULL
  BY DEF Transmit
<1>5. NeverUnrouted'
  BY <1>4 DEF NeverUnrouted, Routed
<1> QED BY <1>1, <1>3, <1>4, <1>5 DEF NeverRefused, Lawful

-----------------------------------------------------------------------------
(* One lemma per kind of step. *)

\* Every case of sr_handlepacket that makes a packet preserves the invariant.
LEMMA MakeInv ==
  ASSUME RouterInv, NEW q, Lawful(q), Routed(q), Handle,
         Transmit({q}, pending), UNCHANGED <<cache, arped>>
  PROVE  RouterInv'
<1>1. /\ NeverRefused' /\ NeverUnrouted'
      /\ sent' \subseteq Packet /\ pending' \subseteq Packet
      /\ refused' \subseteq Packet \cup ArpPacket /\ fault' \subseteq Packet
      /\ \A p \in sent' \cup pending' : Lawful(p)
  BY TransmitLemma
<1>2. handled' \in 0..MaxFrames
  BY FramesAssumption DEF Handle, RouterInv, TypeOK
<1> QED BY <1>1, <1>2 DEF RouterInv, TypeOK

\* An ARP reply sends what waited for it, which is lawful already.
LEMMA ArpReplyInv ==
  ASSUME RouterInv, NEW f \in Frames, ArpReply(f)
  PROVE  RouterInv'
<1> DEFINE S == {q \in pending : q.dst = f.sip}
<1>1. f \in ArpFrame
  BY FramesAssumption DEF ArpReply, IpFrame, ArpFrame, OtherFrame
<1>2. cache' \subseteq Addr
  BY <1>1 DEF ArpReply, ArpFrame, RouterInv, TypeOK
<1>3. sent' = sent \cup S /\ refused' = {}
  <2>1. Send(S) /\ \A q \in S : Lawful(q)
    BY DEF ArpReply, RouterInv
  <2> HIDE DEF S
  <2> QED BY <2>1, SendLemma
<1>4. \A q \in sent' \cup pending' : Lawful(q)
  BY <1>3 DEF ArpReply, RouterInv
<1>5. handled' \in 0..MaxFrames
  BY FramesAssumption DEF ArpReply, Handle, RouterInv, TypeOK
<1>6. arped' = arped /\ fault' = fault
  BY DEF ArpReply
<1> QED
  BY <1>2, <1>3, <1>4, <1>5, <1>6
  DEF RouterInv, TypeOK, NeverRefused, NeverUnrouted, Lawful

\* sr_handlepacket preserves the invariant.
LEMMA HandlePacketInv ==
  ASSUME RouterInv, NEW f \in Frames, HandlePacket(f)
  PROVE  RouterInv'
<1>1. CASE Drop(f)
  <2>1. handled' \in 0..MaxFrames
    BY <1>1, FramesAssumption DEF Drop, Handle, RouterInv, TypeOK
  <2> QED BY <1>1, <2>1 DEF Drop, RouterInv, TypeOK, NeverRefused, NeverUnrouted
<1>2. CASE Echo(f)
  BY <1>2, EchoReplyLawful, MakeInv DEF Echo
<1>3. CASE PortUnreachable(f)
  <2>1. "port_unreachable" \in DirectError
    BY DEF DirectError
  <2> QED BY <1>3, <2>1, ErrorLawful, MakeInv DEF PortUnreachable
<1>4. CASE TtlExceeded(f)
  <2>1. "ttl_exceeded" \in DirectError
    BY DEF DirectError
  <2> QED BY <1>4, <2>1, ErrorLawful, MakeInv DEF TtlExceeded
<1>5. CASE ForwardPacket(f)
  BY <1>5, ForwardLawful, MakeInv DEF ForwardPacket
<1>6. CASE NetUnreachable(f)
  <2>1. "net_unreachable" \in DirectError
    BY DEF DirectError
  <2> QED BY <1>6, <2>1, ErrorLawful, MakeInv DEF NetUnreachable
<1>7. CASE ArpRequest(f)
  <2>1. f \in ArpFrame
    BY <1>7, FramesAssumption DEF ArpRequest, IpFrame, ArpFrame, OtherFrame
  <2>2. ArpAnswer(f) \in ArpPacket /\ Sendable(ArpAnswer(f))
    BY <2>1, TopologyAssumption DEF ArpFrame, ArpPacket, ArpAnswer, Sendable
  <2>3. /\ handled' \in 0..MaxFrames /\ arped' \subseteq ArpPacket
        /\ UNCHANGED <<cache, pending, sent, refused, fault>>
    BY <1>7, <2>2, FramesAssumption DEF ArpRequest, Handle, RouterInv, TypeOK
  <2> QED
    BY <2>3 DEF RouterInv, TypeOK, NeverRefused, NeverUnrouted
<1>8. CASE ArpReply(f)
  BY <1>8, ArpReplyInv
<1> QED BY <1>1, <1>2, <1>3, <1>4, <1>5, <1>6, <1>7, <1>8 DEF HandlePacket

\* Giving a request up answers what waited for it with lawful packets.
LEMMA GiveUpInv ==
  ASSUME RouterInv, NEW a \in Addr, GiveUp(a)
  PROVE  RouterInv'
<1> DEFINE W == {q \in pending : q.dst # a}
<1>1. \A q \in Unreachables(a) : Lawful(q) /\ Routed(q)
  <2> SUFFICES ASSUME NEW p \in pending, Route[p.src] # NULL
               PROVE  Lawful(HostUnreachable(p)) /\ Routed(HostUnreachable(p))
    BY DEF Unreachables
  <2>1. Lawful(p)
    BY DEF RouterInv
  <2> QED BY <2>1, HostUnreachableLawful
<1>2. Transmit(Unreachables(a), W) /\ W \subseteq pending
  BY DEF GiveUp
<1> HIDE DEF W
<1>3. /\ NeverRefused' /\ NeverUnrouted'
      /\ sent' \subseteq Packet /\ pending' \subseteq Packet
      /\ refused' \subseteq Packet \cup ArpPacket /\ fault' \subseteq Packet
      /\ \A p \in sent' \cup pending' : Lawful(p)
  BY <1>1, <1>2, TransmitLemma
<1>4. cache' = cache /\ arped' = arped /\ handled' = handled
  BY DEF GiveUp
<1> QED BY <1>3, <1>4 DEF RouterInv, TypeOK

-----------------------------------------------------------------------------
(* The theorems. *)

\* RouterInv is an invariant of the router: whatever arrives, in whatever
\* order mappings come, expire and are given up, every packet sent or waiting
\* satisfies what was true of it when it was made.
THEOREM RouterInvHolds == Spec => []RouterInv
<1>1. Init => RouterInv
  BY FramesAssumption
  DEF Init, RouterInv, TypeOK, NeverRefused, NeverUnrouted
<1>2. RouterInv /\ [Next]_vars => RouterInv'
  <2> SUFFICES ASSUME RouterInv, [Next]_vars PROVE RouterInv'
    OBVIOUS
  <2>1. ASSUME NEW f \in Frames, HandlePacket(f) PROVE RouterInv'
    BY <2>1, HandlePacketInv
  <2>2. ASSUME NEW a \in Addr, Expire(a) PROVE RouterInv'
    BY <2>2 DEF Expire, RouterInv, TypeOK, NeverRefused, NeverUnrouted
  <2>3. ASSUME NEW a \in Addr, GiveUp(a) PROVE RouterInv'
    BY <2>3, GiveUpInv
  <2>4. CASE UNCHANGED vars
    BY <2>4 DEF vars, RouterInv, TypeOK, NeverRefused, NeverUnrouted
  <2> QED BY <2>1, <2>2, <2>3, <2>4 DEF Next, Halted
<1> QED BY <1>1, <1>2, PTL DEF Spec

\* Every variable keeps a value of its kind; in particular the interface of a
\* packet is never the null route, and a TTL stays within its octet.
THEOREM RouterTypeCorrect == Spec => []TypeOK
<1>1. RouterInv => TypeOK
  BY DEF RouterInv
<1> QED BY <1>1, RouterInvHolds, PTL

\* sr_send_packet refuses no packet of sr_handlepacket or of the ARP cache:
\* the hardware address it checks is that of the interface the packet leaves
\* by, whatever waits in between.
THEOREM SendNeverRefused == Spec => []NeverRefused
<1>1. RouterInv => NeverRefused
  BY DEF RouterInv
<1> QED BY <1>1, RouterInvHolds, PTL

\* Nothing is sent or queued to or for a blacklisted host, errors about
\* packets given up included.
THEOREM BlacklistHolds == Spec => []BlacklistSilent
<1>1. RouterInv => BlacklistSilent
  BY DEF RouterInv, Lawful, Unlisted, BlacklistSilent
<1> QED BY <1>1, RouterInvHolds, PTL

\* The null entry in sr_arpcache_handle_arpreq is met only by the three errors
\* that sr_handlepacket sends back without a lookup.
THEOREM NullRouteOnlyByErrors == Spec => []NeverUnrouted
<1>1. RouterInv => NeverUnrouted
  BY DEF RouterInv
<1> QED BY <1>1, RouterInvHolds, PTL

\* A packet leaves by the interface on which its destination is resolved, but
\* for an error about a frame that came in by another one.
THEOREM EveryPacketOnLink == Spec => []LeavesOnLink
<1>1. RouterInv => LeavesOnLink
  BY DEF RouterInv, Lawful, OnLink, LeavesOnLink
<1> QED BY <1>1, RouterInvHolds, PTL

=============================================================================
