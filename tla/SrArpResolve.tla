---------------------------- MODULE SrArpResolve ----------------------------
(***************************************************************************)
(* The ARP cache and its two threads (SrArp) implement address resolution  *)
(* as the rest of the router sees it (SrResolve).                          *)
(***************************************************************************)
EXTENDS SrArp

\* The packet is among those the loop of main over the answered request has
\* still to send.
BeingFlushed(p) ==
  /\ job.at = "flush"
  /\ \E i \in 1..job.left : reqs[job.req].packets[i].pkt = p

\* The hop a packet was queued for, or is about to be.
WaitsFor(p, ip) ==
  \/ job.at = "queue" /\ job.pkt = p /\ job.hop = ip
  \/ \E r \in heap : /\ reqs[r].ip = ip
                     /\ \E i \in DOMAIN reqs[r].packets :
                          reqs[r].packets[i].pkt = p

\* What has become of a packet.
StateOf(p) ==
  CASE p \notin arrived -> [is |-> "new"]
    [] fwd[p] > 0       -> [is |-> "sent"]
    [] p \in settled    -> [is |-> "unreachable"]
    [] BeingFlushed(p)  -> [is |-> "answered"]
    [] OTHER            -> [waits |-> CHOOSE ip \in IP : WaitsFor(p, ip)]

Resolve == INSTANCE SrResolve WITH
  state  <- [p \in Pkt |-> StateOf(p)],
  known  <- {ip \in IP : Cached(ip)},
  failed <- fault # "none"

\* SrArp implements SrResolve: whatever the interleaving of the two threads,
\* nested calls of handle_arpreq and requests destroyed under way, every
\* packet waits, is sent or is given up as SrResolve says; an answer frees all
\* packets of the hop at once, none is given up whose hop is cached, none is
\* sent without an answer.
ImplementsResolve == Resolve!Spec

-----------------------------------------------------------------------------
(* Where the packets are: the invariant the refinement rests on. *)

\* Packet p is the i-th of those that wait in request r.
Held(r, i, p) ==
  r \in heap /\ i \in DOMAIN reqs[r].packets /\ reqs[r].packets[i].pkt = p

\* A discard loop over request r is past its i-th packet.
Past(r, i) ==
  \E t \in Thread : \E k \in DOMAIN stack[t] :
    /\ stack[t][k].at \in {"discard", "enqueue"}
    /\ stack[t][k].req = r /\ stack[t][k].left < i

\* A packet that was not handed over has not been touched.
NewUntouched == \A p \in Pkt \ arrived : fwd[p] = 0 /\ p \notin settled

\* The packet main is about to queue is nowhere else.
JobPacketAlone ==
  job.at = "queue" =>
    /\ job.pkt \in arrived \ settled /\ fwd[job.pkt] = 0
    /\ \A r \in heap : \A i \in DOMAIN reqs[r].packets : ~Held(r, i, job.pkt)

\* A packet waits in one place of one request.
OnePlace ==
  \A r, s \in heap :
    \A i \in DOMAIN reqs[r].packets, j \in DOMAIN reqs[s].packets :
      \A p \in Pkt : Held(r, i, p) /\ Held(s, j, p) => r = s /\ i = j

\* A packet in a request was handed over; it has been sent just when main is
\* past it in its loop over that request, and dealt with as unreachable just
\* when a discard loop over that request is past it.
HeldFate ==
  \A r \in heap : \A i \in DOMAIN reqs[r].packets : \A p \in Pkt :
    Held(r, i, p) =>
      /\ p \in arrived
      /\ fwd[p] > 0 <=> job.at = "flush" /\ job.req = r /\ i > job.left
      /\ p \in settled <=> Past(r, i)

\* An allocated request is on the queue, or is the one main is serving.
HeapQueued ==
  \A r \in heap : \/ \E i \in DOMAIN requests : requests[i] = r
                  \/ job.at = "flush" /\ job.req = r

\* The ledger of the packets: PacketAccounted together with the place of every
\* packet, in spite of two discard loops over one request (one of each thread,
\* or nested calls) and of requests freed under one of them.
Ledger ==
  /\ NewUntouched /\ JobPacketAlone /\ OnePlace /\ HeldFate /\ HeapQueued
  /\ PacketAccounted

=============================================================================
