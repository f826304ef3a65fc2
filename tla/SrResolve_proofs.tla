-------------------------- MODULE SrResolve_proofs --------------------------
(***************************************************************************)
(* Theorems about address resolution as the router sees it.                *)
(***************************************************************************)
EXTENDS SrResolve, TLAPS

\* A packet that waits is not in one of the other states, and waits for one hop.
LEMMA WaitingDistinct ==
  /\ \A ip, f : Waiting(ip) # Is(f)
  /\ \A ip, jp : Waiting(ip) = Waiting(jp) => ip = jp
<1>1. ASSUME NEW ip, NEW f PROVE Waiting(ip) # Is(f)
  <2>1. DOMAIN Waiting(ip) = {"waits"} /\ DOMAIN Is(f) = {"is"}
    BY DEF Waiting, Is
  <2>. QED BY <2>1
<1>2. ASSUME NEW ip, NEW jp, Waiting(ip) = Waiting(jp) PROVE ip = jp
  <2>1. Waiting(ip).waits = ip /\ Waiting(jp).waits = jp
    BY DEF Waiting
  <2>. QED BY <1>2, <2>1
<1>. QED BY <1>1, <1>2

\* The resolution of sr_arpcache.c never strands a packet: type correctness
\* and, with it, that no packet waits for a next hop whose mapping is known
\* (the lookup in sr_router.c:363 missed and the reply came before
\* sr_arpcache_queuereq).
THEOREM NeverStranded == Spec => [](TypeOK /\ NoneWaitsForKnown)
<1>. DEFINE Safe == TypeOK /\ NoneWaitsForKnown
<1>1. Init => Safe
  BY DEF Init, TypeOK, NoneWaitsForKnown, Is, Fate
<1>2. Safe /\ [Next]_vars => Safe'
  <2>. SUFFICES ASSUME Safe, [Next]_vars PROVE Safe'
    OBVIOUS
  <2>. USE WaitingDistinct
  <2>1. ASSUME NEW p \in Pkt, Deliver(p) PROVE Safe'
    BY <2>1 DEF Deliver, Become, TypeOK, NoneWaitsForKnown, Is, Fate
  <2>2. ASSUME NEW p \in Pkt, GiveUp(p) PROVE Safe'
    BY <2>2 DEF GiveUp, Become, TypeOK, NoneWaitsForKnown, Is, Fate
  <2>3. ASSUME NEW p \in Pkt, NEW ip \in IP, Offer(p, ip) PROVE Safe'
    BY <2>3 DEF Offer, Become, TypeOK, NoneWaitsForKnown, Is, Fate
  <2>4. ASSUME NEW ip \in IP, Answer(ip) PROVE Safe'
    BY <2>4 DEF Answer, TypeOK, NoneWaitsForKnown, Is, Fate
  <2>5. CASE Expire
    BY <2>5 DEF Expire, TypeOK, NoneWaitsForKnown
  <2>6. CASE Fail
    BY <2>6 DEF Fail, TypeOK, NoneWaitsForKnown
  <2>7. CASE UNCHANGED vars
    BY <2>7 DEF vars, TypeOK, NoneWaitsForKnown
  <2>. QED BY <2>1, <2>2, <2>3, <2>4, <2>5, <2>6, <2>7 DEF Next
<1>. QED BY <1>1, <1>2, PTL DEF Spec

=============================================================================
