------------------------ MODULE SrArpResolve_proofs ------------------------
(***************************************************************************)
(* Proofs that no packet is lost or sent twice (PacketAccounted) and that  *)
(* SrArp implements SrResolve, for any number of packets, addresses, slots *)
(* and nested calls.                                                       *)
(***************************************************************************)
EXTENDS SrArpResolve, SrArp_proofs

-----------------------------------------------------------------------------
(* The discard loops. *)

\* The activation f is in a discard loop over r, past its i-th packet.
Looping(f, r, i) ==
  f.at \in {"discard", "enqueue"} /\ f.req = r /\ f.left < i

\* Past, with its activations named.
LEMMA PastLemma ==
  \A r, i : Past(r, i) <=>
    \E t \in Thread : \E k \in DOMAIN stack[t] : Looping(stack[t][k], r, i)
  BY DEF Past, Looping

\* The innermost activation moves on without going back in its loop.
LEMMA PastSetTop ==
  ASSUME TypeOK, NEW t \in Thread, stack[t] # <<>>, NEW f \in Frame,
         SetTop(t, f), NEW r, NEW i, Looping(Top(t), r, i) => Looping(f, r, i)
  PROVE  Past(r, i)' <=> Past(r, i) \/ Looping(f, r, i)
  <1>1. \A u \in Thread :
           /\ DOMAIN stack'[u] = DOMAIN stack[u]
           /\ \A k \in DOMAIN stack[u] :
                stack'[u][k] = IF u = t /\ k = Len(stack[t]) THEN f
                               ELSE stack[u][k]
    BY SetTopExact
  <1>2. Len(stack[t]) \in DOMAIN stack[t] /\ Top(t) = stack[t][Len(stack[t])]
    BY TopLemma DEF Top
  <1>3. Past(r, i)' <=>
          \E u \in Thread : \E k \in DOMAIN stack'[u] : Looping(stack'[u][k], r, i)
    BY DEF Past, Looping
  <1>4. Past(r, i) <=>
          \E u \in Thread : \E k \in DOMAIN stack[u] : Looping(stack[u][k], r, i)
    BY DEF Past, Looping
  <1> QED  BY <1>1, <1>2, <1>3, <1>4

\* An activation that is not in the loop returns.
LEMMA PastReturn ==
  ASSUME TypeOK, NEW t \in Thread, stack[t] # <<>>, Return(t), NEW r, NEW i,
         ~Looping(Top(t), r, i)
  PROVE  Past(r, i)' <=> Past(r, i)
  <1>1. \A u \in Thread :
           /\ DOMAIN stack'[u] = IF u = t THEN 1..(Len(stack[t]) - 1)
                                 ELSE DOMAIN stack[u]
           /\ \A k \in DOMAIN stack'[u] : stack'[u][k] = stack[u][k]
    BY ReturnExact
  <1>2. /\ Top(t) = stack[t][Len(stack[t])] /\ Len(stack[t]) \in Nat
        /\ DOMAIN stack[t] = 1..Len(stack[t])
    BY DEF Top, TypeOK
  <1>3. Past(r, i)' <=>
          \E u \in Thread : \E k \in DOMAIN stack'[u] : Looping(stack'[u][k], r, i)
    BY DEF Past, Looping
  <1>4. Past(r, i) <=>
          \E u \in Thread : \E k \in DOMAIN stack[u] : Looping(stack[u][k], r, i)
    BY DEF Past, Looping
  <1>5. \A u \in Thread : \A k \in DOMAIN stack'[u] :
          k \in DOMAIN stack[u] /\ stack'[u][k] = stack[u][k]
    BY <1>1, <1>2
  <1>6. \A u \in Thread : \A k \in DOMAIN stack[u] :
          \/ k \in DOMAIN stack'[u]
          \/ u = t /\ k = Len(stack[t])
    BY <1>1, <1>2
  <1> QED  BY <1>2, <1>3, <1>4, <1>5, <1>6

\* A nested call: the caller stays in its loop where it is.
LEMMA PastPush ==
  ASSUME TypeOK, NEW t \in Thread, stack[t] # <<>>,
         NEW f \in Frame, NEW g \in Frame,
         Pushes(t, f, g),
         NEW r, NEW i, Looping(f, r, i) <=> Looping(Top(t), r, i),
         ~Looping(g, r, i)
  PROVE  Past(r, i)' <=> Past(r, i)
  <1>1. \A u \in Thread :
           /\ DOMAIN stack'[u] = IF u = t THEN 1..(Len(stack[t]) + 1)
                                 ELSE DOMAIN stack[u]
           /\ \A k \in DOMAIN stack[u] :
                /\ k \in DOMAIN stack'[u]
                /\ stack'[u][k] = IF u = t /\ k = Len(stack[t]) THEN f
                                  ELSE stack[u][k]
           /\ u = t => stack'[u][Len(stack[t]) + 1] = g
    BY PushExact
  <1>2. /\ Top(t) = stack[t][Len(stack[t])] /\ Len(stack[t]) \in Nat
        /\ DOMAIN stack[t] = 1..Len(stack[t]) /\ Len(stack[t]) \in DOMAIN stack[t]
    <2>1. stack[t] \in Seq(Frame) /\ Len(stack[t]) \in DOMAIN stack[t]
      BY TopLemma
    <2> QED  BY <2>1 DEF Top
  <1>3. Past(r, i)' <=>
          \E u \in Thread : \E k \in DOMAIN stack'[u] : Looping(stack'[u][k], r, i)
    BY DEF Past, Looping
  <1>4. Past(r, i) <=>
          \E u \in Thread : \E k \in DOMAIN stack[u] : Looping(stack[u][k], r, i)
    BY DEF Past, Looping
  <1>5. \A u \in Thread : \A k \in DOMAIN stack'[u] :
          k \in DOMAIN stack[u] \/ stack'[u][k] = g
    BY <1>1, <1>2
  <1>6. \A u \in Thread : \A k \in DOMAIN stack[u] :
          k \in DOMAIN stack'[u]
            /\ (Looping(stack'[u][k], r, i) <=> Looping(stack[u][k], r, i))
    BY <1>1, <1>2
  <1> QED  BY <1>3, <1>4, <1>5, <1>6

\* A first call starts outside of the loop.
LEMMA PastFirstCall ==
  ASSUME TypeOK, NEW t \in Thread, stack[t] = <<>>, NEW q \in ReqId,
         stack' = [stack EXCEPT ![t] = <<Call(q)>>], NEW r, NEW i
  PROVE  Past(r, i)' <=> Past(r, i)
  <1>1. /\ stack'[t] = <<Call(q)>> /\ DOMAIN stack'[t] = {1}
        /\ stack'[t][1] = Call(q)
        /\ \A u \in Thread : u # t => stack'[u] = stack[u]
        /\ DOMAIN stack[t] = {}
    BY DEF TypeOK
  <1>2. ~Looping(Call(q), r, i)
    BY DEF Call, Timed, Looping
  <1>3. Past(r, i)' <=>
          \E u \in Thread : \E k \in DOMAIN stack'[u] : Looping(stack'[u][k], r, i)
    BY DEF Past, Looping
  <1>4. Past(r, i) <=>
          \E u \in Thread : \E k \in DOMAIN stack[u] : Looping(stack[u][k], r, i)
    BY DEF Past, Looping
  <1> QED  BY <1>1, <1>2, <1>3, <1>4

-----------------------------------------------------------------------------
(* The places of the packets. *)

\* sr_arpcache_queuereq gives the packet one new place, in the request it
\* returns, and leaves every other packet where it is.
LEMMA QueueReqHeld ==
  ASSUME Inv, NEW ip \in IP, NEW pk \in Packet, NEW r \in ReqId,
         QueueReq(ip, pk, r)
  PROVE  /\ reqs'[r].ip = ip /\ r \in heap'
         /\ \A s \in heap : s \in heap' /\ reqs'[s].ip = reqs[s].ip
         /\ \A k \in DOMAIN requests :
              \E j \in DOMAIN requests' : requests'[j] = requests[k]
         /\ \A s \in heap' : s \in heap \/ s = r
         /\ \E j \in DOMAIN requests' : requests'[j] = r
         /\ \E n \in Nat \ {0} :
              /\ \A p : ~Held(r, n, p)
              /\ \A s, i, p : Held(s, i, p)' <=>
                   Held(s, i, p) \/ (s = r /\ i = n /\ p = pk.pkt)
         /\ job.at = "flush" => job.req # r
  <1>1. /\ requests \in Seq(ReqId) /\ heap \subseteq ReqId
        /\ reqs \in [ReqId -> Request] /\ reqs[r] \in Request
        /\ DOMAIN requests = 1..Len(requests) /\ Len(requests) \in Nat
    BY DEF Inv, TypeOK
  <1>2. reqs[r].packets \in Seq(Packet) /\ Len(reqs[r].packets) \in Nat
    BY <1>1 DEF Request
  <1>3. CASE /\ \E i \in DOMAIN requests : requests[i] = r /\ reqs[r].ip = ip
             /\ reqs' = [reqs EXCEPT ![r].packets = Append(@, pk)]
             /\ UNCHANGED <<requests, heap>>
    <2> DEFINE n == Len(reqs[r].packets) + 1
    <2>1. /\ reqs'[r].packets = Append(reqs[r].packets, pk)
          /\ \A s \in ReqId : reqs'[s].ip = reqs[s].ip
          /\ \A s \in ReqId \ {r} : reqs'[s] = reqs[s]
      BY <1>1, <1>3 DEF Request
    <2>2. /\ n \in Nat \ {0} /\ DOMAIN reqs[r].packets = 1..(n - 1)
          /\ DOMAIN reqs'[r].packets = 1..n
          /\ \A i \in 1..(n - 1) : reqs'[r].packets[i] = reqs[r].packets[i]
          /\ reqs'[r].packets[n] = pk
      BY <1>2, <2>1, AppendLemma
    <2>3. r \in heap /\ (job.at = "flush" => job.req # r)
      BY <1>3 DEF Inv, QueueSound, FlushOwns
    <2> HIDE DEF n
    <2>4. \A p : ~Held(r, n, p)
      BY <2>2 DEF Held
    <2>5. \A s, i, p : Held(s, i, p)' <=>
                   Held(s, i, p) \/ (s = r /\ i = n /\ p = pk.pkt)
      <3> TAKE s, i, p
      <3>1. CASE s = r
        <4>1. \A k \in 1..n : k = n \/ k \in 1..(n - 1)
          BY <2>2
        <4>2. n \in 1..n /\ \A k \in 1..(n - 1) : k \in 1..n
          BY <2>2
        <4>3. r \in heap'
          BY <1>3, <2>3
        <4>4. CASE i = n
          BY <2>2, <2>4, <3>1, <4>2, <4>3, <4>4 DEF Held
        <4>5. CASE i # n
          BY <2>2, <2>3, <3>1, <4>1, <4>2, <4>3, <4>5 DEF Held
        <4> QED  BY <4>4, <4>5
      <3>2. CASE s # r /\ s \in ReqId
        <4>1. (s \in heap' <=> s \in heap) /\ reqs'[s] = reqs[s]
          BY <1>3, <2>1, <3>2
        <4> QED  BY <3>2, <4>1 DEF Held
      <3>3. CASE s \notin ReqId
        BY <1>1, <1>3, <3>3 DEF Held
      <3> QED  BY <3>1, <3>2, <3>3
    <2>6. \A s \in heap : reqs'[s].ip = reqs[s].ip
      BY <1>1, <2>1
    <2> QED  BY <1>3, <2>2, <2>3, <2>4, <2>5, <2>6
  <1>4. CASE /\ Fresh # {} /\ r = CHOOSE x \in Fresh : TRUE
             /\ heap' = heap \cup {r}
             /\ requests' = Append(requests, r)
             /\ reqs' = [reqs EXCEPT ![r] =
                           [Blank(ip) EXCEPT !.packets = <<pk>>]]
    <2>1. r \notin heap
      BY <1>4 DEF Fresh
    <2>2. /\ reqs'[r] = [Blank(ip) EXCEPT !.packets = <<pk>>]
          /\ \A s \in ReqId \ {r} : reqs'[s] = reqs[s]
      BY <1>1, <1>4
    <2>3. reqs'[r].ip = ip /\ reqs'[r].packets = <<pk>>
      BY <2>2 DEF Blank
    <2>4. \A s, i, p : Held(s, i, p)' <=>
                   Held(s, i, p) \/ (s = r /\ i = 1 /\ p = pk.pkt)
      <3> TAKE s, i, p
      <3>1. CASE s = r
        <4>1. DOMAIN <<pk>> = {1} /\ <<pk>>[1] = pk
          OBVIOUS
        <4> QED  BY <1>4, <2>1, <2>3, <3>1, <4>1 DEF Held
      <3>2. CASE s # r /\ s \in ReqId
        <4>1. (s \in heap' <=> s \in heap) /\ reqs'[s] = reqs[s]
          BY <1>4, <2>2, <3>2
        <4> QED  BY <3>2, <4>1 DEF Held
      <3>3. CASE s \notin ReqId
        BY <1>1, <1>4, <3>3 DEF Held
      <3> QED  BY <3>1, <3>2, <3>3
    <2>5. \A p : ~Held(r, 1, p)
      BY <2>1 DEF Held
    <2>6. /\ DOMAIN requests' = 1..(Len(requests) + 1)
          /\ \A k \in DOMAIN requests : requests'[k] = requests[k]
          /\ requests'[Len(requests) + 1] = r
      BY <1>1, <1>4, AppendLemma
    <2>7. /\ \A k \in DOMAIN requests :
               \E j \in DOMAIN requests' : requests'[j] = requests[k]
          /\ \E j \in DOMAIN requests' : requests'[j] = r
      BY <1>1, <2>6
    <2>8. /\ \A s \in heap : reqs'[s].ip = reqs[s].ip
          /\ job.at = "flush" => job.req # r
      BY <1>1, <2>1, <2>2 DEF Inv, FlushOwns
    <2>9. \E n \in Nat \ {0} :
              /\ \A p : ~Held(r, n, p)
              /\ \A s, i, p : Held(s, i, p)' <=>
                   Held(s, i, p) \/ (s = r /\ i = n /\ p = pk.pkt)
      BY <2>4, <2>5
    <2> QED  BY <1>4, <2>3, <2>7, <2>8, <2>9, SMTT(30)
  <1> QED  BY <1>3, <1>4 DEF QueueReq

\* sr_arpreq_destroy takes the places of the request away and leaves every
\* other packet where it is.
LEMMA DestroyHeld ==
  ASSUME Inv, NEW r \in ReqId, Destroy(r)
  PROVE  /\ heap' = heap \ {r}
         /\ \A s \in heap \ {r} : reqs'[s] = reqs[s]
         /\ \A k \in DOMAIN requests : requests[k] # r =>
              \E j \in DOMAIN requests' : requests'[j] = requests[k]
         /\ \A s, i, p : Held(s, i, p)' <=> Held(s, i, p) /\ s # r
  <1>1. /\ heap' = heap \ {r} /\ heap \subseteq ReqId
        /\ \A s \in ReqId \ {r} : reqs'[s] = reqs[s]
    BY DEF Inv, TypeOK, Destroy
  <1>2. \A s, i, p : Held(s, i, p)' <=> Held(s, i, p) /\ s # r
    BY <1>1 DEF Held
  <1>3. \A k \in DOMAIN requests : requests[k] # r =>
          \E j \in DOMAIN requests' : requests'[j] = requests[k]
    <2>1. CASE requests' = requests
      BY <2>1
    <2>2. ASSUME NEW i \in DOMAIN requests, requests[i] = r,
                 requests' = RemoveAt(requests, i)
          PROVE  <1>3
      BY <2>2, UnlinkLemma DEF Inv
    <2> QED  BY <2>1, <2>2 DEF Destroy
  <1> QED  BY <1>1, <1>2, <1>3

-----------------------------------------------------------------------------
(* The ledger, packet by packet. *)

\* The packet is the one main is about to queue.
Queueing(p) == job.at = "queue" /\ job.pkt = p

\* Main is past the i-th packet of r in its loop over the answered request.
Flushed(r, i) == job.at = "flush" /\ job.req = r /\ i > job.left

\* What the ledger says of one packet.
Booked(p) ==
  /\ p \notin arrived => /\ fwd[p] = 0 /\ p \notin settled /\ ~Queueing(p)
                         /\ \A r, i : ~Held(r, i, p)
  /\ fwd[p] <= 1
  /\ fwd[p] = 1 => p \notin settled
  /\ p \in arrived /\ fwd[p] = 0 /\ p \notin settled =>
       Queueing(p) \/ \E r, i : Held(r, i, p)
  /\ Queueing(p) => /\ fwd[p] = 0 /\ p \notin settled
                    /\ \A r, i : ~Held(r, i, p)
  /\ \A r, s, i, j : Held(r, i, p) /\ Held(s, j, p) => r = s /\ i = j
  /\ \A r, i : Held(r, i, p) => /\ fwd[p] > 0 <=> Flushed(r, i)
                                /\ p \in settled <=> Past(r, i)

\* The ledger is what it says of every packet.
LEMMA LedgerForm ==
  TypeOK => (Ledger <=> HeapQueued /\ \A p \in Pkt : Booked(p))
  <1> SUFFICES ASSUME TypeOK
               PROVE  Ledger <=> HeapQueued /\ \A p \in Pkt : Booked(p)
    OBVIOUS
  <1>1. /\ fwd \in [Pkt -> Nat] /\ arrived \subseteq Pkt
        /\ job.at = "queue" => job.pkt \in Pkt
    BY DEF TypeOK, Job, Idle
  <1>2. ASSUME Ledger, NEW p \in Pkt PROVE Booked(p)
    <2>1. \A r, i : Held(r, i, p) =>
            /\ r \in heap /\ i \in DOMAIN reqs[r].packets
            /\ p \in arrived
            /\ fwd[p] > 0 <=> Flushed(r, i)
            /\ p \in settled <=> Past(r, i)
      BY <1>2 DEF Ledger, HeldFate, Held, Flushed
    <2>2. \A r, s, i, j : Held(r, i, p) /\ Held(s, j, p) => r = s /\ i = j
      BY <1>2, <2>1 DEF Ledger, OnePlace
    <2>3. Queueing(p) => /\ p \in arrived /\ fwd[p] = 0 /\ p \notin settled
                         /\ \A r, i : ~Held(r, i, p)
      BY <1>2, <2>1 DEF Ledger, JobPacketAlone, Queueing
    <2>4. p \notin arrived => fwd[p] = 0 /\ p \notin settled
      BY <1>2 DEF Ledger, NewUntouched
    <2>5. p \in arrived =>
            /\ fwd[p] = 0 => p \in settled \/ Pending(p)
            /\ fwd[p] <= 1
            /\ fwd[p] = 1 => p \notin settled
      BY <1>2 DEF Ledger, PacketAccounted
    <2>6. Pending(p) => Queueing(p) \/ \E r, i : Held(r, i, p)
      BY DEF Pending, Queueing, Held
    <2>7. fwd[p] <= 1
      BY <1>1, <2>4, <2>5
    <2>8. fwd[p] = 1 => p \notin settled
      BY <1>1, <2>4, <2>5
    <2> QED  BY <2>1, <2>2, <2>3, <2>4, <2>5, <2>6, <2>7, <2>8 DEF Booked
  <1>3. ASSUME HeapQueued, \A p \in Pkt : Booked(p) PROVE Ledger
    <2>1. NewUntouched
      BY <1>3 DEF Booked, NewUntouched
    <2>2. JobPacketAlone
      BY <1>1, <1>3 DEF Booked, JobPacketAlone, Queueing
    <2>3. OnePlace
      BY <1>3 DEF Booked, OnePlace
    <2>4. HeldFate
      BY <1>3 DEF Booked, HeldFate, Flushed
    <2>5. PacketAccounted
      <3> SUFFICES ASSUME NEW p \in arrived
                   PROVE  /\ fwd[p] = 0 => p \in settled \/ Pending(p)
                          /\ fwd[p] <= 1
                          /\ fwd[p] = 1 => p \notin settled
        BY DEF PacketAccounted
      <3>1. Booked(p)
        BY <1>1, <1>3
      <3>2. Queueing(p) \/ (\E r, i : Held(r, i, p)) => Pending(p)
        BY DEF Pending, Queueing, Held
      <3> QED  BY <3>1, <3>2 DEF Booked
    <2> QED  BY <1>3, <2>1, <2>2, <2>3, <2>4, <2>5 DEF Ledger
  <1> QED  BY <1>2, <1>3 DEF Ledger

\* The same after a step.
LEMMA LedgerFormNext ==
  (TypeOK => (Ledger <=> HeapQueued /\ \A p \in Pkt : Booked(p)))'
  BY LedgerForm, PTL

\* A packet that a step does not touch stays booked.
LEMMA BookedSame ==
  ASSUME NEW p, Booked(p), fwd'[p] = fwd[p],
         p \in arrived' <=> p \in arrived, p \in settled' <=> p \in settled,
         Queueing(p)' <=> Queueing(p),
         \A r, i : Held(r, i, p)' <=> Held(r, i, p),
         \A r, i : Held(r, i, p) => /\ Flushed(r, i)' <=> Flushed(r, i)
                                    /\ Past(r, i)' <=> Past(r, i)
  PROVE  Booked(p)'
  BY DEF Booked

\* A step that leaves the packets and the queue alone, and lets no discard
\* loop move, keeps the ledger.
LEMMA QuietLedger ==
  ASSUME Inv, Inv', Ledger,
         UNCHANGED <<heap, requests, job, arrived, fwd, settled>>,
         \A r \in ReqId : reqs'[r].packets = reqs[r].packets,
         \A r \in heap : \A i \in DOMAIN reqs[r].packets :
            Past(r, i)' <=> Past(r, i)
  PROVE  Ledger'
  <1>1. TypeOK /\ TypeOK' /\ heap \subseteq ReqId
    BY DEF Inv, TypeOK
  <1>2. HeapQueued /\ \A p \in Pkt : Booked(p)
    BY <1>1, LedgerForm
  <1>3. HeapQueued'
    BY <1>2 DEF HeapQueued
  <1>4. ASSUME NEW p \in Pkt PROVE Booked(p)'
    <2>1. \A r, i : Held(r, i, p)' <=> Held(r, i, p)
      BY <1>1 DEF Held
    <2>2. \A r, i : Held(r, i, p) => /\ Flushed(r, i)' <=> Flushed(r, i)
                                     /\ Past(r, i)' <=> Past(r, i)
      BY DEF Held, Flushed
    <2>3. Queueing(p)' <=> Queueing(p)
      BY DEF Queueing
    <2> QED  BY <1>2, <2>1, <2>2, <2>3, BookedSame
  <1> QED  BY <1>1, <1>3, <1>4, LedgerFormNext

-----------------------------------------------------------------------------
(* Steps that leave the packets alone. *)

\* An activation that is in no discard loop moves on, at most to the start of
\* one.
LEMMA TopLedger ==
  ASSUME Inv, Inv', Ledger, NEW t \in Thread, stack[t] # <<>>,
         NEW f \in Frame, SetTop(t, f),
         Top(t).at \notin {"discard", "enqueue"},
         f.at \in {"discard", "enqueue"} => f.left = Waiting(f.req),
         UNCHANGED <<heap, requests, job, arrived, fwd, settled>>,
         \A r \in ReqId : reqs'[r].packets = reqs[r].packets
  PROVE  Ledger'
  <1>1. TypeOK /\ heap \subseteq ReqId
    BY DEF Inv, TypeOK
  <1>2. ASSUME NEW r \in heap, NEW i \in DOMAIN reqs[r].packets
        PROVE  Past(r, i)' <=> Past(r, i)
    <2>1. ~Looping(Top(t), r, i)
      BY DEF Looping
    <2>2. reqs[r].packets \in Seq(Packet)
      BY <1>1 DEF TypeOK, Request
    <2>3. ~(Len(reqs[r].packets) < i)
      BY <2>2
    <2>4. ~Looping(f, r, i)
      BY <2>3 DEF Looping, Waiting
    <2> QED  BY <1>1, <2>1, <2>4, PastSetTop
  <1> QED  BY <1>2, QuietLedger

\* Finding a request freed moves no packet.
LEMMA DanglingLedger ==
  ASSUME Inv, Ledger, NEW t \in Thread, NEW r, Dangling(t, r)
  PROVE  Ledger'
  <1>1. UNCHANGED <<requests, heap, reqs, job, stack, arrived, fwd, settled>>
    BY DEF Dangling
  <1>2. Inv'
    BY DanglingInv
  <1>3. \A s, i : Past(s, i)' <=> Past(s, i)
    BY <1>1 DEF Past
  <1> QED  BY <1>1, <1>2, <1>3, QuietLedger

\* Reading the time and req->sent moves no packet.
LEMMA CheckLedger ==
  ASSUME Inv, Ledger, NEW t \in Thread, Check(t)
  PROVE  Ledger'
  <1>1. /\ TypeOK /\ stack[t] # <<>> /\ Top(t).at = "check" /\ Inv'
    BY CheckInv DEF Inv, Check, Active, Top
  <1>2. PICK r \in ReqId : r = Top(t).req
    BY <1>1, TopLemma
  <1>3. CASE Dangling(t, r)
    BY <1>3, DanglingLedger
  <1>4. CASE ~Dangling(t, r)
    <2>1. PICK f \in Frame : f = Timed("tries", r, 0)
      BY ActivationLemma DEF FrameAt, Due
    <2>2. /\ Return(t) \/ SetTop(t, f)
          /\ UNCHANGED <<requests, heap, reqs, job, arrived, fwd, settled>>
      BY <1>2, <1>4, <2>1 DEF Check
    <2>3. CASE Return(t)
      <3>1. \A s, i : ~Looping(Top(t), s, i)
        BY <1>1 DEF Looping
      <3>2. \A s, i : Past(s, i)' <=> Past(s, i)
        BY <1>1, <2>3, <3>1, PastReturn
      <3> QED  BY <1>1, <2>2, <3>2, QuietLedger
    <2>4. CASE SetTop(t, f)
      <3>1. f.at = "tries"
        BY <2>1 DEF Timed
      <3> QED  BY <1>1, <2>2, <2>4, <3>1, TopLedger
    <2> QED  BY <2>2, <2>3, <2>4
  <1> QED  BY <1>2, <1>3, <1>4 DEF Check

\* Giving a request up starts the discard loop before its first packet.
LEMMA CheckTriesLedger ==
  ASSUME Inv, Ledger, NEW t \in Thread, CheckTries(t)
  PROVE  Ledger'
  <1>1. /\ TypeOK /\ stack[t] # <<>> /\ Top(t).at = "tries" /\ Inv'
    BY CheckTriesInv DEF Inv, CheckTries, Active, Top
  <1>2. PICK r \in ReqId : r = Top(t).req
    BY <1>1, TopLemma
  <1>3. CASE Dangling(t, r)
    BY <1>3, DanglingLedger
  <1>4. CASE ~Dangling(t, r)
    <2>1. Waiting(r) \in Nat /\ Top(t).cur \in 0..Due
      <3>1. reqs[r].packets \in Seq(Packet)
        BY <1>1 DEF TypeOK, Request
      <3>2. Top(t).cur \in 0..Due
        BY <1>1, TopLemma DEF Frame
      <3> QED  BY <3>1, <3>2 DEF Waiting
    <2>2. PICK f \in Frame : f = IF GiveUp(r)
                                 THEN Discarding("discard", r, Waiting(r), NULL)
                                 ELSE Timed("resend", r, Top(t).cur)
      BY <2>1, ActivationLemma DEF FrameAt, Due
    <2>3. /\ SetTop(t, f)
          /\ UNCHANGED <<requests, heap, reqs, job, arrived, fwd, settled>>
      BY <1>2, <1>4, <2>2 DEF CheckTries
    <2>4. f.at \in {"discard", "enqueue"} => f.left = Waiting(f.req)
      BY <2>2 DEF Discarding, Timed
    <2> QED  BY <1>1, <2>3, <2>4, TopLedger
  <1> QED  BY <1>2, <1>3, <1>4 DEF CheckTries

\* Writing req->sent moves no packet.
LEMMA ResendLedger ==
  ASSUME Inv, Ledger, NEW t \in Thread, Resend(t)
  PROVE  Ledger'
  <1>1. /\ TypeOK /\ stack[t] # <<>> /\ Top(t).at = "resend" /\ Inv'
    BY ResendInv DEF Inv, Resend, Active, Top
  <1>2. PICK r \in ReqId : r = Top(t).req
    BY <1>1, TopLemma
  <1>3. CASE Dangling(t, r)
    BY <1>3, DanglingLedger
  <1>4. CASE UNCHANGED <<reqs, stack, requests, heap, job, arrived, fwd, settled>>
    <2>1. \A s, i : Past(s, i)' <=> Past(s, i)
      BY <1>4 DEF Past
    <2> QED  BY <1>1, <1>4, <2>1, QuietLedger
  <1>5. CASE ~Dangling(t, r) /\ RouterIp[reqs[r].ip] # NULL
    <2>1. reqs[r].times_sent \in Nat
      BY <1>1 DEF TypeOK, Request
    <2>2. PICK f \in Frame : f = Counting("store", r, reqs[r].times_sent)
      BY <2>1, ActivationLemma DEF FrameAt
    <2>3. /\ SetTop(t, f)
          /\ reqs' = [reqs EXCEPT ![r].sent = Top(t).cur]
          /\ UNCHANGED <<requests, heap, job, arrived, fwd, settled>>
      BY <1>2, <1>5, <2>2 DEF Resend
    <2>4. f.at = "store"
      BY <2>2 DEF Counting
    <2>5. \A s \in ReqId : reqs'[s].packets = reqs[s].packets
      BY <1>1, <2>3 DEF TypeOK, Request
    <2> QED  BY <1>1, <2>3, <2>4, <2>5, TopLedger
  <1> QED  BY <1>2, <1>3, <1>4, <1>5 DEF Resend

\* Writing req->times_sent moves no packet.
LEMMA StoreLedger ==
  ASSUME Inv, Ledger, NEW t \in Thread, Store(t)
  PROVE  Ledger'
  <1>1. /\ TypeOK /\ stack[t] # <<>> /\ Top(t).at = "store" /\ Inv'
    BY StoreInv DEF Inv, Store, Active, Top
  <1>2. PICK r \in ReqId : r = Top(t).req
    BY <1>1, TopLemma
  <1>3. CASE Dangling(t, r)
    BY <1>3, DanglingLedger
  <1>4. CASE ~Dangling(t, r)
    <2>1. PICK f \in Frame : f = Counting("xmit", r, 0)
      BY ActivationLemma DEF FrameAt
    <2>2. /\ SetTop(t, f)
          /\ reqs' = [reqs EXCEPT ![r].times_sent = Top(t).seen + 1]
          /\ UNCHANGED <<requests, heap, job, arrived, fwd, settled>>
      BY <1>2, <1>4, <2>1 DEF Store
    <2>3. f.at = "xmit"
      BY <2>1 DEF Counting
    <2>4. \A s \in ReqId : reqs'[s].packets = reqs[s].packets
      BY <1>1, <2>2 DEF TypeOK, Request
    <2> QED  BY <1>1, <2>2, <2>3, <2>4, TopLedger
  <1> QED  BY <1>2, <1>3, <1>4 DEF Store

\* Sending the ARP request moves no packet.
LEMMA XmitLedger ==
  ASSUME Inv, Ledger, NEW t \in Thread, Xmit(t)
  PROVE  Ledger'
  <1>1. /\ TypeOK /\ stack[t] # <<>> /\ Top(t).at = "xmit" /\ Inv'
        /\ Return(t)
        /\ UNCHANGED <<requests, heap, job, arrived, fwd, settled>>
    BY XmitInv DEF Inv, Xmit, Active, Top
  <1>2. \A s, i : ~Looping(Top(t), s, i)
    BY <1>1 DEF Looping
  <1>3. \A s, i : Past(s, i)' <=> Past(s, i)
    BY <1>1, <1>2, PastReturn
  <1>4. \A s \in ReqId : reqs'[s].packets = reqs[s].packets
    <2>1. PICK r \in ReqId : r = Top(t).req
      BY <1>1, TopLemma
    <2>2. reqs' = reqs \/ reqs' = [reqs EXCEPT ![r].arps = @ + 1]
      BY <2>1 DEF Xmit
    <2>3. reqs \in [ReqId -> Request]
      BY <1>1 DEF TypeOK
    <2>4. \A q \in Request : [q EXCEPT !.arps = @ + 1].packets = q.packets
      BY DEF Request
    <2>5. CASE reqs' = [reqs EXCEPT ![r].arps = @ + 1]
      <3>1. reqs'[r] = [reqs[r] EXCEPT !.arps = @ + 1]
        BY <2>3, <2>5
      <3>2. \A s \in ReqId : s # r => reqs'[s] = reqs[s]
        BY <2>3, <2>5
      <3>3. reqs'[r].packets = reqs[r].packets
        BY <2>3, <2>4, <3>1
      <3> QED  BY <3>2, <3>3
    <2> QED  BY <2>2, <2>5
  <1> QED  BY <1>1, <1>3, <1>4, QuietLedger

\* The timeout thread itself and the clock move no packet.
LEMMA TimeoutLedger ==
  ASSUME Inv, Inv', Ledger, Wake \/ Visit \/ Rest \/ Tick \/ UNCHANGED vars
  PROVE  Ledger'
  <1>1. TypeOK /\ "timeout" \in Thread
    BY DEF Inv, Thread
  <1>2. CASE Wake \/ Rest \/ UNCHANGED vars
    <2>1. UNCHANGED <<requests, heap, reqs, job, stack, arrived, fwd, settled>>
      BY <1>2 DEF Wake, Rest, vars
    <2>2. \A s, i : Past(s, i)' <=> Past(s, i)
      BY <2>1 DEF Past
    <2> QED  BY <2>1, <2>2, QuietLedger
  <1>3. CASE Visit
    <2>1. UNCHANGED <<requests, heap, reqs, job, arrived, fwd, settled>>
      BY <1>3 DEF Visit
    <2>2. CASE UNCHANGED stack
      <3>1. \A s, i : Past(s, i)' <=> Past(s, i)
        BY <2>2 DEF Past
      <3> QED  BY <2>1, <3>1, QuietLedger
    <2>3. CASE stack' = [stack EXCEPT !["timeout"] = <<Call(cursor)>>]
      <3>1. stack["timeout"] = <<>> /\ cursor \in ReqId
        BY <1>1, <1>3 DEF Visit, TypeOK
      <3>2. \A s, i : Past(s, i)' <=> Past(s, i)
        BY <1>1, <2>3, <3>1, PastFirstCall
      <3> QED  BY <2>1, <3>2, QuietLedger
    <2> QED  BY <1>3, <2>2, <2>3 DEF Visit
  <1>4. CASE Tick
    <2>1. UNCHANGED <<requests, heap, job, arrived, fwd, settled>>
      BY <1>4 DEF Tick
    <2>2. /\ \A r \in ReqId : reqs'[r].packets = reqs[r].packets
          /\ \A t \in Thread :
              /\ DOMAIN stack'[t] = DOMAIN stack[t]
              /\ \A i \in DOMAIN stack[t] :
                   /\ stack'[t][i].at = stack[t][i].at
                   /\ stack'[t][i].req = stack[t][i].req
                   /\ stack'[t][i].left = stack[t][i].left
      BY <1>1, <1>4, TickLemma
    <2>3. \A s, i : Past(s, i)' <=> Past(s, i)
      BY <2>2 DEF Past
    <2> QED  BY <2>1, <2>2, <2>3, QuietLedger
  <1> QED  BY <1>2, <1>3, <1>4

-----------------------------------------------------------------------------
(* Steps of the discard loop. *)

\* The request an activation points to is not the one main is serving.
LEMMA TopNotFlushed ==
  ASSUME Inv, NEW t \in Thread, stack[t] # <<>>
  PROVE  \A i : ~Flushed(Top(t).req, i)
  <1>1. Len(stack[t]) \in DOMAIN stack[t]
    BY TopLemma DEF Inv
  <1>2. Referenced(Top(t).req)
    BY <1>1 DEF Referenced, Top
  <1> QED  BY <1>2 DEF Inv, FlushOwns, Flushed

\* A turn of the discard loop settles the packet it is at and no other.
LEMMA DiscardPacketLedger ==
  ASSUME Inv, Ledger, NEW t \in Thread, DiscardPacket(t)
  PROVE  Ledger'
  <1>1. /\ TypeOK /\ stack[t] # <<>> /\ Top(t).at = "discard" /\ Inv'
        /\ TypeOK' /\ Active(t, "discard") /\ Top(t).left > 0
    BY DiscardPacketInv DEF Inv, DiscardPacket, Active, Top
  <1>2. PICK r \in ReqId : r = Top(t).req
    BY <1>1, TopLemma
  <1>3. CASE Dangling(t, r)
    BY <1>3, DanglingLedger
  <1>4. CASE ~Dangling(t, r)
    <2>1. r \in heap
      BY <1>2, <1>4 DEF DiscardPacket
    <2>2. PICK rest \in Nat : rest = Top(t).left - 1
      BY <1>1, <1>2, <2>1, DiscardLemma
    <2>3. PICK pk \in Packet : pk = reqs[r].packets[Top(t).left]
      BY <1>1, <1>2, <2>1, DiscardLemma
    <2>4. pk.src \in IP /\ Top(t).left = rest + 1
      <3>1. Top(t).left \in Nat
        BY <1>1, TopLemma DEF Frame
      <3> QED  BY <2>2, <3>1 DEF Packet
    <2>5. PICK f \in Frame :
            /\ SetTop(t, f) /\ f.at \in {"discard", "enqueue"}
            /\ f.req = r /\ f.left = rest
      <3>1. PICK g \in Frame : g = Discarding("discard", r, rest, NULL)
        BY ActivationLemma DEF FrameAt
      <3>2. PICK h \in Frame : h = Discarding("enqueue", r, rest, pk.src)
        BY <2>4, ActivationLemma DEF FrameAt
      <3>3. SetTop(t, g) \/ SetTop(t, h)
        BY <1>2, <1>4, <2>2, <2>3, <3>1, <3>2 DEF DiscardPacket
      <3> QED  BY <3>1, <3>2, <3>3 DEF Discarding
    <2>6. /\ settled' = settled \cup ({pk.pkt} \ {NULL})
          /\ UNCHANGED <<requests, heap, reqs, job, arrived, fwd>>
      BY <1>2, <1>4, <2>3 DEF DiscardPacket
    <2>7. HeapQueued /\ \A p \in Pkt : Booked(p)
      BY <1>1, LedgerForm
    <2>8. HeapQueued'
      BY <2>6, <2>7 DEF HeapQueued
    <2>9. ASSUME NEW s, NEW i \in Nat
          PROVE  Past(s, i)' <=> Past(s, i) \/ (s = r /\ rest < i)
      <3>1. Looping(f, s, i) <=> s = r /\ rest < i
        BY <2>5 DEF Looping
      <3>2. Looping(Top(t), s, i) => Looping(f, s, i)
        BY <1>2, <2>4, <3>1 DEF Looping
      <3> QED  BY <1>1, <2>5, <3>1, <3>2, PastSetTop
    <2>10. ASSUME NEW i \in Nat, rest + 1 < i PROVE Past(r, i)
      <3>1. Len(stack[t]) \in DOMAIN stack[t]
        BY <1>1, TopLemma
      <3> QED  BY <1>1, <1>2, <2>4, <2>10, <3>1 DEF Past, Top
    <2>11. \A s, i, p : Held(s, i, p)' <=> Held(s, i, p)
      BY <2>6 DEF Held
    <2>12. ASSUME NEW s, NEW i, NEW p, Held(s, i, p) PROVE i \in Nat
      <3>1. s \in ReqId /\ i \in DOMAIN reqs[s].packets
        BY <1>1, <2>12 DEF Held, TypeOK
      <3>2. reqs[s].packets \in Seq(Packet)
        BY <1>1, <3>1 DEF TypeOK, Request
      <3> QED  BY <3>1, <3>2
    <2>13. ASSUME NEW p \in Pkt PROVE Booked(p)'
      <3>1. Queueing(p)' <=> Queueing(p)
        BY <2>6 DEF Queueing
      <3>2. \A s, i : Flushed(s, i)' <=> Flushed(s, i)
        BY <2>6 DEF Flushed
      <3>3. Booked(p) /\ p # NULL
        BY <2>7, MarkersAssumption
      <3>4. CASE p = pk.pkt
        <4>1. Held(r, rest + 1, p)
          <5>1. Top(t).left \in DOMAIN reqs[r].packets
            <6>1. Len(stack[t]) \in DOMAIN stack[t] /\ Top(t).left \in Nat
              BY <1>1, TopLemma DEF Frame
            <6>2. Top(t).left <= Len(reqs[r].packets)
              BY <1>1, <1>2, <2>1, <6>1 DEF Inv, ActivationsOK, ActivationOK, Top
            <6>3. reqs[r].packets \in Seq(Packet)
              BY <1>1 DEF TypeOK, Request
            <6> QED  BY <1>1, <6>1, <6>2, <6>3
          <5> QED  BY <2>1, <2>3, <2>4, <3>4, <5>1 DEF Held
        <4>2. ~Flushed(r, rest + 1)
          BY <1>1, <1>2, TopNotFlushed
        <4>3. fwd[p] = 0 /\ ~Queueing(p) /\ p \in arrived
          <5>1. fwd[p] \in Nat
            BY <1>1 DEF TypeOK
          <5> QED  BY <3>3, <4>1, <4>2, <5>1 DEF Booked
        <4>4. p \in settled'
          BY <2>6, <3>3, <3>4
        <4>5. \A s, i : Held(s, i, p) => s = r /\ i = rest + 1
          BY <3>3, <4>1 DEF Booked
        <4>6. Past(r, rest + 1)'
          BY <2>9
        <4>7. \A s, i : Held(s, i, p)' =>
                /\ fwd'[p] > 0 <=> Flushed(s, i)'
                /\ p \in settled' <=> Past(s, i)'
          BY <2>6, <2>11, <3>2, <4>2, <4>3, <4>4, <4>5, <4>6
        <4> QED  BY <2>6, <2>11, <3>1, <4>3, <4>4, <4>5, <4>7 DEF Booked
      <3>5. CASE p # pk.pkt
        <4>1. p \in settled' <=> p \in settled
          BY <2>6, <3>5
        <4>2. \A s, i : Held(s, i, p) => (Past(s, i)' <=> Past(s, i))
          <5> SUFFICES ASSUME NEW s, NEW i, Held(s, i, p), s = r /\ rest < i
                       PROVE  Past(s, i)
            BY <2>9, <2>12
          <5>1. i # rest + 1 /\ i \in Nat
            BY <2>3, <2>4, <2>12, <3>5 DEF Held
          <5> QED  BY <2>10, <5>1
        <4> QED  BY <2>6, <2>11, <3>1, <3>2, <3>3, <4>1, <4>2, BookedSame
      <3> QED  BY <3>4, <3>5
    <2> QED  BY <1>1, <2>8, <2>13, LedgerFormNext
  <1> QED  BY <1>2, <1>3, <1>4 DEF DiscardPacket

\* Queueing an ICMP error moves no packet, and the caller stays in its loop.
LEMMA EnqueueLedger ==
  ASSUME Inv, Ledger, NEW t \in Thread, Enqueue(t)
  PROVE  Ledger'
  <1>1. /\ TypeOK /\ stack[t] # <<>> /\ Top(t).at = "enqueue" /\ Inv'
        /\ TypeOK' /\ UNCHANGED <<job, arrived, fwd, settled>>
    BY EnqueueInv DEF Inv, Enqueue, Active, Top
  <1>2. /\ Top(t) \in Frame /\ Top(t).req \in ReqId /\ Top(t).left \in Nat
        /\ Len(stack[t]) \in DOMAIN stack[t]
    BY <1>1, TopLemma DEF Frame
  <1>3. Top(t).dst \in IP /\ RouterIp[Top(t).dst] # NULL
    BY <1>1, <1>2 DEF Inv, ActivationsOK, ActivationOK, Top
  <1>4. PICK pk \in Packet : pk = [pkt |-> NULL, src |-> RouterIp[Top(t).dst]]
    BY <1>3, RouterIpAssumption DEF Packet
  <1>5. PICK f \in Frame : f = Discarding("discard", Top(t).req, Top(t).left,
                                          NULL)
    BY <1>2, ActivationLemma DEF FrameAt
  <1>6. PICK r \in ReqId :
          /\ QueueReq(Top(t).dst, pk, r)
          /\ UNCHANGED stack \/ Pushes(t, f, Call(r))
    BY <1>4, <1>5 DEF Enqueue, Pushes
  <1>7. /\ r \in heap'
        /\ \A s \in heap : s \in heap'
        /\ \A k \in DOMAIN requests :
              \E j \in DOMAIN requests' : requests'[j] = requests[k]
        /\ \A s \in heap' : s \in heap \/ s = r
        /\ \E j \in DOMAIN requests' : requests'[j] = r
    BY <1>3, <1>6, QueueReqHeld
  <1>8. \A p \in Pkt : \A s, i : Held(s, i, p)' <=> Held(s, i, p)
    <2>1. PICK n \in Nat \ {0} : \A s, i, p : Held(s, i, p)' <=>
                   Held(s, i, p) \/ (s = r /\ i = n /\ p = pk.pkt)
      BY <1>3, <1>6, QueueReqHeld
    <2>2. pk.pkt = NULL
      BY <1>4
    <2> QED  BY <2>1, <2>2, MarkersAssumption
  <1>9. \A s, i : Past(s, i)' <=> Past(s, i)
    <2>1. CASE UNCHANGED stack
      BY <2>1 DEF Past
    <2>2. CASE Pushes(t, f, Call(r))
      <3>1. ASSUME NEW s, NEW i PROVE Past(s, i)' <=> Past(s, i)
        <4>1. Looping(f, s, i) <=> Looping(Top(t), s, i)
          BY <1>1, <1>5 DEF Looping, Discarding
        <4>2. PICK g \in Frame : g = Call(r)
          BY ActivationLemma
        <4>3. ~Looping(g, s, i)
          BY <4>2 DEF Looping, Call, Timed
        <4> QED  BY <1>1, <2>2, <4>1, <4>2, <4>3, PastPush
      <3> QED  BY <3>1
    <2> QED  BY <1>6, <2>1, <2>2
  <1>10. HeapQueued /\ \A p \in Pkt : Booked(p)
    BY <1>1, LedgerForm
  <1>11. HeapQueued'
    <2> SUFFICES ASSUME NEW s \in heap'
                 PROVE  \/ \E i \in DOMAIN requests' : requests'[i] = s
                        \/ job.at = "flush" /\ job.req = s
      BY <1>1 DEF HeapQueued
    <2>1. CASE s = r
      BY <1>7, <2>1
    <2>2. CASE s \in heap
      BY <1>7, <1>10, <2>2 DEF HeapQueued
    <2> QED  BY <1>7, <2>1, <2>2
  <1>12. ASSUME NEW p \in Pkt PROVE Booked(p)'
    <2>1. Queueing(p)' <=> Queueing(p)
      BY <1>1 DEF Queueing
    <2>2. \A s, i : Flushed(s, i)' <=> Flushed(s, i)
      BY <1>1 DEF Flushed
    <2> QED  BY <1>1, <1>8, <1>9, <1>10, <2>1, <2>2, BookedSame
  <1> QED  BY <1>1, <1>11, <1>12, LedgerFormNext

\* When the discard loop is over every packet of the request is settled, so
\* that freeing it loses none.
LEMMA DiscardDoneLedger ==
  ASSUME Inv, Ledger, NEW t \in Thread, DiscardDone(t)
  PROVE  Ledger'
  <1>1. /\ TypeOK /\ stack[t] # <<>> /\ Top(t).at = "discard" /\ Inv'
        /\ TypeOK' /\ Top(t).left = 0
    BY DiscardDoneInv DEF Inv, DiscardDone, Active, Top
  <1>2. PICK r \in ReqId : r = Top(t).req
    BY <1>1, TopLemma
  <1>3. CASE Dangling(t, r)
    BY <1>3, DanglingLedger
  <1>4. CASE ~Dangling(t, r)
    <2>1. /\ Destroy(r) /\ Return(t)
          /\ UNCHANGED <<job, arrived, fwd, settled>>
      BY <1>2, <1>4 DEF DiscardDone
    <2>2. /\ heap' = heap \ {r}
          /\ \A k \in DOMAIN requests : requests[k] # r =>
               \E j \in DOMAIN requests' : requests'[j] = requests[k]
          /\ \A s, i, p : Held(s, i, p)' <=> Held(s, i, p) /\ s # r
      BY <2>1, DestroyHeld
    <2>3. HeapQueued /\ \A p \in Pkt : Booked(p)
      BY <1>1, LedgerForm
    <2>4. HeapQueued'
      BY <2>1, <2>2, <2>3 DEF HeapQueued
    <2>5. \A s, i : s # r => (Past(s, i)' <=> Past(s, i))
      <3>1. \A s, i : s # r => ~Looping(Top(t), s, i)
        BY <1>2 DEF Looping
      <3> QED  BY <1>1, <2>1, <3>1, PastReturn
    <2>6. ASSUME NEW i, NEW p, Held(r, i, p)
          PROVE  Past(r, i) /\ ~Flushed(r, i)
      <3>1. i \in DOMAIN reqs[r].packets /\ reqs[r].packets \in Seq(Packet)
        BY <1>1, <2>6 DEF Held, TypeOK, Request
      <3>2. 0 < i
        BY <3>1
      <3>3. Len(stack[t]) \in DOMAIN stack[t]
        BY <1>1, TopLemma
      <3> QED  BY <1>1, <1>2, <3>2, <3>3, TopNotFlushed DEF Past, Top
    <2>7. ASSUME NEW p \in Pkt PROVE Booked(p)'
      <3>1. Queueing(p)' <=> Queueing(p)
        BY <2>1 DEF Queueing
      <3>2. \A s, i : Flushed(s, i)' <=> Flushed(s, i)
        BY <2>1 DEF Flushed
      <3>3. CASE \E i : Held(r, i, p)
        <4>1. PICK i : Held(r, i, p)
          BY <3>3
        <4>2. p \in settled /\ p \in arrived /\ ~Queueing(p)
          BY <2>3, <2>6, <4>1 DEF Booked
        <4>3. \A s, j : ~Held(s, j, p)'
          BY <2>2, <2>3, <4>1 DEF Booked
        <4>4. fwd[p] <= 1 /\ (fwd[p] = 1 => p \notin settled)
          BY <2>3 DEF Booked
        <4> QED  BY <2>1, <3>1, <4>2, <4>3, <4>4 DEF Booked
      <3>4. CASE \A i : ~Held(r, i, p)
        <4>1. \A s, i : Held(s, i, p) => s # r
          BY <3>4
        <4>2. \A s, i : Held(s, i, p)' <=> Held(s, i, p)
          BY <2>2, <4>1
        <4> QED  BY <2>1, <2>3, <2>5, <3>1, <3>2, <4>1, <4>2, BookedSame
      <3> QED  BY <3>3, <3>4
    <2> QED  BY <1>1, <2>4, <2>7, LedgerFormNext
  <1> QED  BY <1>2, <1>3, <1>4 DEF DiscardDone

-----------------------------------------------------------------------------
(* Steps of the main thread. *)

\* A packet handed over was nowhere before; it is sent at once or becomes the
\* packet main is about to queue.
LEMMA SubmitLedger ==
  ASSUME Inv, Ledger, NEW p \in Pkt, NEW flow \in Traffic, Submit(p, flow)
  PROVE  Ledger'
  <1>1. /\ TypeOK /\ job = Idle /\ p \notin arrived /\ Inv' /\ TypeOK'
        /\ UNCHANGED <<requests, heap, reqs, stack, settled>>
        /\ arrived' = arrived \cup {p}
    BY SubmitInv DEF Inv, Submit, MainIdle
  <1>2. HeapQueued /\ \A q \in Pkt : Booked(q)
    BY <1>1, LedgerForm
  <1>3. /\ \A s, i, q : Held(s, i, q)' <=> Held(s, i, q)
        /\ \A s, i : Past(s, i)' <=> Past(s, i)
    BY <1>1 DEF Held, Past
  <1>4. job.at = "idle"
    BY <1>1 DEF Idle
  <1>5. \/ fwd' = [fwd EXCEPT ![p] = @ + 1] /\ job' = job
        \/ /\ fwd' = fwd
           /\ job' = [at |-> "queue", pkt |-> p,
                      src |-> flow.src, hop |-> flow.hop]
    BY DEF Submit
  <1>6. /\ job'.at # "flush"
        /\ \A q : q # p => ~Queueing(q)'
        /\ Queueing(p)' <=> job'.at = "queue"
    BY <1>4, <1>5 DEF Queueing
  <1>7. HeapQueued'
    BY <1>1, <1>2, <1>4, <1>6 DEF HeapQueued
  <1>8. \A s, i : ~Flushed(s, i)' /\ ~Flushed(s, i)
    BY <1>4, <1>6 DEF Flushed
  <1>9. ASSUME NEW q \in Pkt, q # p PROVE Booked(q)'
    <2>1. fwd'[q] = fwd[q]
      BY <1>1, <1>5, <1>9 DEF TypeOK
    <2>2. ~Queueing(q)
      BY <1>4 DEF Queueing
    <2> QED  BY <1>1, <1>2, <1>3, <1>6, <1>8, <1>9, <2>1, <2>2, BookedSame
  <1>10. Booked(p)'
    <2>1. fwd[p] = 0 /\ p \notin settled /\ \A s, i : ~Held(s, i, p)
      BY <1>1, <1>2 DEF Booked
    <2>2. \/ fwd'[p] = 1 /\ ~Queueing(p)'
          \/ fwd'[p] = 0 /\ Queueing(p)'
      BY <1>1, <1>4, <1>5, <1>6, <2>1 DEF TypeOK
    <2> QED  BY <1>1, <1>3, <2>1, <2>2 DEF Booked
  <1> QED  BY <1>1, <1>7, <1>9, <1>10, LedgerFormNext

\* The packet main queues gets its place while no discard loop is running.
LEMMA MainQueueLedger ==
  ASSUME Inv, Ledger, MainQueue
  PROVE  Ledger'
  <1>1. /\ TypeOK /\ job.at = "queue" /\ LockFree("main") /\ job' = Idle
        /\ Inv' /\ TypeOK' /\ UNCHANGED <<arrived, fwd, settled>>
    BY MainQueueInv DEF Inv, MainQueue
  <1>2. /\ job.hop \in IP /\ job.pkt \in Pkt /\ job # Idle /\ job'.at = "idle"
    BY <1>1 DEF TypeOK, Job, Idle
  <1>3. PICK pk \in Packet : pk = [pkt |-> job.pkt, src |-> job.src]
    <2>1. job \in [at : {"queue"}, pkt : Pkt, src : IP, hop : IP]
      BY <1>1 DEF TypeOK, Job, Idle
    <2> QED  BY <2>1 DEF Packet
  <1>4. PICK r \in ReqId :
          /\ QueueReq(job.hop, pk, r)
          /\ stack' = [stack EXCEPT !["main"] = <<Call(r)>>]
    BY <1>3 DEF MainQueue
  <1>5. /\ r \in heap'
        /\ \A k \in DOMAIN requests :
              \E j \in DOMAIN requests' : requests'[j] = requests[k]
        /\ \A s \in heap' : s \in heap \/ s = r
        /\ \E j \in DOMAIN requests' : requests'[j] = r
    BY <1>2, <1>4, QueueReqHeld
  <1>6. PICK n \in Nat \ {0} : \A s, i, p : Held(s, i, p)' <=>
                 Held(s, i, p) \/ (s = r /\ i = n /\ p = pk.pkt)
    BY <1>2, <1>4, QueueReqHeld
  <1>7. HeapQueued /\ \A p \in Pkt : Booked(p)
    BY <1>1, LedgerForm
  <1>8. HeapQueued'
    BY <1>1, <1>5, <1>7 DEF HeapQueued
  <1>9. /\ stack["main"] = <<>> /\ stack["timeout"] = <<>>
        /\ "main" \in Thread
    <2>1. lock = NULL
      BY <1>1 DEF TypeOK, LockFree
    <2> QED  BY <1>2, <2>1 DEF Inv, LockCoversSweep, MainDoesOneThing, Thread
  <1>10. \A s, i : ~Past(s, i) /\ ~Past(s, i)'
    <2>1. \A s, i : ~Past(s, i)
      BY <1>9 DEF Past, Thread
    <2> QED  BY <1>1, <1>4, <1>9, <2>1, PastFirstCall
  <1>11. \A s, i : ~Flushed(s, i)' /\ ~Flushed(s, i)
    BY <1>1, <1>2 DEF Flushed
  <1>12. \A q : ~Queueing(q)'
    BY <1>2 DEF Queueing
  <1>13. pk.pkt = job.pkt
    BY <1>3
  <1>14. ASSUME NEW q \in Pkt PROVE Booked(q)'
    <2>1. CASE q # job.pkt
      <3>1. ~Queueing(q) /\ \A s, i : Held(s, i, q)' <=> Held(s, i, q)
        BY <1>6, <1>13, <2>1 DEF Queueing
      <3> QED  BY <1>1, <1>7, <1>10, <1>11, <1>12, <3>1, BookedSame
    <2>2. CASE q = job.pkt
      <3>1. Queueing(q)
        BY <1>1, <2>2 DEF Queueing
      <3>2. /\ fwd[q] = 0 /\ q \notin settled /\ q \in arrived
            /\ \A s, i : ~Held(s, i, q)
        BY <1>7, <3>1 DEF Booked
      <3>3. \A s, i : Held(s, i, q)' <=> s = r /\ i = n
        BY <1>6, <1>13, <2>2, <3>2
      <3> QED  BY <1>1, <1>10, <1>11, <1>12, <3>2, <3>3 DEF Booked
    <2> QED  BY <2>1, <2>2
  <1> QED  BY <1>1, <1>8, <1>14, LedgerFormNext

\* An answered request keeps its packets: main starts before the first.
LEMMA ReplyLedger ==
  ASSUME Inv, Ledger, NEW ip \in Repliers, NEW mac \in Mac, Reply(ip, mac)
  PROVE  Ledger'
  <1>1. /\ TypeOK /\ job = Idle /\ Inv' /\ TypeOK'
        /\ UNCHANGED <<heap, reqs, stack, arrived, fwd, settled>>
    BY ReplyInv DEF Inv, Reply, MainIdle
  <1>2. HeapQueued /\ \A q \in Pkt : Booked(q)
    BY <1>1, LedgerForm
  <1>3. /\ \A s, i, q : Held(s, i, q)' <=> Held(s, i, q)
        /\ \A s, i : Past(s, i)' <=> Past(s, i)
    BY <1>1 DEF Held, Past
  <1>4. job.at = "idle"
    BY <1>1 DEF Idle
  <1>5. \/ UNCHANGED <<requests, job>>
        \/ \E k \in DOMAIN requests :
             /\ requests' = RemoveAt(requests, k)
             /\ job' = [at |-> "flush", req |-> requests[k],
                        left |-> Waiting(requests[k])]
    BY DEF Reply
  <1>6. HeapQueued'
    <2>1. CASE UNCHANGED <<requests, job>>
      BY <1>1, <1>2, <2>1 DEF HeapQueued
    <2>2. ASSUME NEW k \in DOMAIN requests, requests' = RemoveAt(requests, k),
                 job'.at = "flush", job'.req = requests[k]
          PROVE  HeapQueued'
      <3>1. \A m \in DOMAIN requests \ {k} :
              \E j \in DOMAIN requests' : requests'[j] = requests[m]
        BY <1>1, <2>2, UnlinkLemma DEF Inv
      <3> QED  BY <1>1, <1>2, <1>4, <2>2, <3>1 DEF HeapQueued
    <2> QED  BY <1>5, <2>1, <2>2
  <1>7. ASSUME NEW s, NEW i, NEW q, Held(s, i, q)
        PROVE  ~Flushed(s, i)' /\ ~Flushed(s, i)
    <2>1. s \in ReqId /\ i \in DOMAIN reqs[s].packets
      BY <1>1, <1>7 DEF Held, TypeOK
    <2>2. reqs[s].packets \in Seq(Packet)
      BY <1>1, <2>1 DEF TypeOK, Request
    <2>3. ~(i > Len(reqs[s].packets))
      BY <2>1, <2>2
    <2> QED  BY <1>4, <1>5, <2>3 DEF Flushed, Waiting
  <1>8. \A q : ~Queueing(q)' /\ ~Queueing(q)
    BY <1>4, <1>5 DEF Queueing
  <1>9. \A q \in Pkt : Booked(q)'
    BY <1>1, <1>2, <1>3, <1>7, <1>8, BookedSame
  <1> QED  BY <1>1, <1>6, <1>9, LedgerFormNext

\* The packet main's loop is at.
LEMMA FlushLemma ==
  ASSUME Inv, job.at = "flush", job.left > 0
  PROVE  /\ job.req \in ReqId /\ job.left \in Nat
         /\ Held(job.req, job.left, reqs[job.req].packets[job.left].pkt)
         /\ reqs[job.req].packets[job.left].pkt \in Pkt \cup {NULL}
  <1>1. TypeOK
    BY DEF Inv
  <1>2. job \in [at : {"flush"}, req : ReqId, left : Nat]
    BY <1>1 DEF TypeOK, Job, Idle
  <1>3. job.req \in heap /\ job.left <= Len(reqs[job.req].packets)
    BY DEF Inv, FlushOwns
  <1>4. reqs[job.req].packets \in Seq(Packet)
    BY <1>1, <1>2 DEF TypeOK, Request
  <1>5. job.left \in DOMAIN reqs[job.req].packets
    BY <1>2, <1>3, <1>4
  <1>6. reqs[job.req].packets[job.left] \in Packet
    BY <1>4, <1>5
  <1> QED  BY <1>2, <1>3, <1>5, <1>6 DEF Held, Packet

\* A turn of main's loop sends the packet it is at, for the first time.
LEMMA FlushLedger ==
  ASSUME Inv, Ledger, Flush
  PROVE  Ledger'
  <1>1. /\ TypeOK /\ job.at = "flush" /\ job.left > 0 /\ Inv' /\ TypeOK'
        /\ UNCHANGED <<requests, heap, reqs, stack, arrived, settled>>
    BY FlushInv DEF Inv, Flush
  <1>2. job \in [at : {"flush"}, req : ReqId, left : Nat]
    BY <1>1 DEF TypeOK, Job, Idle
  <1>3. /\ job'.at = "flush" /\ job'.req = job.req /\ job'.left = job.left - 1
    BY <1>2 DEF Flush
  <1>4. PICK p \in Pkt \cup {NULL} : p = reqs[job.req].packets[job.left].pkt
    BY <1>1, FlushLemma
  <1>5. fwd' = IF p = NULL THEN fwd ELSE [fwd EXCEPT ![p] = @ + 1]
    BY <1>4 DEF Flush
  <1>6. Held(job.req, job.left, p)
    BY <1>1, <1>4, FlushLemma
  <1>7. HeapQueued /\ \A q \in Pkt : Booked(q)
    BY <1>1, LedgerForm
  <1>8. HeapQueued'
    BY <1>1, <1>3, <1>7 DEF HeapQueued
  <1>9. /\ \A s, i, q : Held(s, i, q)' <=> Held(s, i, q)
        /\ \A s, i : Past(s, i)' <=> Past(s, i)
    BY <1>1 DEF Held, Past
  <1>10. \A q : ~Queueing(q)' /\ ~Queueing(q)
    BY <1>1, <1>3 DEF Queueing
  <1>11. ASSUME NEW q \in Pkt, q # p PROVE Booked(q)'
    <2>1. fwd'[q] = fwd[q]
      BY <1>1, <1>5, <1>11 DEF TypeOK
    <2>2. ASSUME NEW s, NEW i, Held(s, i, q)
          PROVE  Flushed(s, i)' <=> Flushed(s, i)
      <3>1. s \in ReqId /\ i \in DOMAIN reqs[s].packets
        BY <1>1, <2>2 DEF Held, TypeOK
      <3>2. reqs[s].packets \in Seq(Packet)
        BY <1>1, <3>1 DEF TypeOK, Request
      <3>3. i \in Nat /\ (s = job.req => i # job.left)
        BY <1>4, <1>11, <2>2, <3>1, <3>2 DEF Held
      <3> QED  BY <1>2, <1>3, <3>3 DEF Flushed
    <2> QED  BY <1>1, <1>7, <1>9, <1>10, <2>1, <2>2, BookedSame
  <1>12. ASSUME p \in Pkt PROVE Booked(p)'
    <2>1. Booked(p) /\ p # NULL
      BY <1>7, <1>12, MarkersAssumption
    <2>2. PICK r \in ReqId, n \in Nat : r = job.req /\ n = job.left
      BY <1>2
    <2>3. ~Flushed(r, n) /\ Flushed(r, n)'
      BY <1>3, <2>2 DEF Flushed
    <2>4. ~Past(r, n)
      BY <1>1, <2>2 DEF Inv, FlushOwns, Referenced, Past
    <2>5. fwd[p] = 0 /\ p \notin settled /\ p \in arrived
      <3>1. fwd[p] \in Nat
        BY <1>1, <1>12 DEF TypeOK
      <3> QED  BY <1>6, <2>1, <2>2, <2>3, <2>4, <3>1 DEF Booked
    <2>6. fwd'[p] = 1
      BY <1>1, <1>5, <1>12, <2>1, <2>5 DEF TypeOK
    <2>7. \A s, i : Held(s, i, p) => s = r /\ i = n
      BY <1>6, <2>1, <2>2 DEF Booked
    <2>8. p \in arrived' /\ p \notin settled' /\ ~Queueing(p)'
      BY <1>1, <1>10, <2>5
    <2>9. \A s, i : Held(s, i, p)' => /\ s = r /\ i = n
                                      /\ Flushed(s, i)' /\ ~Past(s, i)'
      BY <1>9, <2>3, <2>4, <2>7
    <2> QED  BY <2>6, <2>8, <2>9 DEF Booked
  <1> QED  BY <1>1, <1>8, <1>11, <1>12, LedgerFormNext

\* When main's loop is over every packet of the request is sent, so that
\* freeing it loses none.
LEMMA FlushDoneLedger ==
  ASSUME Inv, Ledger, FlushDone
  PROVE  Ledger'
  <1>1. /\ TypeOK /\ job.at = "flush" /\ job.left = 0 /\ Destroy(job.req)
        /\ job' = Idle /\ Inv' /\ TypeOK'
        /\ UNCHANGED <<stack, arrived, fwd, settled>>
    BY FlushDoneInv DEF Inv, FlushDone
  <1>2. PICK r \in ReqId : r = job.req
    BY <1>1 DEF TypeOK, Job, Idle
  <1>3. job'.at = "idle"
    BY <1>1 DEF Idle
  <1>4. /\ heap' = heap \ {r}
        /\ \A k \in DOMAIN requests : requests[k] # r =>
             \E j \in DOMAIN requests' : requests'[j] = requests[k]
        /\ \A s, i, p : Held(s, i, p)' <=> Held(s, i, p) /\ s # r
    BY <1>1, <1>2, DestroyHeld
  <1>5. HeapQueued /\ \A p \in Pkt : Booked(p)
    BY <1>1, LedgerForm
  <1>6. HeapQueued'
    BY <1>2, <1>4, <1>5 DEF HeapQueued
  <1>7. \A s, i : Past(s, i)' <=> Past(s, i)
    BY <1>1 DEF Past
  <1>8. \A q : ~Queueing(q)' /\ ~Queueing(q)
    BY <1>1, <1>3 DEF Queueing
  <1>9. /\ \A s, i : ~Flushed(s, i)'
        /\ \A s, i : s # r => ~Flushed(s, i)
    BY <1>2, <1>3 DEF Flushed
  <1>10. ASSUME NEW i, NEW p, Held(r, i, p) PROVE Flushed(r, i)
    <2>1. i \in DOMAIN reqs[r].packets /\ reqs[r].packets \in Seq(Packet)
      BY <1>1, <1>10 DEF Held, TypeOK, Request
    <2>2. i > 0
      BY <2>1
    <2> QED  BY <1>1, <1>2, <2>2 DEF Flushed
  <1>11. ASSUME NEW p \in Pkt PROVE Booked(p)'
    <2>1. CASE \E i : Held(r, i, p)
      <3>1. PICK i : Held(r, i, p)
        BY <2>1
      <3>2. fwd[p] > 0 /\ fwd[p] <= 1 /\ (fwd[p] = 1 => p \notin settled)
            /\ p \in arrived
        BY <1>5, <1>10, <3>1 DEF Booked
      <3>3. \A s, j : ~Held(s, j, p)'
        BY <1>4, <1>5, <3>1 DEF Booked
      <3>4. fwd[p] \in Nat
        BY <1>1 DEF TypeOK
      <3> QED  BY <1>1, <1>8, <3>2, <3>3, <3>4 DEF Booked
    <2>2. CASE \A i : ~Held(r, i, p)
      <3>1. \A s, i : Held(s, i, p) => s # r
        BY <2>2
      <3>2. \A s, i : Held(s, i, p)' <=> Held(s, i, p)
        BY <1>4, <3>1
      <3> QED
        BY <1>1, <1>5, <1>7, <1>8, <1>9, <3>1, <3>2, BookedSame
    <2> QED  BY <2>1, <2>2
  <1> QED  BY <1>1, <1>6, <1>11, LedgerFormNext

-----------------------------------------------------------------------------
(* The ledger is kept. *)

\* sr_arpcache_init: no packet has been handed over and none waits.
LEMMA InitLedger == Init => Ledger
  <1> SUFFICES ASSUME Init PROVE Ledger
    OBVIOUS
  <1>1. /\ heap = {} /\ job.at = "idle" /\ arrived = {} /\ settled = {}
        /\ \A p \in Pkt : fwd[p] = 0
    BY DEF Init, Idle
  <1> QED  BY <1>1 DEF Ledger, NewUntouched, JobPacketAlone, OnePlace, HeldFate,
              HeapQueued, PacketAccounted

\* Every step of the program keeps the ledger.
LEMMA NextLedger ==
  ASSUME Inv, Ledger, [Next]_vars
  PROVE  Ledger'
  <1>1. Inv'
    BY NextInv
  <1>2. ASSUME NEW t \in Thread, HandleArpreq(t) PROVE Ledger'
    BY <1>2, CheckLedger, CheckTriesLedger, ResendLedger, StoreLedger,
       XmitLedger, DiscardPacketLedger, EnqueueLedger, DiscardDoneLedger
       DEF HandleArpreq
  <1>3. CASE MainStep
    <2>1. "main" \in Thread
      BY DEF Thread
    <2> QED  BY <1>2, <1>3, <2>1, SubmitLedger, ReplyLedger, MainQueueLedger,
                FlushLedger, FlushDoneLedger DEF MainStep
  <1>4. CASE TimeoutStep
    <2>1. "timeout" \in Thread
      BY DEF Thread
    <2> QED  BY <1>1, <1>2, <1>4, <2>1, TimeoutLedger DEF TimeoutStep
  <1>5. CASE Tick \/ Crashed \/ UNCHANGED vars
    BY <1>1, <1>5, TimeoutLedger DEF Crashed
  <1> QED  BY <1>3, <1>4, <1>5 DEF Next

\* Every packet handed over has one place: main's hands, one position of one
\* request, or the past; two discard loops over one request and requests freed
\* under an activation do not change that.
THEOREM LedgerHolds == Spec => []Ledger
  <1>1. Init => Ledger
    BY InitLedger
  <1>2. Inv /\ Ledger /\ [Next]_vars => Ledger'
    BY NextLedger
  <1> QED  BY <1>1, <1>2, InvHolds, PTL DEF Spec

\* No packet is lost, none is sent twice, and none is both sent and reported
\* unreachable by sr_arpcache_handle_arpreq.
THEOREM NoPacketLost == Spec => []PacketAccounted
  <1>1. Ledger => PacketAccounted
    BY DEF Ledger
  <1> QED  BY <1>1, LedgerHolds, PTL

-----------------------------------------------------------------------------
(* The state of a packet in SrResolve. *)

\* The packet was handed over and its fate is open.
Undecided(p) == p \in arrived /\ fwd[p] = 0 /\ p \notin settled

\* A packet waits for the hop of main's job or for that of its request.
LEMMA WaitsForm ==
  \A p, ip : WaitsFor(p, ip) <=>
    \/ Queueing(p) /\ job.hop = ip
    \/ \E r, i : Held(r, i, p) /\ reqs[r].ip = ip
  BY DEF WaitsFor, Queueing, Held

\* Main's loop has yet to reach the packet.
LEMMA FlushingForm ==
  Inv => \A p : BeingFlushed(p) <=>
                  /\ job.at = "flush"
                  /\ \E i : Held(job.req, i, p) /\ ~Flushed(job.req, i)
  <1> SUFFICES ASSUME Inv, NEW p, job.at = "flush"
               PROVE  (\E i \in 1..job.left : reqs[job.req].packets[i].pkt = p)
                        <=> \E i : Held(job.req, i, p) /\ ~Flushed(job.req, i)
    BY DEF BeingFlushed
  <1>1. TypeOK
    BY DEF Inv
  <1>2. job \in [at : {"flush"}, req : ReqId, left : Nat]
    BY <1>1 DEF TypeOK, Job, Idle
  <1>3. job.req \in heap /\ job.left <= Len(reqs[job.req].packets)
    BY DEF Inv, FlushOwns
  <1>4. reqs[job.req].packets \in Seq(Packet)
    BY <1>1, <1>2 DEF TypeOK, Request
  <1>5. \A i : i \in 1..job.left <=>
                 i \in DOMAIN reqs[job.req].packets /\ ~(i > job.left)
    BY <1>2, <1>3, <1>4
  <1> QED  BY <1>3, <1>5 DEF Held, Flushed

\* A packet waits for one hop.
LEMMA OneHop ==
  Inv /\ Ledger => \A p \in Pkt : \A ip, jp :
                     WaitsFor(p, ip) /\ WaitsFor(p, jp) => ip = jp
  <1> SUFFICES ASSUME Inv, Ledger, NEW p \in Pkt, NEW ip, NEW jp,
                      WaitsFor(p, ip), WaitsFor(p, jp)
               PROVE  ip = jp
    OBVIOUS
  <1>1. Booked(p)
    BY LedgerForm DEF Inv
  <1> QED  BY <1>1, WaitsForm DEF Booked

\* What StateOf is in each of its cases; a packet whose fate is open waits for
\* some hop.
StateTable(p) ==
  /\ p \notin arrived => StateOf(p) = [is |-> "new"]
  /\ p \in arrived /\ fwd[p] > 0 => StateOf(p) = [is |-> "sent"]
  /\ p \in arrived /\ fwd[p] = 0 /\ p \in settled =>
       StateOf(p) = [is |-> "unreachable"]
  /\ Undecided(p) /\ BeingFlushed(p) => StateOf(p) = [is |-> "answered"]
  /\ Undecided(p) /\ ~BeingFlushed(p) =>
       \E ip \in IP : WaitsFor(p, ip) /\ StateOf(p) = [waits |-> ip]

\* The cases of StateOf are those of its table.
LEMMA StateForm == Inv /\ Ledger => \A p \in Pkt : StateTable(p)
  <1> SUFFICES ASSUME Inv, Ledger, NEW p \in Pkt PROVE StateTable(p)
    OBVIOUS
  <1>1. TypeOK /\ fwd[p] \in Nat
    BY DEF Inv, TypeOK
  <1>2. Booked(p)
    BY <1>1, LedgerForm
  <1>3. ASSUME Undecided(p) PROVE \E ip \in IP : WaitsFor(p, ip)
    <2>1. CASE Queueing(p)
      <3>1. job.hop \in IP
        BY <1>1, <2>1 DEF Queueing, TypeOK, Job, Idle
      <3> QED  BY <2>1, <3>1, WaitsForm
    <2>2. ASSUME NEW r, NEW i, Held(r, i, p) PROVE \E ip \in IP : WaitsFor(p, ip)
      <3>1. reqs[r].ip \in IP
        BY <1>1, <2>2 DEF Held, TypeOK, Request
      <3> QED  BY <2>2, <3>1, WaitsForm
    <2> QED  BY <1>2, <1>3, <2>1, <2>2 DEF Booked, Undecided
  <1>4. p \notin arrived => StateOf(p) = [is |-> "new"]
    <2>1. p \notin arrived => /\ ~(fwd[p] > 0) /\ p \notin settled
                              /\ ~BeingFlushed(p)
      BY <1>1, <1>2, FlushingForm DEF Booked
    <2> QED  BY <2>1 DEF StateOf
  <1>5. p \in arrived /\ fwd[p] > 0 => StateOf(p) = [is |-> "sent"]
    <2>1. fwd[p] > 0 => p \notin settled /\ ~BeingFlushed(p)
      BY <1>1, <1>2, FlushingForm DEF Booked
    <2> QED  BY <2>1 DEF StateOf
  <1>6. p \in arrived /\ fwd[p] = 0 /\ p \in settled =>
          StateOf(p) = [is |-> "unreachable"]
    <2>1. p \in settled => ~BeingFlushed(p)
      <3> SUFFICES ASSUME BeingFlushed(p), p \in settled PROVE FALSE
        OBVIOUS
      <3>1. PICK i : job.at = "flush" /\ Held(job.req, i, p)
        BY FlushingForm
      <3>2. Past(job.req, i)
        BY <1>2, <3>1 DEF Booked
      <3> QED  BY <3>1, <3>2 DEF Inv, FlushOwns, Referenced, Past
    <2> QED  BY <1>1, <2>1 DEF StateOf
  <1>7. Undecided(p) /\ BeingFlushed(p) => StateOf(p) = [is |-> "answered"]
    BY <1>1 DEF StateOf, Undecided
  <1>8. Undecided(p) /\ ~BeingFlushed(p) =>
          \E ip \in IP : WaitsFor(p, ip) /\ StateOf(p) = [waits |-> ip]
    <2> SUFFICES ASSUME Undecided(p), ~BeingFlushed(p)
                 PROVE  \E ip \in IP :
                          WaitsFor(p, ip) /\ StateOf(p) = [waits |-> ip]
      OBVIOUS
    <2>1. StateOf(p) = [waits |-> CHOOSE ip \in IP : WaitsFor(p, ip)]
      BY <1>1 DEF StateOf, Undecided
    <2>2. WaitsFor(p, CHOOSE ip \in IP : WaitsFor(p, ip))
            /\ (CHOOSE ip \in IP : WaitsFor(p, ip)) \in IP
      BY <1>3
    <2> QED  BY <2>1, <2>2
  <1> QED  BY <1>4, <1>5, <1>6, <1>7, <1>8 DEF StateTable

\* The same after a step.
LEMMA StateFormNext == (Inv /\ Ledger => \A p \in Pkt : StateTable(p))'
  BY StateForm, PTL

\* The same after a step.
LEMMA OneHopNext ==
  (Inv /\ Ledger => \A p \in Pkt : \A ip, jp :
                      WaitsFor(p, ip) /\ WaitsFor(p, jp) => ip = jp)'
  BY OneHop, PTL

\* The same after a step.
LEMMA FlushingFormNext ==
  (Inv => \A p : BeingFlushed(p) <=>
                   /\ job.at = "flush"
                   /\ \E i : Held(job.req, i, p) /\ ~Flushed(job.req, i))'
  BY FlushingForm, PTL

\* The same after a step.
LEMMA WaitsFormNext ==
  (\A p, ip : WaitsFor(p, ip) <=>
    \/ Queueing(p) /\ job.hop = ip
    \/ \E r, i : Held(r, i, p) /\ reqs[r].ip = ip)'
  BY WaitsForm, PTL

\* A packet that a step leaves where it is, or where it waits for the same
\* hop, keeps its state.
LEMMA SameState ==
  ASSUME Inv, Ledger, Inv', Ledger', NEW p \in Pkt,
         p \in arrived' <=> p \in arrived, fwd'[p] = fwd[p],
         p \in settled' <=> p \in settled,
         Undecided(p) => (BeingFlushed(p)' <=> BeingFlushed(p)),
         Undecided(p) => \A ip : WaitsFor(p, ip) => WaitsFor(p, ip)'
  PROVE  StateOf(p)' = StateOf(p)
  <1>1. StateTable(p) /\ StateTable(p)'
    BY StateForm, StateFormNext
  <1>2. fwd[p] \in Nat
    BY DEF Inv, TypeOK
  <1>3. Undecided(p)' <=> Undecided(p)
    BY DEF Undecided
  <1>4. CASE ~Undecided(p) \/ BeingFlushed(p)
    <2>1. fwd[p] = 0 \/ fwd[p] > 0
      BY <1>2
    <2>2. CASE p \notin arrived
      BY <1>1, <2>2 DEF StateTable
    <2>3. CASE p \in arrived /\ fwd[p] > 0
      BY <1>1, <2>3 DEF StateTable
    <2>4. CASE p \in arrived /\ fwd[p] = 0 /\ p \in settled
      BY <1>1, <2>4 DEF StateTable
    <2>5. CASE Undecided(p) /\ BeingFlushed(p)
      BY <1>1, <1>3, <2>5 DEF StateTable
    <2> QED  BY <1>4, <2>1, <2>2, <2>3, <2>4, <2>5 DEF Undecided
  <1>5. CASE Undecided(p) /\ ~BeingFlushed(p)
    <2>1. PICK ip \in IP : WaitsFor(p, ip) /\ StateOf(p) = [waits |-> ip]
      BY <1>1, <1>5 DEF StateTable
    <2>2. PICK jp \in IP : WaitsFor(p, jp)' /\ StateOf(p)' = [waits |-> jp]
      BY <1>1, <1>3, <1>5 DEF StateTable
    <2>3. ip = jp
      BY <1>5, <2>1, <2>2, OneHopNext
    <2> QED  BY <2>1, <2>2, <2>3
  <1> QED  BY <1>4, <1>5

\* A waiting packet's state names its hop.
LEMMA WaitingState ==
  ASSUME Inv, Ledger, NEW p \in Pkt, NEW ip \in IP, Undecided(p),
         ~BeingFlushed(p), WaitsFor(p, ip)
  PROVE  StateOf(p) = [waits |-> ip]
  <1>1. PICK jp \in IP : WaitsFor(p, jp) /\ StateOf(p) = [waits |-> jp]
    BY StateForm DEF StateTable
  <1> QED  BY <1>1, OneHop

-----------------------------------------------------------------------------
(* Every step of SrArp is a step of SrResolve or none. *)

\* A step of SrResolve, or none.
Refines == Resolve!Next \/ UNCHANGED Resolve!vars

\* Mappings are lost, if anything changes at all.
LEMMA RefinesExpire ==
  ASSUME fault = "none", fault' = "none",
         \A p \in Pkt : StateOf(p)' = StateOf(p),
         \A ip \in IP : Cached(ip)' => Cached(ip)
  PROVE  Refines
  <1>1. Resolve!Expire
    BY DEF Resolve!Expire
  <1> QED  BY <1>1 DEF Refines, Resolve!Next

\* The program meets undefined behaviour.
LEMMA RefinesFail ==
  ASSUME fault' # "none",
         \A p \in Pkt : StateOf(p)' = StateOf(p),
         \A ip \in IP : Cached(ip)' <=> Cached(ip)
  PROVE  Refines
  <1>1. Resolve!Fail
    BY DEF Resolve!Fail
  <1> QED  BY <1>1 DEF Refines, Resolve!Next

\* A step that moves no packet and adds no mapping.
LEMMA QuietRefines ==
  ASSUME Inv, Ledger, Inv', Ledger', fault = "none",
         UNCHANGED <<heap, job, arrived, fwd, settled>>,
         \A r \in ReqId : /\ reqs'[r].ip = reqs[r].ip
                          /\ reqs'[r].packets = reqs[r].packets,
         \/ fault' = "none" /\ \A ip \in IP : Cached(ip)' => Cached(ip)
         \/ UNCHANGED entries
  PROVE  Refines
  <1>1. heap \subseteq ReqId
    BY DEF Inv, TypeOK
  <1>2. ASSUME NEW p \in Pkt PROVE StateOf(p)' = StateOf(p)
    <2>1. BeingFlushed(p)' <=> BeingFlushed(p)
      <3>1. job.at = "flush" => job.req \in ReqId
        BY <1>1 DEF Inv, FlushOwns
      <3> QED  BY <3>1 DEF BeingFlushed
    <2>2. \A ip : WaitsFor(p, ip) => WaitsFor(p, ip)'
      BY <1>1 DEF WaitsFor
    <2> QED  BY <2>1, <2>2, SameState
  <1>3. CASE fault' = "none" /\ \A ip \in IP : Cached(ip)' => Cached(ip)
    BY <1>2, <1>3, RefinesExpire
  <1>4. CASE UNCHANGED entries
    <2>1. \A ip \in IP : Cached(ip)' <=> Cached(ip)
      BY <1>4 DEF Cached
    <2> QED  BY <1>2, <2>1, RefinesExpire, RefinesFail
  <1> QED  BY <1>3, <1>4

\* Steps of handle_arpreq outside of its discard loop.
LEMMA CountingRefines ==
  ASSUME Inv, Ledger, Inv', Ledger', NEW t \in Thread,
         Check(t) \/ CheckTries(t) \/ Resend(t) \/ Store(t) \/ Xmit(t)
  PROVE  Refines
  <1>1. TypeOK /\ fault = "none" /\ stack[t] # <<>>
    BY DEF Inv, Check, CheckTries, Resend, Store, Xmit, Active
  <1>2. UNCHANGED <<entries, heap, job, arrived, fwd, settled>>
    BY DEF Check, CheckTries, Resend, Store, Xmit, Dangling
  <1>3. PICK r \in ReqId : r = Top(t).req
    BY <1>1, TopLemma
  <1>4. \A s \in ReqId : /\ reqs'[s].ip = reqs[s].ip
                         /\ reqs'[s].packets = reqs[s].packets
    <2>1. CASE reqs' = reqs
      BY <2>1
    <2>2. CASE reqs' = [reqs EXCEPT ![r].sent = Top(t).cur]
      BY <1>1, <2>2 DEF TypeOK, Request
    <2>3. CASE reqs' = [reqs EXCEPT ![r].times_sent = Top(t).seen + 1]
      BY <1>1, <2>3 DEF TypeOK, Request
    <2>4. CASE reqs' = [reqs EXCEPT ![r].arps = @ + 1]
      BY <1>1, <2>4 DEF TypeOK, Request
    <2> QED  BY <1>3, <2>1, <2>2, <2>3, <2>4
                DEF Check, CheckTries, Resend, Store, Xmit, Dangling
  <1> QED  BY <1>1, <1>2, <1>4, QuietRefines

\* Steps of the timeout thread itself and of the clock: a sweep expires
\* mappings.
LEMMA TimeoutRefines ==
  ASSUME Inv, Ledger, Inv', Ledger', Wake \/ Visit \/ Rest \/ Tick
  PROVE  Refines
  <1>1. /\ TypeOK /\ fault = "none"
        /\ UNCHANGED <<heap, job, arrived, fwd, settled>>
    BY DEF Inv, Wake, Visit, Rest, Tick
  <1>2. CASE Wake
    <2>1. UNCHANGED reqs /\ fault' = "none"
      BY <1>1, <1>2 DEF Wake
    <2>2. \A s \in Slot : entries'[s] = NoEntry \/ entries'[s] = entries[s]
      BY <1>2 DEF Wake
    <2>3. \A ip \in IP : Cached(ip)' => Cached(ip)
      BY <2>2 DEF Cached
    <2> QED  BY <1>1, <2>1, <2>3, QuietRefines
  <1>3. CASE Visit \/ Rest
    <2>1. UNCHANGED <<reqs, entries>>
      BY <1>3 DEF Visit, Rest
    <2> QED  BY <1>1, <2>1, QuietRefines
  <1>4. CASE Tick
    <2>1. fault' = "none"
      BY <1>1, <1>4 DEF Tick
    <2>2. /\ \A s \in Slot : /\ entries'[s] = NoEntry <=> entries[s] = NoEntry
                             /\ entries[s] # NoEntry =>
                                  entries'[s].ip = entries[s].ip
          /\ \A r \in ReqId : /\ reqs'[r].ip = reqs[r].ip
                              /\ reqs'[r].packets = reqs[r].packets
      BY <1>1, <1>4, TickLemma
    <2>3. \A ip \in IP : Cached(ip)' => Cached(ip)
      BY <2>2 DEF Cached
    <2> QED  BY <1>1, <2>1, <2>2, <2>3, QuietRefines
  <1> QED  BY <1>2, <1>3, <1>4
\* A step after which every packet whose fate is open waits for the hop it
\* waited for, or is still to be sent by main's loop.
LEMMA MoveRefines ==
  ASSUME Inv, Ledger, Inv', Ledger', fault = "none",
         UNCHANGED <<entries, arrived, fwd, settled>>,
         \A p \in Pkt : Undecided(p) =>
           /\ BeingFlushed(p)' <=> BeingFlushed(p)
           /\ \A ip : WaitsFor(p, ip) => WaitsFor(p, ip)'
  PROVE  Refines
  <1>1. \A p \in Pkt : StateOf(p)' = StateOf(p)
    BY SameState
  <1>2. \A ip \in IP : Cached(ip)' <=> Cached(ip)
    BY DEF Cached
  <1> QED  BY <1>1, <1>2, RefinesExpire, RefinesFail

\* Finding a request freed.
LEMMA DanglingRefines ==
  ASSUME Inv, Ledger, Inv', Ledger', fault = "none",
         NEW t \in Thread, NEW r, Dangling(t, r)
  PROVE  Refines
  BY QuietRefines DEF Dangling

\* Queueing an ICMP error leaves the packets where they are.
LEMMA EnqueueRefines ==
  ASSUME Inv, Ledger, Inv', Ledger', NEW t \in Thread, Enqueue(t)
  PROVE  Refines
  <1>1. /\ TypeOK /\ stack[t] # <<>> /\ Top(t).at = "enqueue" /\ fault = "none"
        /\ UNCHANGED <<entries, job, arrived, fwd, settled>>
    BY DEF Inv, Enqueue, Active, Top
  <1>2. Top(t) \in Frame /\ Len(stack[t]) \in DOMAIN stack[t]
    BY <1>1, TopLemma
  <1>3. Top(t).dst \in IP /\ RouterIp[Top(t).dst] # NULL
    BY <1>1, <1>2 DEF Inv, ActivationsOK, ActivationOK, Top
  <1>4. PICK pk \in Packet : pk = [pkt |-> NULL, src |-> RouterIp[Top(t).dst]]
    BY <1>3, RouterIpAssumption DEF Packet
  <1>5. PICK r \in ReqId : QueueReq(Top(t).dst, pk, r)
    BY <1>4 DEF Enqueue
  <1>6. \A s \in heap : s \in heap' /\ reqs'[s].ip = reqs[s].ip
    BY <1>3, <1>5, QueueReqHeld
  <1>7. \A p \in Pkt : \A s, i : Held(s, i, p)' <=> Held(s, i, p)
    <2>1. PICK n \in Nat \ {0} : \A s, i, p : Held(s, i, p)' <=>
                   Held(s, i, p) \/ (s = r /\ i = n /\ p = pk.pkt)
      BY <1>3, <1>5, QueueReqHeld
    <2>2. pk.pkt = NULL
      BY <1>4
    <2> QED  BY <2>1, <2>2, MarkersAssumption
  <1>8. ASSUME NEW p \in Pkt
        PROVE  /\ BeingFlushed(p)' <=> BeingFlushed(p)
               /\ \A ip : WaitsFor(p, ip) => WaitsFor(p, ip)'
    <2>1. BeingFlushed(p)' <=> BeingFlushed(p)
      BY <1>1, <1>7, FlushingForm, FlushingFormNext DEF Flushed
    <2>2. \A s, i : Held(s, i, p) => s \in heap
      BY DEF Held
    <2>3. Queueing(p)' <=> Queueing(p)
      BY <1>1 DEF Queueing
    <2> QED  BY <1>1, <1>6, <1>7, <2>1, <2>2, <2>3, WaitsForm, WaitsFormNext
  <1> QED  BY <1>1, <1>8, MoveRefines

\* A request given up has only packets that are dealt with.
LEMMA DiscardDoneRefines ==
  ASSUME Inv, Ledger, Inv', Ledger', NEW t \in Thread, DiscardDone(t)
  PROVE  Refines
  <1>1. /\ TypeOK /\ stack[t] # <<>> /\ Top(t).at = "discard"
        /\ Top(t).left = 0 /\ fault = "none"
    BY DEF Inv, DiscardDone, Active, Top
  <1>2. PICK r \in ReqId : r = Top(t).req
    BY <1>1, TopLemma
  <1>3. CASE Dangling(t, r)
    BY <1>1, <1>3, DanglingRefines
  <1>4. CASE ~Dangling(t, r)
    <2>1. /\ Destroy(r) /\ UNCHANGED <<entries, job, arrived, fwd, settled>>
      BY <1>2, <1>4 DEF DiscardDone
    <2>2. /\ heap' = heap \ {r}
          /\ \A s \in heap \ {r} : reqs'[s] = reqs[s]
          /\ \A s, i, p : Held(s, i, p)' <=> Held(s, i, p) /\ s # r
      BY <2>1, DestroyHeld
    <2>3. \A p \in Pkt : Booked(p)
      BY <1>1, LedgerForm
    <2>4. ASSUME NEW p \in Pkt, Undecided(p), NEW i PROVE ~Held(r, i, p)
      <3> SUFFICES ASSUME Held(r, i, p) PROVE FALSE
        OBVIOUS
      <3>1. i \in DOMAIN reqs[r].packets /\ reqs[r].packets \in Seq(Packet)
        BY <1>1 DEF Held, TypeOK, Request
      <3>2. 0 < i
        BY <3>1
      <3>3. Len(stack[t]) \in DOMAIN stack[t]
        BY <1>1, TopLemma
      <3>4. Past(r, i)
        BY <1>1, <1>2, <3>2, <3>3 DEF Past, Top
      <3> QED  BY <2>3, <2>4, <3>4 DEF Booked, Undecided
    <2>5. ASSUME NEW p \in Pkt, Undecided(p)
          PROVE  /\ BeingFlushed(p)' <=> BeingFlushed(p)
                 /\ \A ip : WaitsFor(p, ip) => WaitsFor(p, ip)'
      <3>1. \A s, i : Held(s, i, p)' <=> Held(s, i, p)
        BY <2>2, <2>4, <2>5
      <3>2. BeingFlushed(p)' <=> BeingFlushed(p)
        BY <2>1, <3>1, FlushingForm, FlushingFormNext DEF Flushed
      <3>3. \A s, i : Held(s, i, p) => s \in heap \ {r}
        BY <2>4, <2>5 DEF Held
      <3>4. Queueing(p)' <=> Queueing(p)
        BY <2>1 DEF Queueing
      <3> QED  BY <2>1, <2>2, <3>1, <3>2, <3>3, <3>4, WaitsForm, WaitsFormNext
    <2> QED  BY <1>1, <2>1, <2>5, MoveRefines
  <1> QED  BY <1>2, <1>3, <1>4 DEF DiscardDone

\* An answered request that main is done with has only packets that are sent.
LEMMA FlushDoneRefines ==
  ASSUME Inv, Ledger, Inv', Ledger', FlushDone
  PROVE  Refines
  <1>1. /\ TypeOK /\ job.at = "flush" /\ job.left = 0 /\ Destroy(job.req)
        /\ job' = Idle /\ fault = "none"
        /\ UNCHANGED <<entries, arrived, fwd, settled>>
    BY DEF Inv, FlushDone
  <1>2. PICK r \in ReqId : r = job.req
    BY <1>1 DEF TypeOK, Job, Idle
  <1>3. job'.at = "idle"
    BY <1>1 DEF Idle
  <1>4. /\ heap' = heap \ {r}
        /\ \A s \in heap \ {r} : reqs'[s] = reqs[s]
        /\ \A s, i, p : Held(s, i, p)' <=> Held(s, i, p) /\ s # r
    BY <1>1, <1>2, DestroyHeld
  <1>5. \A p \in Pkt : Booked(p)
    BY <1>1, LedgerForm
  <1>6. ASSUME NEW p \in Pkt, Undecided(p), NEW i PROVE ~Held(r, i, p)
    <2> SUFFICES ASSUME Held(r, i, p) PROVE FALSE
      OBVIOUS
    <2>1. i \in DOMAIN reqs[r].packets /\ reqs[r].packets \in Seq(Packet)
      BY <1>1 DEF Held, TypeOK, Request
    <2>2. i > 0
      BY <2>1
    <2>3. Flushed(r, i)
      BY <1>1, <1>2, <2>2 DEF Flushed
    <2> QED  BY <1>5, <1>6, <2>3 DEF Booked, Undecided
  <1>7. ASSUME NEW p \in Pkt, Undecided(p)
        PROVE  /\ BeingFlushed(p)' <=> BeingFlushed(p)
               /\ \A ip : WaitsFor(p, ip) => WaitsFor(p, ip)'
    <2>1. ~BeingFlushed(p)
      BY <1>2, <1>6, <1>7, FlushingForm
    <2>2. ~BeingFlushed(p)'
      BY <1>3 DEF BeingFlushed
    <2>3. \A s, i : Held(s, i, p) => s \in heap \ {r} /\ Held(s, i, p)'
      BY <1>4, <1>6, <1>7 DEF Held
    <2>4. ~Queueing(p)
      BY <1>1 DEF Queueing
    <2> QED  BY <1>4, <2>1, <2>2, <2>3, <2>4, WaitsForm, WaitsFormNext
  <1> QED  BY <1>1, <1>7, MoveRefines

\* The packet main queues waits for the hop it waited for in main's hands.
LEMMA MainQueueRefines ==
  ASSUME Inv, Ledger, Inv', Ledger', MainQueue
  PROVE  Refines
  <1>1. /\ TypeOK /\ job.at = "queue" /\ job' = Idle /\ fault = "none"
        /\ UNCHANGED <<entries, arrived, fwd, settled>>
    BY DEF Inv, MainQueue
  <1>2. job.hop \in IP /\ job.pkt \in Pkt /\ job'.at = "idle"
    BY <1>1 DEF TypeOK, Job, Idle
  <1>3. PICK pk \in Packet : pk = [pkt |-> job.pkt, src |-> job.src]
    <2>1. job \in [at : {"queue"}, pkt : Pkt, src : IP, hop : IP]
      BY <1>1 DEF TypeOK, Job, Idle
    <2> QED  BY <2>1 DEF Packet
  <1>4. PICK r \in ReqId : QueueReq(job.hop, pk, r)
    BY <1>3 DEF MainQueue
  <1>5. /\ reqs'[r].ip = job.hop
        /\ \A s \in heap : reqs'[s].ip = reqs[s].ip
    BY <1>2, <1>4, QueueReqHeld
  <1>6. PICK n \in Nat \ {0} : \A s, i, p : Held(s, i, p)' <=>
                 Held(s, i, p) \/ (s = r /\ i = n /\ p = pk.pkt)
    BY <1>2, <1>4, QueueReqHeld
  <1>7. pk.pkt = job.pkt
    BY <1>3
  <1>8. ASSUME NEW p \in Pkt
        PROVE  /\ BeingFlushed(p)' <=> BeingFlushed(p)
               /\ \A ip : WaitsFor(p, ip) => WaitsFor(p, ip)'
    <2>1. ~BeingFlushed(p) /\ ~BeingFlushed(p)'
      BY <1>1, <1>2 DEF BeingFlushed
    <2>2. Queueing(p) => Held(r, n, p)'
      BY <1>6, <1>7 DEF Queueing
    <2>3. \A s, i : Held(s, i, p) => s \in heap /\ Held(s, i, p)'
      BY <1>6 DEF Held
    <2> QED  BY <1>5, <2>1, <2>2, <2>3, WaitsForm, WaitsFormNext
  <1> QED  BY <1>1, <1>8, MoveRefines

\* One packet's state changes and no other.
LEMMA BecomeLemma ==
  ASSUME NEW p \in Pkt, NEW f, StateOf(p)' = f,
         \A q \in Pkt : q # p => StateOf(q)' = StateOf(q)
  PROVE  Resolve!Become(p, f)
  BY DEF Resolve!Become

\* A turn of the discard loop gives the packet it is at up, unless a loop over
\* the same request has been there before; its hop is not cached.
LEMMA DiscardPacketRefines ==
  ASSUME Inv, Ledger, Inv', Ledger', NEW t \in Thread, DiscardPacket(t)
  PROVE  Refines
  <1>1. /\ TypeOK /\ stack[t] # <<>> /\ Top(t).at = "discard"
        /\ fault = "none" /\ Top(t).left > 0 /\ Active(t, "discard")
    BY DEF Inv, DiscardPacket, Active, Top
  <1>2. PICK r \in ReqId : r = Top(t).req
    BY <1>1, TopLemma
  <1>3. CASE Dangling(t, r)
    BY <1>1, <1>3, DanglingRefines
  <1>4. CASE ~Dangling(t, r)
    <2>1. r \in heap
      BY <1>2, <1>4 DEF DiscardPacket
    <2>2. PICK pk \in Packet : pk = reqs[r].packets[Top(t).left]
      BY <1>1, <1>2, <2>1, DiscardLemma
    <2>3. PICK p \in Pkt \cup {NULL} : p = pk.pkt
      BY DEF Packet
    <2>4. /\ settled' = settled \cup ({p} \ {NULL})
          /\ UNCHANGED <<entries, heap, reqs, job, arrived, fwd, fault>>
      BY <1>2, <1>4, <2>2, <2>3 DEF DiscardPacket
    <2>5. \A q : /\ BeingFlushed(q)' <=> BeingFlushed(q)
                 /\ \A ip : WaitsFor(q, ip) => WaitsFor(q, ip)'
      BY <2>4 DEF BeingFlushed, WaitsFor
    <2>6. \A q \in Pkt : q # p => StateOf(q)' = StateOf(q)
      <3> SUFFICES ASSUME NEW q \in Pkt, q # p PROVE StateOf(q)' = StateOf(q)
        OBVIOUS
      <3>1. q \in settled' <=> q \in settled
        BY <2>4
      <3> QED  BY <2>4, <2>5, <3>1, SameState
    <2>7. CASE p = NULL \/ p \in settled
      <3>1. settled' = settled
        BY <2>4, <2>7
      <3> QED  BY <1>1, <2>4, <2>5, <3>1, MoveRefines
    <2>8. CASE p # NULL /\ p \notin settled
      <3>1. p \in Pkt
        BY <2>8
      <3>2. PICK n \in Nat : n = Top(t).left /\ Held(r, n, p)
        <4>1. Len(stack[t]) \in DOMAIN stack[t] /\ Top(t).left \in Nat
          BY <1>1, TopLemma DEF Frame
        <4>2. Top(t).left <= Len(reqs[r].packets)
          BY <1>1, <1>2, <2>1, <4>1 DEF Inv, ActivationsOK, ActivationOK, Top
        <4>3. reqs[r].packets \in Seq(Packet)
          BY <1>1 DEF TypeOK, Request
        <4>4. Top(t).left \in DOMAIN reqs[r].packets
          BY <1>1, <4>1, <4>2, <4>3
        <4> QED  BY <2>1, <2>2, <2>3, <4>1, <4>4 DEF Held
      <3>3. Booked(p) /\ fwd[p] \in Nat /\ HeapQueued
        BY <1>1, <3>1, LedgerForm DEF TypeOK
      <3>4. ~(job.at = "flush" /\ job.req = r)
        <4>1. Len(stack[t]) \in DOMAIN stack[t]
          BY <1>1, TopLemma
        <4>2. Referenced(r)
          BY <1>2, <4>1 DEF Referenced, Top
        <4> QED  BY <4>2 DEF Inv, FlushOwns
      <3>5. Undecided(p)
        BY <2>8, <3>2, <3>3, <3>4 DEF Booked, Undecided, Flushed
      <3>6. ~BeingFlushed(p)
        BY <3>2, <3>3, <3>4, FlushingForm DEF Booked
      <3>7. PICK ip \in IP : ip = reqs[r].ip
        BY <1>1 DEF TypeOK, Request
      <3>8. StateOf(p) = [waits |-> ip]
        BY <3>1, <3>2, <3>5, <3>6, <3>7, WaitsForm, WaitingState
      <3>9. ~Cached(ip)
        <4>1. PICK i \in DOMAIN requests : requests[i] = r
          BY <2>1, <3>3, <3>4 DEF HeapQueued
        <4> QED  BY <3>7, <4>1 DEF Inv, CachedXorPending, Cached
      <3>10. StateOf(p)' = [is |-> "unreachable"]
        <4>1. StateTable(p)'
          BY <3>1, StateFormNext
        <4>2. p \in arrived' /\ fwd'[p] = 0 /\ p \in settled'
          BY <2>4, <2>8, <3>5 DEF Undecided
        <4> QED  BY <4>1, <4>2 DEF StateTable
      <3>11. \A jp \in IP : Cached(jp)' <=> Cached(jp)
        BY <2>4 DEF Cached
      <3>12. Resolve!Become(p, [is |-> "unreachable"])
        BY <2>6, <3>1, <3>10, BecomeLemma
      <3>13. Resolve!GiveUp(p)
        BY <1>1, <2>4, <3>1, <3>8, <3>9, <3>11, <3>12
           DEF Resolve!GiveUp, Resolve!Is, Resolve!Waiting
      <3> QED  BY <3>1, <3>13 DEF Refines, Resolve!Next
    <2> QED  BY <2>7, <2>8
  <1> QED  BY <1>2, <1>3, <1>4 DEF DiscardPacket

\* A packet handed over is sent if its hop is cached, else waits for it.
LEMMA SubmitRefines ==
  ASSUME Inv, Ledger, Inv', Ledger', NEW p \in Pkt, NEW flow \in Traffic,
         Submit(p, flow)
  PROVE  Refines
  <1>1. /\ TypeOK /\ job = Idle /\ p \notin arrived /\ fault = "none"
        /\ UNCHANGED <<entries, heap, reqs, settled, fault>>
        /\ arrived' = arrived \cup {p}
    BY DEF Inv, Submit, MainIdle
  <1>2. PICK hop \in IP : hop = flow.hop
    BY TrafficAssumption
  <1>3. job.at = "idle"
    BY <1>1 DEF Idle
  <1>4. /\ fwd' = fwd \/ fwd' = [fwd EXCEPT ![p] = @ + 1]
        /\ job'.at # "flush"
        /\ job' = job \/ (job'.at = "queue" /\ job'.pkt = p)
    BY <1>3 DEF Submit
  <1>5. \A q \in Pkt : q # p => StateOf(q)' = StateOf(q)
    <2> SUFFICES ASSUME NEW q \in Pkt, q # p PROVE StateOf(q)' = StateOf(q)
      OBVIOUS
    <2>1. fwd'[q] = fwd[q] /\ (q \in arrived' <=> q \in arrived)
      BY <1>1, <1>4 DEF TypeOK
    <2>2. ~BeingFlushed(q) /\ ~BeingFlushed(q)'
      BY <1>3, <1>4 DEF BeingFlushed
    <2>3. \A ip : WaitsFor(q, ip) => WaitsFor(q, ip)'
      BY <1>1, <1>3 DEF WaitsFor
    <2> QED  BY <1>1, <2>1, <2>2, <2>3, SameState
  <1>6. \A ip \in IP : Cached(ip)' <=> Cached(ip)
    BY <1>1 DEF Cached
  <1>7. fwd[p] = 0 /\ p \notin settled /\ fwd[p] \in Nat
    BY <1>1, LedgerForm DEF Booked, TypeOK
  <1>8. StateTable(p) /\ StateTable(p)'
    BY StateForm, StateFormNext
  <1>9. StateOf(p) = [is |-> "new"]
    BY <1>1, <1>8 DEF StateTable
  <1>10. CASE Cached(hop)
    <2>1. fwd'[p] = 1
      BY <1>1, <1>2, <1>7, <1>10 DEF Submit, TypeOK
    <2>2. StateOf(p)' = [is |-> "sent"]
      BY <1>1, <1>8, <2>1 DEF StateTable
    <2>3. Resolve!Become(p, [is |-> "sent"])
      BY <1>5, <2>2, BecomeLemma
    <2>4. Resolve!Offer(p, hop)
      BY <1>1, <1>6, <1>9, <1>10, <2>3
         DEF Resolve!Offer, Resolve!Is, Resolve!Waiting
    <2> QED  BY <2>4 DEF Refines, Resolve!Next
  <1>11. CASE ~Cached(hop)
    <2>1. fwd'[p] = 0 /\ job'.at = "queue" /\ job'.pkt = p /\ job'.hop = hop
      BY <1>2, <1>7, <1>11 DEF Submit
    <2>2. Undecided(p)' /\ ~BeingFlushed(p)'
      BY <1>1, <1>7, <2>1 DEF Undecided, BeingFlushed
    <2>3. WaitsFor(p, hop)'
      BY <2>1 DEF WaitsFor
    <2>4. StateOf(p)' = [waits |-> hop]
      <3>1. PICK jp \in IP : WaitsFor(p, jp)' /\ StateOf(p)' = [waits |-> jp]
        BY <1>8, <2>2 DEF StateTable
      <3> QED  BY <2>3, <3>1, OneHopNext
    <2>5. Resolve!Become(p, [waits |-> hop])
      BY <1>5, <2>4, BecomeLemma
    <2>6. Resolve!Offer(p, hop)
      BY <1>1, <1>6, <1>9, <1>11, <2>5
         DEF Resolve!Offer, Resolve!Is, Resolve!Waiting
    <2> QED  BY <2>6 DEF Refines, Resolve!Next
  <1> QED  BY <1>10, <1>11

\* A turn of main's loop sends the packet it is at, which was answered for.
LEMMA FlushRefines ==
  ASSUME Inv, Ledger, Inv', Ledger', Flush
  PROVE  Refines
  <1>1. /\ TypeOK /\ job.at = "flush" /\ job.left > 0 /\ fault = "none"
        /\ UNCHANGED <<entries, heap, reqs, arrived, settled, fault>>
    BY DEF Inv, Flush
  <1>2. job \in [at : {"flush"}, req : ReqId, left : Nat]
    BY <1>1 DEF TypeOK, Job, Idle
  <1>3. job'.at = "flush" /\ job'.req = job.req /\ job'.left = job.left - 1
    BY <1>2 DEF Flush
  <1>4. PICK p \in Pkt \cup {NULL} : p = reqs[job.req].packets[job.left].pkt
    BY <1>1, FlushLemma
  <1>5. fwd' = IF p = NULL THEN fwd ELSE [fwd EXCEPT ![p] = @ + 1]
    BY <1>4 DEF Flush
  <1>6. Held(job.req, job.left, p)
    BY <1>1, <1>4, FlushLemma
  <1>7. \A q \in Pkt : q # p => StateOf(q)' = StateOf(q)
    <2> SUFFICES ASSUME NEW q \in Pkt, q # p PROVE StateOf(q)' = StateOf(q)
      OBVIOUS
    <2>1. fwd'[q] = fwd[q]
      BY <1>1, <1>5 DEF TypeOK
    <2>2. \A i \in 1..job.left : i \in 1..job'.left \/ i = job.left
      BY <1>2, <1>3
    <2>3. \A i \in 1..job'.left : i \in 1..job.left
      BY <1>2, <1>3
    <2>4. BeingFlushed(q)' <=> BeingFlushed(q)
      BY <1>1, <1>3, <1>4, <2>2, <2>3 DEF BeingFlushed
    <2>5. \A ip : WaitsFor(q, ip) => WaitsFor(q, ip)'
      BY <1>1 DEF WaitsFor
    <2> QED  BY <1>1, <2>1, <2>4, <2>5, SameState
  <1>8. \A ip \in IP : Cached(ip)' <=> Cached(ip)
    BY <1>1 DEF Cached
  <1>9. CASE p = NULL
    <2>1. \A q \in Pkt : q # p
      BY <1>9, MarkersAssumption
    <2> QED  BY <1>1, <1>7, <1>8, <2>1, RefinesExpire
  <1>10. CASE p # NULL
    <2>1. p \in Pkt /\ Booked(p) /\ fwd[p] \in Nat
      BY <1>1, <1>10, LedgerForm DEF TypeOK
    <2>2. ~Flushed(job.req, job.left)
      BY <1>2 DEF Flushed
    <2>3. ~Past(job.req, job.left)
      BY <1>1 DEF Inv, FlushOwns, Referenced, Past
    <2>4. Undecided(p)
      BY <1>6, <2>1, <2>2, <2>3 DEF Booked, Undecided
    <2>5. BeingFlushed(p)
      BY <1>1, <1>6, <2>2, FlushingForm
    <2>6. StateOf(p) = [is |-> "answered"]
      BY <2>1, <2>4, <2>5, StateForm DEF StateTable
    <2>7. p \in arrived' /\ fwd'[p] > 0
      BY <1>1, <1>5, <1>10, <2>1, <2>4 DEF Undecided, TypeOK
    <2>8. StateOf(p)' = [is |-> "sent"]
      BY <2>1, <2>7, StateFormNext DEF StateTable
    <2>9. Resolve!Become(p, [is |-> "sent"])
      BY <1>7, <2>1, <2>8, BecomeLemma
    <2>10. Resolve!Deliver(p)
      BY <1>1, <1>8, <2>1, <2>6, <2>9 DEF Resolve!Deliver, Resolve!Is
    <2> QED  BY <2>1, <2>10 DEF Refines, Resolve!Next
  <1> QED  BY <1>9, <1>10

\* A packet's state is that it waits for ip just when its fate is open, main's
\* loop is not about to send it, and it waits for ip.
LEMMA WaitingExact ==
  ASSUME Inv, Ledger, NEW p \in Pkt, NEW ip \in IP
  PROVE  StateOf(p) = [waits |-> ip] <=>
           Undecided(p) /\ ~BeingFlushed(p) /\ WaitsFor(p, ip)
  <1>1. \A f : [waits |-> ip] # [is |-> f]
    <2> SUFFICES ASSUME NEW f PROVE [waits |-> ip] # [is |-> f]
      OBVIOUS
    <2>1. DOMAIN [waits |-> ip] = {"waits"} /\ DOMAIN [is |-> f] = {"is"}
      OBVIOUS
    <2> QED  BY <2>1
  <1>2. \A jp : [waits |-> ip] = [waits |-> jp] => ip = jp
    <2> SUFFICES ASSUME NEW jp, [waits |-> ip] = [waits |-> jp] PROVE ip = jp
      OBVIOUS
    <2>1. [waits |-> ip].waits = ip /\ [waits |-> jp].waits = jp
      OBVIOUS
    <2> QED  BY <2>1
  <1>3. StateTable(p) /\ fwd[p] \in Nat
    BY StateForm DEF Inv, TypeOK
  <1>4. fwd[p] = 0 \/ fwd[p] > 0
    BY <1>3
  <1>5. ASSUME StateOf(p) = [waits |-> ip]
        PROVE  Undecided(p) /\ ~BeingFlushed(p) /\ WaitsFor(p, ip)
    <2>1. Undecided(p) /\ ~BeingFlushed(p)
      BY <1>1, <1>3, <1>4, <1>5 DEF StateTable, Undecided
    <2>2. PICK jp \in IP : WaitsFor(p, jp) /\ StateOf(p) = [waits |-> jp]
      BY <1>3, <2>1 DEF StateTable
    <2> QED  BY <1>2, <1>5, <2>1, <2>2
  <1> QED  BY <1>5, WaitingState

\* An ARP reply adds at most the mapping of its sender.
LEMMA ReplyKnown ==
  ASSUME Inv, NEW ip \in Repliers, NEW mac \in Mac, Reply(ip, mac)
  PROVE  \/ \A jp : Cached(jp)' <=> Cached(jp)
         \/ \A jp : Cached(jp)' <=> Cached(jp) \/ jp = ip
  <1>1. PICK e \in Entry : e = [ip |-> ip, mac |-> mac, added |-> 0]
    <2>1. ip \in IP /\ 0 \in 0..(CacheTO + 1)
      BY ConstantsAssumption, TrafficAssumption
    <2> QED  BY <2>1 DEF Entry
  <1>2. entries \in [Slot -> Entry \cup {NoEntry}]
    BY DEF Inv, TypeOK
  <1>3. e.ip = ip /\ e # NoEntry
    BY <1>1, MarkersAssumption
  <1>4. CASE UNCHANGED entries
    BY <1>4 DEF Cached
  <1>5. ASSUME NEW s \in Slot, entries[s] = NoEntry,
               entries' = [entries EXCEPT ![s] = e]
        PROVE  \A jp : Cached(jp)' <=> Cached(jp) \/ jp = ip
    <2>1. entries'[s] = e /\ \A k \in Slot : k # s => entries'[k] = entries[k]
      BY <1>2, <1>5
    <2> QED  BY <1>3, <1>5, <2>1 DEF Cached
  <1> QED  BY <1>1, <1>4, <1>5 DEF Reply

\* An answer frees the packets that wait for the hop, all of them and no other.
LEMMA ReplyRefines ==
  ASSUME Inv, Ledger, Inv', Ledger', NEW ip \in Repliers, NEW mac \in Mac,
         Reply(ip, mac)
  PROVE  Refines
  <1>1. /\ TypeOK /\ QueueSound /\ job.at = "idle" /\ fault = "none" /\ ip \in IP
        /\ UNCHANGED <<heap, reqs, arrived, fwd, settled, fault>>
    BY TrafficAssumption DEF Inv, Reply, MainIdle, Idle
  <1>2. \A r \in heap : \E i \in DOMAIN requests : requests[i] = r
    BY <1>1 DEF Ledger, HeapQueued
  <1>3. \A s, i, q : Held(s, i, q)' <=> Held(s, i, q)
    BY <1>1 DEF Held
  <1>4. \A q : ~Queueing(q) /\ ~BeingFlushed(q)
    BY <1>1 DEF Queueing, BeingFlushed
  <1>5. \A q, jp : WaitsFor(q, jp) <=>
                     \E s, i : Held(s, i, q) /\ reqs[s].ip = jp
    BY <1>4, WaitsForm
  <1>6. \A q, jp : WaitsFor(q, jp) => WaitsFor(q, jp)'
    BY <1>1, <1>3, <1>5, WaitsFormNext
  <1>7. ASSUME NEW q \in Pkt, Undecided(q)
        PROVE  BeingFlushed(q)' <=> WaitsFor(q, ip)
    <2>1. CASE /\ \A i \in DOMAIN requests : reqs[requests[i]].ip # ip
               /\ UNCHANGED job
      <3>1. ~WaitsFor(q, ip)
        BY <1>2, <1>5, <2>1 DEF Held
      <3> QED  BY <1>1, <2>1, <3>1 DEF BeingFlushed
    <2>2. ASSUME NEW k \in DOMAIN requests, reqs[requests[k]].ip = ip,
                 job' = [at |-> "flush", req |-> requests[k],
                         left |-> Waiting(requests[k])]
          PROVE  BeingFlushed(q)' <=> WaitsFor(q, ip)
      <3>1. PICK r \in heap : r = requests[k]
        BY <1>1 DEF QueueSound
      <3>2. \A s \in heap : reqs[s].ip = ip <=> s = r
        BY <1>1, <1>2, <2>2, <3>1 DEF QueueSound
      <3>3. reqs[r].packets \in Seq(Packet)
        BY <1>1 DEF TypeOK, Request
      <3>4. /\ job'.at = "flush" /\ job'.req = r
            /\ 1..job'.left = DOMAIN reqs[r].packets
        BY <2>2, <3>1, <3>3 DEF Waiting
      <3>5. BeingFlushed(q)' <=>
              \E i \in DOMAIN reqs[r].packets : reqs[r].packets[i].pkt = q
        BY <1>1, <3>4 DEF BeingFlushed
      <3>6. \A s, i : Held(s, i, q) => s \in heap
        BY DEF Held
      <3>7. WaitsFor(q, ip) <=> \E i : Held(r, i, q)
        BY <1>5, <3>2, <3>6
      <3> QED  BY <3>5, <3>7 DEF Held
    <2> QED  BY <2>1, <2>2 DEF Reply
  <1>8. ASSUME NEW q \in Pkt
        PROVE  StateOf(q)' = IF StateOf(q) = [waits |-> ip]
                             THEN [is |-> "answered"] ELSE StateOf(q)
    <2>1. StateOf(q) = [waits |-> ip] <=> Undecided(q) /\ WaitsFor(q, ip)
      BY <1>1, <1>4, WaitingExact
    <2>2. CASE Undecided(q) /\ WaitsFor(q, ip)
      <3>1. BeingFlushed(q)'
        BY <1>7, <2>2
      <3>2. Undecided(q)'
        BY <1>1, <2>2 DEF Undecided
      <3>3. StateOf(q)' = [is |-> "answered"]
        BY <3>1, <3>2, StateFormNext DEF StateTable
      <3> QED  BY <2>1, <2>2, <3>3
    <2>3. CASE ~(Undecided(q) /\ WaitsFor(q, ip))
      <3>1. Undecided(q) => (BeingFlushed(q)' <=> BeingFlushed(q))
        BY <1>4, <1>7, <2>3
      <3>2. StateOf(q)' = StateOf(q)
        BY <1>1, <1>6, <3>1, SameState
      <3> QED  BY <2>1, <2>3, <3>2
    <2> QED  BY <2>2, <2>3
  <1>9. {jp \in IP : Cached(jp)}' \in
          {{jp \in IP : Cached(jp)}, {jp \in IP : Cached(jp)} \cup {ip}}
    BY <1>1, ReplyKnown
  <1>10. Resolve!Answer(ip)
    BY <1>1, <1>8, <1>9 DEF Resolve!Answer, Resolve!Is, Resolve!Waiting
  <1> QED  BY <1>1, <1>10 DEF Refines, Resolve!Next

-----------------------------------------------------------------------------
(* SrArp implements SrResolve. *)

\* sr_arpcache_init: no packet, no mapping.
LEMMA InitRefines == Init => Resolve!Init
  <1> SUFFICES ASSUME Init PROVE Resolve!Init
    OBVIOUS
  <1>1. /\ fault = "none" /\ job.at = "idle"
        /\ \A s \in Slot : entries[s] = NoEntry
        /\ \A p \in Pkt : p \notin arrived /\ ~(fwd[p] > 0) /\ p \notin settled
    BY DEF Init, Idle
  <1>2. \A p \in Pkt : StateOf(p) = [is |-> "new"]
    BY <1>1 DEF StateOf, BeingFlushed
  <1>3. \A ip \in IP : ~Cached(ip)
    BY <1>1 DEF Cached
  <1> QED  BY <1>1, <1>2, <1>3 DEF Resolve!Init, Resolve!Is

\* Every step of the program is a step of SrResolve or leaves it alone.
LEMMA NextRefines ==
  ASSUME Inv, Ledger, [Next]_vars
  PROVE  [Resolve!Next]_(Resolve!vars)
  <1> SUFFICES Refines
    BY DEF Refines
  <1>1. Inv' /\ Ledger'
    BY NextInv, NextLedger
  <1>2. ASSUME NEW t \in Thread, HandleArpreq(t) PROVE Refines
    BY <1>1, <1>2, CountingRefines, DiscardPacketRefines, EnqueueRefines,
       DiscardDoneRefines DEF HandleArpreq
  <1>3. CASE MainStep
    <2>1. "main" \in Thread
      BY DEF Thread
    <2> QED  BY <1>1, <1>2, <1>3, <2>1, SubmitRefines, ReplyRefines,
                MainQueueRefines, FlushRefines, FlushDoneRefines DEF MainStep
  <1>4. CASE TimeoutStep
    <2>1. "timeout" \in Thread
      BY DEF Thread
    <2> QED  BY <1>1, <1>2, <1>4, <2>1, TimeoutRefines DEF TimeoutStep
  <1>5. CASE Tick
    BY <1>1, <1>5, TimeoutRefines
  <1>6. CASE Crashed \/ UNCHANGED vars
    <2>1. UNCHANGED <<entries, heap, reqs, job, arrived, fwd, settled, fault>>
      BY <1>6 DEF Crashed, vars
    <2>2. \A p : StateOf(p)' = StateOf(p)
      BY <2>1 DEF StateOf, BeingFlushed, WaitsFor
    <2>3. \A ip : Cached(ip)' <=> Cached(ip)
      BY <2>1 DEF Cached
    <2>4. UNCHANGED Resolve!vars
      BY <2>1, <2>2, <2>3 DEF Resolve!vars
    <2> QED  BY <2>4 DEF Refines
  <1> QED  BY <1>3, <1>4, <1>5, <1>6 DEF Next

\* The cache, its queue, its two threads and their nested calls implement
\* address resolution as sr_router.c relies on it, for any number of packets,
\* addresses, slots of the cache and levels of recursion.
THEOREM ArpImplementsResolve == Spec => ImplementsResolve
  <1>1. Init => Resolve!Init
    BY InitRefines
  <1>2. Inv /\ Ledger /\ [Next]_vars => [Resolve!Next]_(Resolve!vars)
    BY NextRefines
  <1> QED  BY <1>1, <1>2, InvHolds, LedgerHolds, PTL
              DEF Spec, ImplementsResolve, Resolve!Spec

=============================================================================
