---------------------------- MODULE SrArp_proofs ----------------------------
(***************************************************************************)
(* Proofs that Inv is an inductive invariant of SrArp, and with it that    *)
(* TypeOK, QueueSound, CachedXorPending and FlushOwns hold for any number  *)
(* of addresses, packets, slots, tries and nested calls; and, from         *)
(* TriesCovered, that no request is given up before its tries were sent;   *)
(* and, from LoneSweep, that a sweep during which main is outside of       *)
(* handle_arpreq never frees a request one of its own activations uses.    *)
(***************************************************************************)
EXTENDS SrArpSweep, SequenceTheorems, FiniteSetTheorems, TLAPS

-----------------------------------------------------------------------------
(* Sequences. *)

\* Dropping the last element leaves the others where they are.
LEMMA FrontLemma ==
  ASSUME NEW S, NEW s \in Seq(S), s # <<>>
  PROVE  /\ Front(s) \in Seq(S)
         /\ DOMAIN Front(s) = 1..(Len(s) - 1)
         /\ \A i \in 1..(Len(s) - 1) : Front(s)[i] = s[i]
  BY DEF Front

\* Replacing the last element leaves the others where they are.
LEMMA LastLemma ==
  ASSUME NEW S, NEW s \in Seq(S), s # <<>>, NEW f \in S
  PROVE  /\ [s EXCEPT ![Len(s)] = f] \in Seq(S)
         /\ DOMAIN [s EXCEPT ![Len(s)] = f] = DOMAIN s
         /\ Len(s) \in DOMAIN s
         /\ \A i \in DOMAIN s :
              [s EXCEPT ![Len(s)] = f][i] = IF i = Len(s) THEN f ELSE s[i]
  OBVIOUS

\* Appending leaves the elements where they are.
LEMMA AppendLemma ==
  ASSUME NEW S, NEW s \in Seq(S), NEW e \in S
  PROVE  /\ Append(s, e) \in Seq(S)
         /\ Len(Append(s, e)) = Len(s) + 1
         /\ DOMAIN Append(s, e) = 1..(Len(s) + 1)
         /\ \A i \in DOMAIN s : Append(s, e)[i] = s[i]
         /\ Append(s, e)[Len(s) + 1] = e
  OBVIOUS

\* Removing an element shifts the ones behind it by one.
LEMMA RemoveAtLemma ==
  ASSUME NEW S, NEW s \in Seq(S), NEW i \in DOMAIN s
  PROVE  /\ RemoveAt(s, i) \in Seq(S)
         /\ DOMAIN RemoveAt(s, i) = 1..(Len(s) - 1)
         /\ \A j \in 1..(Len(s) - 1) :
              RemoveAt(s, i)[j] = IF j < i THEN s[j] ELSE s[j + 1]
  <1>1. /\ Len(s) \in Nat /\ i \in 1..Len(s)
    OBVIOUS
  <1> DEFINE u == SubSeq(s, 1, i - 1)
             v == SubSeq(s, i + 1, Len(s))
  <1>2. /\ u \in Seq(S) /\ Len(u) = i - 1
        /\ \A j \in 1..(i - 1) : u[j] = s[j]
    BY <1>1, SubSeqProperties
  <1>3. /\ v \in Seq(S) /\ Len(v) = Len(s) - i
        /\ \A j \in 1..(Len(s) - i) : v[j] = s[i + j]
    BY <1>1, SubSeqProperties
  <1>5. RemoveAt(s, i) = u \o v
    BY DEF RemoveAt
  <1> HIDE DEF u, v
  <1>4. /\ u \o v \in Seq(S) /\ Len(u \o v) = Len(s) - 1
        /\ \A j \in 1..(Len(s) - 1) :
             (u \o v)[j] = IF j <= i - 1 THEN u[j] ELSE v[j - (i - 1)]
    <2>1. Len(u) + Len(v) = Len(s) - 1
      BY <1>1, <1>2, <1>3
    <2>2. /\ u \o v \in Seq(S) /\ Len(u \o v) = Len(u) + Len(v)
          /\ \A j \in 1..(Len(u) + Len(v)) :
               (u \o v)[j] = IF j <= Len(u) THEN u[j] ELSE v[j - Len(u)]
      BY <1>2, <1>3, ConcatProperties, Zenon
    <2> QED  BY <1>2, <2>1, <2>2
  <1>6. \A j \in 1..(Len(s) - 1) :
          (u \o v)[j] = IF j < i THEN s[j] ELSE s[j + 1]
    <2> TAKE j \in 1..(Len(s) - 1)
    <2>1. CASE j < i
      <3>1. j \in 1..(i - 1) /\ j <= i - 1
        BY <1>1, <2>1
      <3>2. (u \o v)[j] = u[j]
        BY <1>4, <3>1
      <3> QED  BY <1>2, <2>1, <3>1, <3>2
    <2>2. CASE ~(j < i)
      <3>1. /\ ~(j <= i - 1) /\ j - (i - 1) \in 1..(Len(s) - i)
            /\ i + (j - (i - 1)) = j + 1
        BY <1>1, <2>2
      <3>2. (u \o v)[j] = v[j - (i - 1)]
        BY <1>4, <3>1
      <3> QED  BY <1>3, <2>2, <3>1, <3>2
    <2> QED  BY <2>1, <2>2
  <1> QED  BY <1>1, <1>4, <1>5, <1>6, LenProperties

-----------------------------------------------------------------------------
(* Types. *)

\* The activation on top of a stack is a frame, and its request an address.
LEMMA TopLemma ==
  ASSUME TypeOK, NEW t \in Thread, stack[t] # <<>>
  PROVE  /\ Top(t) \in Frame /\ stack[t] \in Seq(Frame)
         /\ Len(stack[t]) \in DOMAIN stack[t]
         /\ Top(t).req \in ReqId
  <1>1. Top(t) \in Frame /\ stack[t] \in Seq(Frame)
    BY DEF TypeOK, Top
  <1>2. Top(t).req \in ReqId
    BY <1>1 DEF Frame
  <1> QED  BY <1>1, <1>2

\* Values the actions write have their types.
LEMMA BlankLemma ==
  /\ AnyIp \in IP
  /\ \A ip \in IP : Blank(ip) \in Request
  <1>1. AnyIp \in IP
    BY MarkersAssumption DEF AnyIp
  <1>2. <<>> \in Seq(Packet)
    OBVIOUS
  <1> QED  BY <1>1, <1>2 DEF Blank, Request, Due

\* The activations handle_arpreq makes are frames.
LEMMA ActivationLemma ==
  ASSUME NEW r \in ReqId
  PROVE  /\ Call(r) \in Frame
         /\ \A at \in FrameAt, n \in Nat :
              /\ n <= Due => Timed(at, r, n) \in Frame
              /\ Counting(at, r, n) \in Frame
              /\ \A d \in IP \cup {NULL} : Discarding(at, r, n, d) \in Frame
  BY DEF Call, Timed, Counting, Discarding, Frame, FrameAt, Due

\* sr_arpcache_init leaves values of the right kinds.
LEMMA InitTypeOK == Init => TypeOK
  <1> SUFFICES ASSUME Init PROVE TypeOK
    OBVIOUS
  <1>1. /\ entries \in [Slot -> Entry \cup {NoEntry}]
        /\ fwd \in [Pkt -> Nat] /\ cursor \in ReqId \cup {NULL}
        /\ slept \in BOOLEAN /\ settled \subseteq Pkt /\ arrived \subseteq Pkt
        /\ heap \subseteq ReqId /\ lock \in {NULL, "timeout"}
    BY DEF Init
  <1>2. requests \in Seq(ReqId) /\ stack \in [Thread -> Seq(Frame)]
    BY DEF Init
  <1>3. reqs \in [ReqId -> Request]
    BY BlankLemma DEF Init
  <1>4. job \in Job /\ fault \in Fault
    BY DEF Init, Job, Fault
  <1> QED  BY <1>1, <1>2, <1>3, <1>4 DEF TypeOK

-----------------------------------------------------------------------------
(* What a step does to the stacks. *)

\* Thread t gains at most the activations F; nothing else appears on a stack.
StackGains(t, F) ==
  /\ stack' \in [Thread -> Seq(Frame)]
  /\ \A u \in Thread \ {t} : stack'[u] = stack[u]
  /\ \A u \in Thread : \A i \in DOMAIN stack'[u] :
       \/ u = t /\ stack'[u][i] \in F
       \/ \E k \in DOMAIN stack[u] : stack'[u][i] = stack[u][k]

\* Moving the innermost activation on gains just that activation.
LEMMA SetTopLemma ==
  ASSUME TypeOK, NEW t \in Thread, stack[t] # <<>>, NEW f \in Frame,
         SetTop(t, f)
  PROVE  StackGains(t, {f})
  <1> DEFINE s == [stack[t] EXCEPT ![Len(stack[t])] = f]
  <1>1. stack[t] \in Seq(Frame) /\ stack \in [Thread -> Seq(Frame)]
    BY DEF TypeOK
  <1>2. /\ s \in Seq(Frame) /\ DOMAIN s = DOMAIN stack[t]
        /\ \A i \in DOMAIN s : s[i] = f \/ s[i] = stack[t][i]
    BY <1>1, LastLemma
  <1>3. stack' = [stack EXCEPT ![t] = s]
    BY DEF SetTop
  <1> HIDE DEF s
  <1> QED  BY <1>1, <1>2, <1>3 DEF StackGains

\* Returning gains nothing.
LEMMA ReturnLemma ==
  ASSUME TypeOK, NEW t \in Thread, stack[t] # <<>>, Return(t)
  PROVE  StackGains(t, {})
  <1> DEFINE s == Front(stack[t])
  <1>1. stack[t] \in Seq(Frame) /\ stack \in [Thread -> Seq(Frame)]
    BY DEF TypeOK
  <1>2. /\ s \in Seq(Frame) /\ DOMAIN s \subseteq DOMAIN stack[t]
        /\ \A i \in DOMAIN s : s[i] = stack[t][i]
    BY <1>1, FrontLemma
  <1>3. stack' = [stack EXCEPT ![t] = s]
    BY DEF Return
  <1> HIDE DEF s
  <1> QED  BY <1>1, <1>2, <1>3 DEF StackGains

\* Leaving the stacks alone gains nothing.
LEMMA SameStackLemma ==
  ASSUME TypeOK, UNCHANGED stack, NEW t \in Thread
  PROVE  StackGains(t, {})
  BY DEF TypeOK, StackGains

\* Gaining two activations is gaining the set of both.
LEMMA PushLemma ==
  ASSUME TypeOK, NEW t \in Thread, stack[t] # <<>>,
         NEW f \in Frame, NEW g \in Frame,
         stack' = [stack EXCEPT ![t] =
                     Append([@ EXCEPT ![Len(stack[t])] = f], g)]
  PROVE  StackGains(t, {f, g})
  <1> DEFINE s == [stack[t] EXCEPT ![Len(stack[t])] = f]
             u == Append(s, g)
  <1>1. stack[t] \in Seq(Frame) /\ stack \in [Thread -> Seq(Frame)]
    BY DEF TypeOK
  <1>2. /\ s \in Seq(Frame) /\ DOMAIN s = DOMAIN stack[t]
        /\ \A i \in DOMAIN s : s[i] = f \/ s[i] = stack[t][i]
    BY <1>1, LastLemma
  <1>4. stack' = [stack EXCEPT ![t] = u]
    OBVIOUS
  <1> HIDE DEF s
  <1>3. /\ u \in Seq(Frame)
        /\ \A i \in DOMAIN u : u[i] = g \/ (i \in DOMAIN s /\ u[i] = s[i])
    <2>1. Len(s) \in Nat /\ DOMAIN s = 1..Len(s)
      BY <1>2
    <2> QED BY <1>2, <2>1, AppendLemma
  <1> HIDE DEF u
  <1> QED  BY <1>1, <1>2, <1>3, <1>4 DEF StackGains

\* A first call gains its activation.
LEMMA FirstCallLemma ==
  ASSUME TypeOK, NEW t \in Thread, NEW f \in Frame,
         stack' = [stack EXCEPT ![t] = <<f>>]
  PROVE  StackGains(t, {f})
  <1>1. <<f>> \in Seq(Frame) /\ DOMAIN <<f>> = {1} /\ <<f>>[1] = f
    OBVIOUS
  <1> QED  BY <1>1 DEF TypeOK, StackGains

-----------------------------------------------------------------------------
(* Steps of handle_arpreq that leave the queue and the cache alone. *)

\* f is an activation of handle_arpreq.
OnStack(f) == \E t \in Thread : \E i \in DOMAIN stack[t] : stack[t][i] = f

\* The activations stay sound when those on the stacks and the new ones do.
LEMMA ActivationsLemma ==
  ASSUME TypeOK, NEW t \in Thread, NEW F, StackGains(t, F),
         \A f \in F : ActivationOK(f)',
         \A f \in Frame : OnStack(f) => ActivationOK(f)'
  PROVE  ActivationsOK'
  <1> SUFFICES ASSUME NEW u \in Thread, NEW i \in DOMAIN stack'[u],
                      NEW f, f = stack'[u][i]
               PROVE  ActivationOK(f)'
    BY DEF ActivationsOK
  <1>1. f \in F \/ \E k \in DOMAIN stack[u] : f = stack[u][k]
    BY DEF StackGains
  <1>2. ASSUME NEW k \in DOMAIN stack[u], f = stack[u][k]
        PROVE  OnStack(f) /\ f \in Frame
    BY <1>2 DEF OnStack, TypeOK
  <1> QED  BY <1>1, <1>2

\* A step of thread t that leaves the cache, the queue, the lock and the other
\* variables of the threads alone and changes of the requests neither the
\* address nor the packets, with new activations of the request on top.
LEMMA QuietLemma ==
  ASSUME Inv, NEW t \in Thread, NEW F, StackGains(t, F), stack[t] # <<>>,
         \A f \in F : f.req = Top(t).req /\ ActivationOK(f)',
         \A r \in ReqId : /\ reqs'[r].ip = reqs[r].ip
                          /\ reqs'[r].packets = reqs[r].packets,
         UNCHANGED <<entries, requests, heap, lock, job, cursor>>,
         TypeOK'
  PROVE  Inv'
  <1>0. TypeOK
    BY DEF Inv
  <1>1. QueueSound'
    BY DEF Inv, QueueSound, TypeOK
  <1>2. CachedXorPending'
    BY DEF Inv, CachedXorPending, TypeOK
  <1>3. LockCoversSweep' /\ MainDoesOneThing'
    BY DEF Inv, LockCoversSweep, MainDoesOneThing, StackGains, Thread
  <1>4. CursorQueued'
    BY DEF Inv, CursorQueued
  <1>5. QueueJobMisses'
    BY DEF Inv, QueueJobMisses, Cached
  <1>6. ActivationsOK'
    <2>1. ASSUME NEW f \in Frame, OnStack(f)
          PROVE  ActivationOK(f)'
      <3>1. ActivationOK(f) /\ f.req \in ReqId
        BY <2>1 DEF Inv, ActivationsOK, OnStack, Frame
      <3> QED  BY <3>1 DEF ActivationOK, Cached
    <2> QED  BY <1>0, <2>1, ActivationsLemma
  <1>7. FlushOwns'
    <2> SUFFICES ASSUME job.at = "flush"
                 PROVE  /\ job.req \in heap
                        /\ job.left <= Len(reqs'[job.req].packets)
                        /\ \A i \in DOMAIN requests : requests[i] # job.req
                        /\ ~Referenced(job.req)'
      BY DEF FlushOwns
    <2>1. /\ job.req \in heap /\ ~Referenced(job.req) /\ job.req \in ReqId
          /\ job.left <= Len(reqs[job.req].packets)
          /\ \A i \in DOMAIN requests : requests[i] # job.req
      BY DEF Inv, FlushOwns, TypeOK
    <2>2. ~Referenced(job.req)'
      BY <1>0, <2>1, TopLemma DEF Referenced, StackGains, Top
    <2> QED  BY <2>1, <2>2
  <1> QED  BY <1>1, <1>2, <1>3, <1>4, <1>5, <1>6, <1>7 DEF Inv

\* Finding a request freed only records the fault.
LEMMA DanglingInv ==
  ASSUME Inv, NEW t \in Thread, NEW r, Dangling(t, r)
  PROVE  Inv'
  <1>1. TypeOK'
    BY DEF Inv, Dangling, TypeOK, Fault, Thread
  <1>2. UNCHANGED <<entries, requests, heap, reqs, lock, job, stack, cursor>>
    BY DEF Dangling
  <1>3. /\ QueueSound' /\ CachedXorPending' /\ FlushOwns'
        /\ LockCoversSweep' /\ MainDoesOneThing' /\ CursorQueued'
    BY <1>2 DEF Inv, QueueSound, CachedXorPending, FlushOwns, Referenced,
                LockCoversSweep, MainDoesOneThing, CursorQueued
  <1>4. ActivationsOK' /\ QueueJobMisses'
    BY <1>2 DEF Inv, ActivationsOK, ActivationOK, QueueJobMisses, Cached
  <1> QED  BY <1>1, <1>3, <1>4 DEF Inv

\* Reading the time and req->sent keeps the invariant.
LEMMA CheckInv ==
  ASSUME Inv, NEW t \in Thread, Check(t)
  PROVE  Inv'
  <1>1. TypeOK /\ stack[t] # <<>>
    BY DEF Inv, Check, Active
  <1>2. Top(t) \in Frame /\ Top(t).req \in ReqId
    BY <1>1, TopLemma
  <1>3. CASE Dangling(t, Top(t).req)
    BY <1>3, DanglingInv
  <1>4. CASE ~Dangling(t, Top(t).req)
    <2>1. PICK f \in Frame : f = Timed("tries", Top(t).req, 0)
      BY <1>2, ActivationLemma DEF FrameAt, Due
    <2>2. /\ Return(t) \/ SetTop(t, f)
          /\ UNCHANGED <<entries, requests, heap, reqs, lock, job, cursor,
                         slept, arrived, fwd, settled, fault>>
      BY <1>4, <2>1 DEF Check
    <2>3. PICK F \in {{}, {f}} : StackGains(t, F)
      BY <1>1, <2>2, ReturnLemma, SetTopLemma
    <2>4. \A h \in F : h.req = Top(t).req /\ ActivationOK(h)'
      BY <2>1, <2>3 DEF Timed, ActivationOK
    <2>5. TypeOK'
      BY <1>1, <2>2, <2>3 DEF TypeOK, StackGains
    <2> QED  BY <1>1, <2>2, <2>3, <2>4, <2>5, QuietLemma
  <1> QED  BY <1>3, <1>4

\* Comparing times_sent with the limit keeps the invariant: a discard loop
\* starts inside of its list.
LEMMA CheckTriesInv ==
  ASSUME Inv, NEW t \in Thread, CheckTries(t)
  PROVE  Inv'
  <1>1. TypeOK /\ stack[t] # <<>>
    BY DEF Inv, CheckTries, Active
  <1>2. PICK r \in ReqId : r = Top(t).req
    BY <1>1, TopLemma
  <1>3. CASE Dangling(t, r)
    BY <1>3, DanglingInv
  <1>4. CASE ~Dangling(t, r)
    <2>1. Waiting(r) \in Nat /\ Top(t).cur \in 0..Due
      <3>1. reqs[r].packets \in Seq(Packet)
        BY <1>1 DEF TypeOK, Request
      <3>2. Top(t).cur \in 0..Due
        BY <1>1, TopLemma DEF Frame
      <3> QED  BY <3>1, <3>2 DEF Waiting
    <2>2. PICK f \in Frame : f = Discarding("discard", r, Waiting(r), NULL)
      BY <2>1, ActivationLemma DEF FrameAt
    <2>3. PICK g \in Frame : g = Timed("resend", r, Top(t).cur)
      BY <2>1, ActivationLemma DEF FrameAt, Due
    <2>4. /\ SetTop(t, f) \/ SetTop(t, g)
          /\ UNCHANGED <<entries, requests, heap, reqs, lock, job, cursor,
                         slept, arrived, fwd, settled, fault>>
      BY <1>2, <1>4, <2>2, <2>3 DEF CheckTries
    <2>5. PICK F \in {{f}, {g}} : StackGains(t, F)
      BY <1>1, <2>4, SetTopLemma
    <2>6. f.req = r /\ ActivationOK(f)' /\ g.req = r /\ ActivationOK(g)'
      BY <2>1, <2>2, <2>3, <2>4
         DEF Timed, Discarding, ActivationOK, Waiting
    <2>7. \A h \in F : h.req = Top(t).req /\ ActivationOK(h)'
      BY <1>2, <2>5, <2>6
    <2>8. TypeOK'
      BY <1>1, <2>4, <2>5 DEF TypeOK, StackGains
    <2> QED  BY <1>1, <2>4, <2>5, <2>7, <2>8, QuietLemma
  <1> QED  BY <1>2, <1>3, <1>4

\* Writing req->sent keeps the invariant.
LEMMA ResendInv ==
  ASSUME Inv, NEW t \in Thread, Resend(t)
  PROVE  Inv'
  <1>1. TypeOK /\ stack[t] # <<>>
    BY DEF Inv, Resend, Active
  <1>2. PICK r \in ReqId : r = Top(t).req
    BY <1>1, TopLemma
  <1>3. CASE Dangling(t, r)
    BY <1>3, DanglingInv
  <1>4. CASE fault' = "route" /\ UNCHANGED <<reqs, stack>>
             /\ UNCHANGED <<entries, requests, heap, lock, job, cursor, slept,
                           arrived, fwd, settled>>
    <2>1. StackGains(t, {})
      BY <1>1, <1>4, SameStackLemma
    <2>2. TypeOK'
      BY <1>1, <1>4 DEF TypeOK, Fault
    <2> QED  BY <1>1, <1>4, <2>1, <2>2, QuietLemma
  <1>5. CASE ~Dangling(t, r) /\ RouterIp[reqs[r].ip] # NULL
    <2>1. /\ reqs[r].times_sent \in Nat /\ Top(t).cur \in 0..Due
          /\ reqs[r] \in Request
      BY <1>1, TopLemma DEF TypeOK, Request, Frame
    <2>2. PICK f \in Frame : f = Counting("store", r, reqs[r].times_sent)
      BY <2>1, ActivationLemma DEF FrameAt
    <2>3. /\ SetTop(t, f)
          /\ reqs' = [reqs EXCEPT ![r].sent = Top(t).cur]
          /\ UNCHANGED <<entries, requests, heap, lock, job, cursor,
                         slept, arrived, fwd, settled, fault>>
      BY <1>2, <1>5, <2>2 DEF Resend
    <2>4. StackGains(t, {f})
      BY <1>1, <2>3, SetTopLemma
    <2>5. f.req = Top(t).req /\ ActivationOK(f)'
      BY <1>2, <2>2 DEF Counting, ActivationOK
    <2>6. /\ reqs' \in [ReqId -> Request]
          /\ \A q \in ReqId : /\ reqs'[q].ip = reqs[q].ip
                              /\ reqs'[q].packets = reqs[q].packets
      BY <1>1, <2>1, <2>3 DEF TypeOK, Request
    <2>7. TypeOK'
      BY <1>1, <2>3, <2>4, <2>6 DEF TypeOK, StackGains
    <2> QED  BY <1>1, <2>3, <2>4, <2>5, <2>6, <2>7, QuietLemma
  <1> QED  BY <1>2, <1>3, <1>4, <1>5 DEF Resend

\* Writing req->times_sent keeps the invariant.
LEMMA StoreInv ==
  ASSUME Inv, NEW t \in Thread, Store(t)
  PROVE  Inv'
  <1>1. TypeOK /\ stack[t] # <<>>
    BY DEF Inv, Store, Active
  <1>2. PICK r \in ReqId : r = Top(t).req
    BY <1>1, TopLemma
  <1>3. CASE Dangling(t, r)
    BY <1>3, DanglingInv
  <1>4. CASE ~Dangling(t, r)
    <2>1. Top(t).seen + 1 \in Nat /\ reqs[r] \in Request
      <3>1. Top(t).seen \in Nat
        BY <1>1, TopLemma DEF Frame
      <3>2. reqs[r] \in Request
        BY <1>1 DEF TypeOK
      <3> QED  BY <3>1, <3>2
    <2>2. PICK f \in Frame : f = Counting("xmit", r, 0)
      BY ActivationLemma DEF FrameAt
    <2>3. /\ SetTop(t, f)
          /\ reqs' = [reqs EXCEPT ![r].times_sent = Top(t).seen + 1]
          /\ UNCHANGED <<entries, requests, heap, lock, job, cursor,
                         slept, arrived, fwd, settled, fault>>
      BY <1>2, <1>4, <2>2 DEF Store
    <2>4. StackGains(t, {f})
      BY <1>1, <2>3, SetTopLemma
    <2>5. f.req = Top(t).req /\ ActivationOK(f)'
      BY <1>2, <2>2 DEF Counting, ActivationOK
    <2>6. /\ reqs' \in [ReqId -> Request]
          /\ \A q \in ReqId : /\ reqs'[q].ip = reqs[q].ip
                              /\ reqs'[q].packets = reqs[q].packets
      BY <1>1, <2>1, <2>3 DEF TypeOK, Request
    <2>7. TypeOK'
      BY <1>1, <2>3, <2>4, <2>6 DEF TypeOK, StackGains
    <2> QED  BY <1>1, <2>3, <2>4, <2>5, <2>6, <2>7, QuietLemma
  <1> QED  BY <1>2, <1>3, <1>4 DEF Store

\* Sending the ARP request keeps the invariant.
LEMMA XmitInv ==
  ASSUME Inv, NEW t \in Thread, Xmit(t)
  PROVE  Inv'
  <1>1. TypeOK /\ stack[t] # <<>> /\ Return(t)
    BY DEF Inv, Xmit, Active
  <1>2. PICK r \in ReqId : r = Top(t).req
    BY <1>1, TopLemma
  <1>3. /\ reqs' = reqs \/ reqs' = [reqs EXCEPT ![r].arps = @ + 1]
        /\ UNCHANGED <<entries, requests, heap, lock, job, cursor,
                       slept, arrived, fwd, settled, fault>>
    BY <1>2 DEF Xmit
  <1>4. StackGains(t, {})
    BY <1>1, ReturnLemma
  <1>5. /\ reqs' \in [ReqId -> Request]
        /\ \A q \in ReqId : /\ reqs'[q].ip = reqs[q].ip
                            /\ reqs'[q].packets = reqs[q].packets
    <2>1. reqs \in [ReqId -> Request] /\ reqs[r].arps + 1 \in Nat
      BY <1>1 DEF TypeOK, Request
    <2>2. CASE reqs' = reqs
      BY <2>1, <2>2
    <2>3. CASE reqs' = [reqs EXCEPT ![r].arps = @ + 1]
      BY <2>1, <2>3 DEF Request
    <2> QED  BY <1>3, <2>2, <2>3
  <1>6. TypeOK'
    BY <1>1, <1>3, <1>4, <1>5 DEF TypeOK, StackGains
  <1> QED  BY <1>1, <1>3, <1>4, <1>5, <1>6, QuietLemma

\* The packet the discard loop is at, and the bounds of what is left.
LEMMA DiscardLemma ==
  ASSUME Inv, NEW t \in Thread, Active(t, "discard"), Top(t).left > 0,
         Top(t).req \in heap
  PROVE  /\ Top(t).left - 1 \in Nat
         /\ Top(t).left - 1 <= Len(reqs[Top(t).req].packets)
         /\ reqs[Top(t).req].packets[Top(t).left] \in Packet
  <1>1. TypeOK /\ stack[t] # <<>> /\ Top(t).at = "discard"
    BY DEF Inv, Active, Top
  <1>2. /\ Top(t).req \in ReqId /\ Top(t).left \in Nat
        /\ Len(stack[t]) \in DOMAIN stack[t]
    BY <1>1, TopLemma DEF Frame
  <1>3. Top(t).left <= Len(reqs[Top(t).req].packets)
    BY <1>1, <1>2 DEF Inv, ActivationsOK, ActivationOK, Top
  <1>4. reqs[Top(t).req].packets \in Seq(Packet)
    BY <1>1, <1>2 DEF TypeOK, Request
  <1>5. Top(t).left \in 1..Len(reqs[Top(t).req].packets)
    BY <1>2, <1>3, <1>4
  <1> QED  BY <1>2, <1>4, <1>5

\* A turn of the discard loop keeps the invariant: an error is queued only
\* for a routed address that is not cached.
LEMMA DiscardPacketInv ==
  ASSUME Inv, NEW t \in Thread, DiscardPacket(t)
  PROVE  Inv'
  <1>1. TypeOK /\ stack[t] # <<>>
    BY DEF Inv, DiscardPacket, Active
  <1>2. PICK r \in ReqId : r = Top(t).req
    BY <1>1, TopLemma
  <1>3. CASE Dangling(t, r)
    BY <1>3, DanglingInv
  <1>4. CASE ~Dangling(t, r)
    <2>1. r \in heap
      BY <1>2, <1>4 DEF DiscardPacket
    <2>2. PICK rest \in Nat : /\ rest = Top(t).left - 1
                              /\ rest <= Len(reqs[r].packets)
      BY <1>2, <2>1, DiscardLemma DEF DiscardPacket
    <2>3. PICK pk \in Packet : pk = reqs[r].packets[Top(t).left]
      BY <1>2, <2>1, DiscardLemma DEF DiscardPacket
    <2>4. pk.src \in IP /\ pk.pkt \in Pkt \cup {NULL}
      BY DEF Packet
    <2>5. PICK f \in Frame : f = Discarding("discard", r, rest, NULL)
      BY ActivationLemma DEF FrameAt
    <2>6. PICK g \in Frame : g = Discarding("enqueue", r, rest, pk.src)
      BY <2>4, ActivationLemma DEF FrameAt
    <2>7. /\ \/ SetTop(t, f)
             \/ SetTop(t, g) /\ RouterIp[pk.src] # NULL /\ ~Cached(pk.src)
          /\ settled' = settled \cup ({pk.pkt} \ {NULL})
          /\ UNCHANGED <<entries, requests, heap, reqs, lock, job, cursor,
                         slept, arrived, fwd, fault>>
      BY <1>2, <1>4, <2>2, <2>3, <2>5, <2>6 DEF DiscardPacket
    <2>8. ActivationOK(f)' /\ f.req = r /\ g.req = r
      BY <2>2, <2>5, <2>6, <2>7 DEF Discarding, ActivationOK
    <2>9. RouterIp[pk.src] # NULL /\ ~Cached(pk.src) => ActivationOK(g)'
      BY <2>2, <2>4, <2>6, <2>7 DEF Discarding, ActivationOK, Cached
    <2>10. ASSUME NEW F, StackGains(t, F)
           PROVE  TypeOK'
      BY <1>1, <2>4, <2>7, <2>10 DEF TypeOK, StackGains
    <2>11. CASE SetTop(t, f)
      <3>1. StackGains(t, {f})
        BY <1>1, <2>11, SetTopLemma
      <3>2. TypeOK'
        BY <3>1, <2>10
      <3> QED  BY <1>1, <1>2, <2>7, <2>8, <3>1, <3>2, QuietLemma
    <2>12. CASE SetTop(t, g) /\ RouterIp[pk.src] # NULL /\ ~Cached(pk.src)
      <3>1. StackGains(t, {g})
        BY <1>1, <2>12, SetTopLemma
      <3>2. TypeOK'
        BY <3>1, <2>10
      <3> QED
        BY <1>1, <1>2, <2>7, <2>8, <2>9, <2>12, <3>1, <3>2, QuietLemma
    <2> QED  BY <2>7, <2>11, <2>12
  <1> QED  BY <1>2, <1>3, <1>4 DEF DiscardPacket

-----------------------------------------------------------------------------
(* Steps that take a request off the queue. *)

\* The queue without its i-th request holds the others, in order.
LEMMA UnlinkLemma ==
  ASSUME TypeOK, QueueSound, NEW i \in DOMAIN requests,
         requests' = RemoveAt(requests, i)
  PROVE  /\ requests' \in Seq(ReqId)
         /\ \A j \in DOMAIN requests' :
              /\ requests'[j] # requests[i]
              /\ \E k \in DOMAIN requests : requests'[j] = requests[k]
         /\ \A j, k \in DOMAIN requests' : j # k =>
              \E m, n \in DOMAIN requests :
                m # n /\ requests'[j] = requests[m] /\ requests'[k] = requests[n]
         /\ \A k \in DOMAIN requests \ {i} :
              \E j \in DOMAIN requests' : requests'[j] = requests[k]
  <1> DEFINE sh(j) == IF j < i THEN j ELSE j + 1
  <1>1. /\ requests \in Seq(ReqId) /\ Len(requests) \in Nat
        /\ DOMAIN requests = 1..Len(requests) /\ i \in 1..Len(requests)
    BY DEF TypeOK
  <1>2. /\ requests' \in Seq(ReqId)
        /\ DOMAIN requests' = 1..(Len(requests) - 1)
        /\ \A j \in 1..(Len(requests) - 1) : requests'[j] = requests[sh(j)]
    BY <1>1, RemoveAtLemma
  <1>3. \A j \in 1..(Len(requests) - 1) : sh(j) \in DOMAIN requests \ {i}
    BY <1>1
  <1>4. \A j, k \in 1..(Len(requests) - 1) : j # k => sh(j) # sh(k)
    BY <1>1
  <1>5. ASSUME NEW k \in DOMAIN requests \ {i}
        PROVE  \E j \in DOMAIN requests' : requests'[j] = requests[k]
    <2>1. CASE k < i
      BY <1>1, <1>2, <2>1
    <2>2. CASE k > i
      <3>1. k - 1 \in 1..(Len(requests) - 1) /\ sh(k - 1) = k
        BY <1>1, <2>2
      <3> QED  BY <1>2, <3>1
    <2> QED  BY <1>1, <2>1, <2>2
  <1>6. ASSUME NEW j \in DOMAIN requests'
        PROVE  /\ requests'[j] # requests[i]
               /\ \E k \in DOMAIN requests : requests'[j] = requests[k]
    <2>1. sh(j) \in DOMAIN requests \ {i} /\ requests'[j] = requests[sh(j)]
      BY <1>2, <1>3
    <2> HIDE DEF sh
    <2> QED  BY <2>1 DEF QueueSound
  <1>7. ASSUME NEW j \in DOMAIN requests', NEW k \in DOMAIN requests', j # k
        PROVE  \E m, n \in DOMAIN requests :
                 m # n /\ requests'[j] = requests[m] /\ requests'[k] = requests[n]
    <2>1. /\ sh(j) \in DOMAIN requests /\ sh(k) \in DOMAIN requests
          /\ sh(j) # sh(k)
          /\ requests'[j] = requests[sh(j)] /\ requests'[k] = requests[sh(k)]
      BY <1>2, <1>3, <1>4, <1>7
    <2> HIDE DEF sh
    <2> QED  BY <2>1
  <1> QED  BY <1>2, <1>5, <1>6, <1>7

\* sr_arpreq_destroy keeps the queue sound.
LEMMA DestroyLemma ==
  ASSUME TypeOK, QueueSound, CachedXorPending, CursorQueued,
         NEW r \in ReqId, Destroy(r), UNCHANGED <<entries, cursor>>
  PROVE  /\ requests' \in Seq(ReqId) /\ heap' \subseteq ReqId
         /\ reqs' \in [ReqId -> Request]
         /\ QueueSound' /\ CachedXorPending' /\ CursorQueued'
         /\ \A j \in DOMAIN requests' :
              \E k \in DOMAIN requests : requests'[j] = requests[k]
  <1>1. /\ heap' = heap \ {r} /\ reqs' \in [ReqId -> Request]
        /\ \A q \in ReqId \ {r} : reqs'[q] = reqs[q]
    BY BlankLemma DEF TypeOK, Destroy
  <1>2. /\ requests' \in Seq(ReqId)
        /\ \A j \in DOMAIN requests' :
             /\ requests'[j] \in ReqId /\ requests'[j] # r
             /\ \E k \in DOMAIN requests : requests'[j] = requests[k]
        /\ \A j, k \in DOMAIN requests' : j # k =>
             \E m, n \in DOMAIN requests :
               m # n /\ requests'[j] = requests[m] /\ requests'[k] = requests[n]
        /\ \A k \in DOMAIN requests : requests[k] # r =>
             \E j \in DOMAIN requests' : requests'[j] = requests[k]
    <2>1. CASE requests' = requests /\ \A i \in DOMAIN requests : requests[i] # r
      BY <2>1 DEF TypeOK
    <2>2. ASSUME NEW i \in DOMAIN requests, requests[i] = r,
                 requests' = RemoveAt(requests, i)
          PROVE  <1>2!1 /\ <1>2!2 /\ <1>2!3 /\ <1>2!4
      <3>1. requests' \in Seq(ReqId)
        BY <2>2, UnlinkLemma
      <3>2. \A j \in DOMAIN requests' : requests'[j] \in ReqId
        BY <3>1
      <3> QED  BY <2>2, <3>1, <3>2, UnlinkLemma
    <2> QED  BY <2>1, <2>2 DEF Destroy
  <1>6. \A j \in DOMAIN requests' : reqs'[requests'[j]] = reqs[requests'[j]]
    BY <1>1, <1>2
  <1>3. QueueSound'
    <2>1. ASSUME NEW j \in DOMAIN requests'
          PROVE  requests'[j] \in heap'
      BY <1>1, <1>2 DEF QueueSound
    <2>2. ASSUME NEW j \in DOMAIN requests', NEW k \in DOMAIN requests', j # k
          PROVE  /\ requests'[j] # requests'[k]
                 /\ reqs'[requests'[j]].ip # reqs'[requests'[k]].ip
      <3>1. PICK m, n \in DOMAIN requests :
              m # n /\ requests'[j] = requests[m] /\ requests'[k] = requests[n]
        BY <1>2, <2>2
      <3> QED  BY <1>6, <3>1 DEF QueueSound
    <2> QED  BY <2>1, <2>2 DEF QueueSound
  <1>4. CachedXorPending'
    <2> SUFFICES ASSUME NEW s \in Slot, NEW j \in DOMAIN requests',
                        entries[s] # NoEntry
                 PROVE  entries[s].ip # reqs'[requests'[j]].ip
      BY DEF CachedXorPending
    <2>1. PICK k \in DOMAIN requests : requests'[j] = requests[k]
      BY <1>2
    <2> QED  BY <1>6, <2>1 DEF CachedXorPending
  <1>5. CursorQueued'
    BY <1>1, <1>2 DEF CursorQueued
  <1> QED  BY <1>1, <1>2, <1>3, <1>4, <1>5 DEF TypeOK

\* Destroying a request that was given up keeps the invariant: it is not the
\* one main is serving.
LEMMA DiscardDoneInv ==
  ASSUME Inv, NEW t \in Thread, DiscardDone(t)
  PROVE  Inv'
  <1>1. TypeOK /\ stack[t] # <<>>
    BY DEF Inv, DiscardDone, Active
  <1>2. PICK r \in ReqId : r = Top(t).req
    BY <1>1, TopLemma
  <1>3. CASE Dangling(t, r)
    BY <1>3, DanglingInv
  <1>4. CASE ~Dangling(t, r)
    <2>1. /\ r \in heap /\ Destroy(r) /\ Return(t)
          /\ UNCHANGED <<entries, lock, job, cursor, slept, arrived, fwd,
                         settled, fault>>
      BY <1>2, <1>4 DEF DiscardDone
    <2>2. /\ heap' = heap \ {r}
          /\ \A q \in ReqId \ {r} : reqs'[q] = reqs[q]
      BY <1>1, <2>1 DEF TypeOK, Destroy
    <2>3. /\ requests' \in Seq(ReqId) /\ heap' \subseteq ReqId
          /\ reqs' \in [ReqId -> Request]
          /\ QueueSound' /\ CachedXorPending' /\ CursorQueued'
          /\ \A j \in DOMAIN requests' :
               \E k \in DOMAIN requests : requests'[j] = requests[k]
      BY <2>1, DestroyLemma DEF Inv
    <2>4. StackGains(t, {})
      BY <1>1, <2>1, ReturnLemma
    <2>5. TypeOK'
      BY <1>1, <2>1, <2>3, <2>4 DEF TypeOK, StackGains
    <2>6. LockCoversSweep' /\ MainDoesOneThing' /\ QueueJobMisses'
      BY <1>1, <2>1, <2>4 DEF Inv, LockCoversSweep, MainDoesOneThing,
         QueueJobMisses, Cached, StackGains, Thread
    <2>7. ActivationsOK'
      <3>1. ASSUME NEW f \in Frame, OnStack(f)
            PROVE  ActivationOK(f)'
        <4>1. ActivationOK(f) /\ f.req \in ReqId
          BY <3>1 DEF Inv, ActivationsOK, OnStack, Frame
        <4> QED  BY <2>1, <2>2, <4>1 DEF ActivationOK, Cached
      <3> QED  BY <1>1, <2>4, <3>1, ActivationsLemma
    <2>8. FlushOwns'
      <3> SUFFICES ASSUME job.at = "flush"
                   PROVE  /\ job.req \in heap'
                          /\ job.left <= Len(reqs'[job.req].packets)
                          /\ \A i \in DOMAIN requests' : requests'[i] # job.req
                          /\ ~Referenced(job.req)'
        BY <2>1 DEF FlushOwns
      <3>1. /\ job.req \in heap /\ ~Referenced(job.req) /\ job.req \in ReqId
            /\ job.left <= Len(reqs[job.req].packets)
            /\ \A i \in DOMAIN requests : requests[i] # job.req
        BY DEF Inv, FlushOwns, TypeOK
      <3>2. job.req # r
        BY <1>1, <1>2, <3>1, TopLemma DEF Referenced, Top
      <3>3. ~Referenced(job.req)'
        BY <2>1, <2>4, <3>1 DEF Referenced, StackGains
      <3> QED  BY <2>2, <2>3, <3>1, <3>2, <3>3
    <2> QED  BY <2>3, <2>5, <2>6, <2>7, <2>8 DEF Inv
  <1> QED  BY <1>2, <1>3, <1>4 DEF DiscardDone

\* Destroying the answered request keeps the invariant: no activation and no
\* cursor points to it.
LEMMA FlushDoneInv ==
  ASSUME Inv, FlushDone
  PROVE  Inv'
  <1>1. /\ TypeOK /\ job.at = "flush" /\ LockFree("main")
        /\ Destroy(job.req) /\ job' = Idle
        /\ UNCHANGED <<entries, lock, stack, cursor, slept, arrived, fwd,
                       settled, fault>>
    BY DEF Inv, FlushDone
  <1>2. job.req \in ReqId /\ ~Referenced(job.req) /\ Idle.at = "idle"
    BY <1>1 DEF Inv, FlushOwns, TypeOK, Idle
  <1>3. /\ heap' = heap \ {job.req}
        /\ \A q \in ReqId \ {job.req} : reqs'[q] = reqs[q]
    BY <1>1 DEF TypeOK, Destroy
  <1>4. /\ requests' \in Seq(ReqId) /\ heap' \subseteq ReqId
        /\ reqs' \in [ReqId -> Request]
        /\ QueueSound' /\ CachedXorPending' /\ CursorQueued'
    BY <1>1, <1>2, DestroyLemma DEF Inv
  <1>5. TypeOK'
    BY <1>1, <1>4 DEF TypeOK, Job
  <1>6. LockCoversSweep' /\ MainDoesOneThing' /\ QueueJobMisses' /\ FlushOwns'
    BY <1>1, <1>2 DEF Inv, LockCoversSweep, MainDoesOneThing, QueueJobMisses,
       FlushOwns
  <1>7. ActivationsOK'
    <2>1. ASSUME NEW f \in Frame, OnStack(f)
          PROVE  ActivationOK(f)'
      <3>1. ActivationOK(f) /\ f.req \in ReqId /\ f.req # job.req
        BY <1>2, <2>1 DEF Inv, ActivationsOK, OnStack, Frame, Referenced
      <3> QED  BY <1>1, <1>3, <3>1 DEF ActivationOK, Cached
    <2>2. StackGains("main", {})
      BY <1>1, SameStackLemma DEF Thread
    <2> QED  BY <1>1, <2>1, <2>2, ActivationsLemma DEF Thread
  <1> QED  BY <1>4, <1>5, <1>6, <1>7 DEF Inv

-----------------------------------------------------------------------------
(* Steps that queue a packet. *)

\* What sr_arpcache_queuereq, returning r, leaves intact.
QueueReqKeeps(r) ==
  /\ requests' \in Seq(ReqId) /\ heap' \subseteq ReqId
  /\ reqs' \in [ReqId -> Request]
  /\ QueueSound' /\ CachedXorPending' /\ CursorQueued'
  /\ \A f \in Frame : OnStack(f) => ActivationOK(f)'
  /\ job.at = "flush" =>
       /\ r # job.req /\ job.req \in heap'
       /\ job.left <= Len(reqs'[job.req].packets)
       /\ \A i \in DOMAIN requests' : requests'[i] # job.req

\* The packet joins a request that is on the queue.
LEMMA QueueFoundLemma ==
  ASSUME Inv, NEW pk \in Packet, NEW r \in ReqId,
         NEW i \in DOMAIN requests, requests[i] = r,
         reqs' = [reqs EXCEPT ![r].packets = Append(@, pk)],
         UNCHANGED <<entries, requests, heap, cursor>>
  PROVE  QueueReqKeeps(r)
  <1>1. /\ TypeOK /\ requests \in Seq(ReqId) /\ heap \subseteq ReqId
        /\ reqs \in [ReqId -> Request] /\ reqs[r] \in Request
    BY DEF Inv, TypeOK
  <1>2. /\ reqs[r].packets \in Seq(Packet)
        /\ Append(reqs[r].packets, pk) \in Seq(Packet)
        /\ Len(reqs[r].packets) \in Nat
        /\ Len(Append(reqs[r].packets, pk)) = Len(reqs[r].packets) + 1
    BY <1>1 DEF Request
  <1>3. /\ reqs' \in [ReqId -> Request]
        /\ \A q \in ReqId : reqs'[q].ip = reqs[q].ip
        /\ \A q \in ReqId \ {r} : reqs'[q] = reqs[q]
        /\ reqs'[r].packets = Append(reqs[r].packets, pk)
    BY <1>1, <1>2 DEF Request
  <1>4. QueueSound' /\ CachedXorPending' /\ CursorQueued'
    <2>1. \A j \in DOMAIN requests : reqs'[requests[j]].ip = reqs[requests[j]].ip
      BY <1>1, <1>3
    <2> QED  BY <2>1 DEF Inv, QueueSound, CachedXorPending, CursorQueued
  <1>5. ASSUME NEW f \in Frame, OnStack(f)
        PROVE  ActivationOK(f)'
    <2>1. ActivationOK(f) /\ f.req \in ReqId /\ f.left \in Nat
      BY <1>5 DEF Inv, ActivationsOK, OnStack, Frame
    <2>2. f.at = "enqueue" =>
            f.dst \in IP /\ RouterIp[f.dst] # NULL /\ ~Cached(f.dst)'
      BY <2>1 DEF ActivationOK, Cached
    <2>3. f.at \in {"discard", "enqueue"} /\ f.req \in heap' =>
            f.left <= Len(reqs'[f.req].packets)
      <3>1. CASE f.req = r
        BY <1>2, <1>3, <2>1, <3>1 DEF ActivationOK
      <3>2. CASE f.req # r
        BY <1>3, <2>1, <3>2 DEF ActivationOK
      <3> QED  BY <3>1, <3>2
    <2> QED  BY <2>2, <2>3 DEF ActivationOK
  <1>6. job.at = "flush" =>
          /\ r # job.req /\ job.req \in heap'
          /\ job.left <= Len(reqs'[job.req].packets)
          /\ \A j \in DOMAIN requests' : requests'[j] # job.req
    BY <1>3 DEF Inv, FlushOwns, TypeOK
  <1> QED  BY <1>1, <1>3, <1>4, <1>5, <1>6 DEF QueueReqKeeps

\* The packet starts a new request: nobody has asked for the address, it is
\* not cached, and no thread points to the address malloc returns.
LEMMA QueueNewLemma ==
  ASSUME Inv, NEW ip \in IP, NEW pk \in Packet, NEW r \in Fresh,
         \A i \in DOMAIN requests : reqs[requests[i]].ip # ip,
         ~Cached(ip),
         heap' = heap \cup {r}, requests' = Append(requests, r),
         reqs' = [reqs EXCEPT ![r] = [Blank(ip) EXCEPT !.packets = <<pk>>]],
         UNCHANGED <<entries, cursor>>
  PROVE  QueueReqKeeps(r)
  <1>1. /\ TypeOK /\ requests \in Seq(ReqId) /\ heap \subseteq ReqId
        /\ reqs \in [ReqId -> Request]
        /\ r \in ReqId /\ r \notin heap /\ ~Referenced(r)
    BY DEF Inv, TypeOK, Fresh
  <1>2. /\ [Blank(ip) EXCEPT !.packets = <<pk>>] \in Request
        /\ [Blank(ip) EXCEPT !.packets = <<pk>>].ip = ip
    <2>1. <<pk>> \in Seq(Packet)
      OBVIOUS
    <2>2. PICK b \in Request : b = Blank(ip)
      BY BlankLemma
    <2>3. /\ [b EXCEPT !.packets = <<pk>>] \in Request
          /\ [b EXCEPT !.packets = <<pk>>].ip = b.ip
      BY <2>1 DEF Request
    <2>4. b.ip = ip
      BY <2>2 DEF Blank
    <2> QED  BY <2>2, <2>3, <2>4
  <1>3. /\ reqs' \in [ReqId -> Request] /\ reqs'[r].ip = ip
        /\ \A q \in ReqId \ {r} : reqs'[q] = reqs[q]
    BY <1>1, <1>2
  <1>4. /\ requests' \in Seq(ReqId)
        /\ DOMAIN requests = 1..Len(requests) /\ Len(requests) \in Nat
        /\ DOMAIN requests' = 1..(Len(requests) + 1)
        /\ \A i \in DOMAIN requests : requests'[i] = requests[i]
        /\ requests'[Len(requests) + 1] = r
    BY <1>1, AppendLemma
  <1>5. \A i \in DOMAIN requests :
          /\ requests[i] \in heap /\ requests[i] \in ReqId /\ requests[i] # r
          /\ reqs'[requests[i]] = reqs[requests[i]]
    BY <1>1, <1>3 DEF Inv, QueueSound
  <1>6. \A i \in DOMAIN requests' :
          \/ i \in DOMAIN requests /\ requests'[i] = requests[i]
          \/ i \notin DOMAIN requests /\ requests'[i] = r
               /\ i = Len(requests) + 1
    BY <1>4
  <1>7. QueueSound'
    <2>1. ASSUME NEW j \in DOMAIN requests'
          PROVE  requests'[j] \in heap'
      BY <1>5, <1>6
    <2>2. ASSUME NEW j \in DOMAIN requests', NEW k \in DOMAIN requests', j # k
          PROVE  /\ requests'[j] # requests'[k]
                 /\ reqs'[requests'[j]].ip # reqs'[requests'[k]].ip
      BY <1>3, <1>5, <1>6, <2>2 DEF Inv, QueueSound
    <2> QED  BY <2>1, <2>2 DEF QueueSound
  <1>8. CachedXorPending'
    BY <1>3, <1>5, <1>6 DEF Inv, CachedXorPending, Cached
  <1>9. CursorQueued'
    <2>1. cursor # r
      BY <1>1 DEF Referenced
    <2> QED  BY <1>4, <2>1 DEF Inv, CursorQueued
  <1>10. ASSUME NEW f \in Frame, OnStack(f)
         PROVE  ActivationOK(f)'
    <2>1. ActivationOK(f) /\ f.req \in ReqId /\ f.req # r
      BY <1>1, <1>10 DEF Inv, ActivationsOK, OnStack, Frame, Referenced
    <2> QED  BY <1>3, <2>1 DEF ActivationOK, Cached
  <1>11. job.at = "flush" =>
          /\ r # job.req /\ job.req \in heap'
          /\ job.left <= Len(reqs'[job.req].packets)
          /\ \A j \in DOMAIN requests' : requests'[j] # job.req
    BY <1>1, <1>3, <1>6 DEF Inv, FlushOwns, TypeOK
  <1> QED  BY <1>1, <1>3, <1>4, <1>7, <1>8, <1>9, <1>10, <1>11
              DEF QueueReqKeeps

\* sr_arpcache_queuereq, called for an address that is not cached.
LEMMA QueueReqLemma ==
  ASSUME Inv, NEW ip \in IP, NEW pk \in Packet, NEW r \in ReqId,
         QueueReq(ip, pk, r), ~Cached(ip), UNCHANGED <<entries, cursor>>
  PROVE  QueueReqKeeps(r)
  <1>1. CASE /\ \E i \in DOMAIN requests : requests[i] = r
             /\ reqs' = [reqs EXCEPT ![r].packets = Append(@, pk)]
             /\ UNCHANGED <<requests, heap>>
    BY <1>1, QueueFoundLemma
  <1>2. CASE /\ \A i \in DOMAIN requests : reqs[requests[i]].ip # ip
             /\ Fresh # {} /\ r = CHOOSE x \in Fresh : TRUE
             /\ heap' = heap \cup {r}
             /\ requests' = Append(requests, r)
             /\ reqs' = [reqs EXCEPT ![r] =
                           [Blank(ip) EXCEPT !.packets = <<pk>>]]
    <2>1. r \in Fresh
      BY <1>2
    <2> QED  BY <1>2, <2>1, QueueNewLemma
  <1> QED  BY <1>1, <1>2 DEF QueueReq

\* Queueing an ICMP error and the recursive call keep the invariant.
LEMMA EnqueueInv ==
  ASSUME Inv, NEW t \in Thread, Enqueue(t)
  PROVE  Inv'
  <1>1. /\ TypeOK /\ stack[t] # <<>> /\ Top(t).at = "enqueue"
        /\ UNCHANGED <<entries, lock, job, cursor, slept, arrived, fwd,
                       settled>>
    BY DEF Inv, Enqueue, Active, Top
  <1>2. /\ Top(t) \in Frame /\ Top(t).req \in ReqId /\ Top(t).left \in Nat
        /\ Len(stack[t]) \in DOMAIN stack[t]
    BY <1>1, TopLemma DEF Frame
  <1>3. /\ ActivationOK(Top(t)) /\ OnStack(Top(t))
        /\ Top(t).dst \in IP /\ RouterIp[Top(t).dst] # NULL
        /\ ~Cached(Top(t).dst)
    BY <1>1, <1>2 DEF Inv, ActivationsOK, ActivationOK, OnStack, Top
  <1>4. [pkt |-> NULL, src |-> RouterIp[Top(t).dst]] \in Packet
    BY <1>3, RouterIpAssumption DEF Packet
  <1>5. PICK r \in ReqId :
          /\ QueueReq(Top(t).dst, [pkt |-> NULL, src |-> RouterIp[Top(t).dst]],
                      r)
          /\ IF Len(stack[t]) = MaxDepth
             THEN fault' = "stack" /\ UNCHANGED stack
             ELSE /\ stack' = [stack EXCEPT ![t] =
                       Append([@ EXCEPT ![Len(stack[t])] =
                                Discarding("discard", Top(t).req, Top(t).left,
                                           NULL)],
                              Call(r))]
                  /\ UNCHANGED fault
    BY DEF Enqueue
  <1>6. QueueReqKeeps(r)
    BY <1>1, <1>3, <1>4, <1>5, QueueReqLemma
  <1>7. PICK f \in Frame : f = Discarding("discard", Top(t).req, Top(t).left,
                                          NULL)
    BY <1>2, ActivationLemma DEF FrameAt
  <1>8. PICK g \in Frame : g = Call(r)
    BY ActivationLemma
  <1>9. PICK F \in {{}, {f, g}} : StackGains(t, F)
    BY <1>1, <1>5, <1>7, <1>8, SameStackLemma, PushLemma
  <1>10. ActivationOK(f)' /\ ActivationOK(g)'
    <2>1. PICK h \in Frame : h = Top(t)
      BY <1>2
    <2>2. ActivationOK(h)'
      BY <1>3, <1>6, <2>1 DEF QueueReqKeeps
    <2> QED  BY <1>1, <1>7, <1>8, <2>1, <2>2
                DEF ActivationOK, Discarding, Call, Timed
  <1>11. TypeOK'
    <2>1. fault' \in Fault
      BY <1>1, <1>5 DEF TypeOK, Fault
    <2> QED  BY <1>1, <1>6, <1>9, <2>1 DEF TypeOK, QueueReqKeeps, StackGains
  <1>12. LockCoversSweep' /\ MainDoesOneThing' /\ QueueJobMisses'
    BY <1>1, <1>9 DEF Inv, LockCoversSweep, MainDoesOneThing, QueueJobMisses,
       Cached, StackGains, Thread
  <1>13. ActivationsOK'
    BY <1>1, <1>6, <1>9, <1>10, ActivationsLemma DEF QueueReqKeeps
  <1>14. FlushOwns'
    <2> SUFFICES ASSUME job.at = "flush"
                 PROVE  ~Referenced(job.req)'
      BY <1>1, <1>6 DEF FlushOwns, QueueReqKeeps
    <2>1. ~Referenced(job.req) /\ r # job.req
      BY <1>6 DEF Inv, FlushOwns, QueueReqKeeps
    <2>2. f.req # job.req /\ g.req # job.req
      BY <1>2, <1>7, <1>8, <2>1 DEF Referenced, Top, Discarding, Call, Timed
    <2> QED  BY <1>1, <1>9, <2>1, <2>2 DEF Referenced, StackGains
  <1> QED  BY <1>6, <1>11, <1>12, <1>13, <1>14 DEF Inv, QueueReqKeeps

\* Queueing a packet of main keeps the invariant.
LEMMA MainQueueInv ==
  ASSUME Inv, MainQueue
  PROVE  Inv'
  <1>1. /\ TypeOK /\ job.at = "queue" /\ LockFree("main") /\ job' = Idle
        /\ UNCHANGED <<entries, lock, cursor, slept, arrived, fwd, settled,
                       fault>>
    BY DEF Inv, MainQueue
  <1>2. /\ job.hop \in IP /\ [pkt |-> job.pkt, src |-> job.src] \in Packet
        /\ Idle.at = "idle" /\ job # Idle /\ "main" \in Thread
    BY <1>1 DEF TypeOK, Job, Idle, Packet, Thread
  <1>3. PICK r \in ReqId :
          /\ QueueReq(job.hop, [pkt |-> job.pkt, src |-> job.src], r)
          /\ stack' = [stack EXCEPT !["main"] = <<Call(r)>>]
    BY DEF MainQueue
  <1>4. QueueReqKeeps(r)
    BY <1>1, <1>2, <1>3, QueueReqLemma DEF Inv, QueueJobMisses
  <1>5. PICK g \in Frame : g = Call(r)
    BY ActivationLemma
  <1>6. StackGains("main", {g})
    BY <1>1, <1>2, <1>3, <1>5, FirstCallLemma
  <1>7. TypeOK'
    BY <1>1, <1>4, <1>6 DEF TypeOK, Job, QueueReqKeeps, StackGains
  <1>8. ActivationOK(g)'
    BY <1>5 DEF ActivationOK, Call, Timed
  <1>9. ActivationsOK'
    BY <1>1, <1>2, <1>4, <1>6, <1>8, ActivationsLemma DEF QueueReqKeeps
  <1>10. LockCoversSweep' /\ MainDoesOneThing' /\ QueueJobMisses' /\ FlushOwns'
    BY <1>1, <1>2, <1>6 DEF Inv, LockCoversSweep, MainDoesOneThing,
       QueueJobMisses, FlushOwns, StackGains, Thread
  <1> QED  BY <1>4, <1>7, <1>9, <1>10 DEF Inv, QueueReqKeeps

-----------------------------------------------------------------------------
(* The other steps of the main thread. *)

\* A step that leaves the requests, the stacks and the lock alone, and the
\* cache too, keeps everything but what is said of job.
LEMMA MainOnlyLemma ==
  ASSUME Inv, UNCHANGED <<entries, requests, heap, reqs, lock, stack, cursor>>,
         TypeOK', MainDoesOneThing', QueueJobMisses', FlushOwns'
  PROVE  Inv'
  <1>1. QueueSound' /\ CachedXorPending' /\ LockCoversSweep' /\ CursorQueued'
    BY DEF Inv, QueueSound, CachedXorPending, LockCoversSweep, CursorQueued
  <1>2. ActivationsOK'
    BY DEF Inv, ActivationsOK, ActivationOK, Cached
  <1> QED  BY <1>1, <1>2 DEF Inv

\* A packet with a mapping leaves; one without becomes a job whose miss is
\* still a miss.
LEMMA SubmitInv ==
  ASSUME Inv, NEW p \in Pkt, NEW flow \in Traffic, Submit(p, flow)
  PROVE  Inv'
  <1>1. /\ TypeOK /\ job = Idle /\ stack["main"] = <<>>
        /\ UNCHANGED <<entries, requests, heap, reqs, lock, stack, cursor,
                       slept, settled, fault>>
        /\ arrived' = arrived \cup {p}
    BY DEF Inv, Submit, MainIdle
  <1>2. flow.src \in IP /\ flow.hop \in IP /\ Idle.at = "idle"
    BY TrafficAssumption DEF Idle
  <1>3. CASE fwd' = [fwd EXCEPT ![p] = @ + 1] /\ UNCHANGED job
    <2>1. TypeOK'
      BY <1>1, <1>3 DEF TypeOK
    <2>2. MainDoesOneThing' /\ QueueJobMisses' /\ FlushOwns'
      BY <1>1, <1>2, <1>3 DEF MainDoesOneThing, QueueJobMisses, FlushOwns
    <2> QED  BY <1>1, <2>1, <2>2, MainOnlyLemma
  <1>4. CASE /\ ~Cached(flow.hop) /\ UNCHANGED fwd
             /\ job' = [at |-> "queue", pkt |-> p,
                        src |-> flow.src, hop |-> flow.hop]
    <2>1. job' \in Job /\ job'.at = "queue" /\ job'.hop = flow.hop
      BY <1>2, <1>4 DEF Job
    <2>2. TypeOK'
      BY <1>1, <1>4, <2>1 DEF TypeOK
    <2>3. MainDoesOneThing' /\ QueueJobMisses' /\ FlushOwns'
      BY <1>1, <1>4, <2>1 DEF MainDoesOneThing, QueueJobMisses, FlushOwns,
         Cached
    <2> QED  BY <1>1, <2>2, <2>3, MainOnlyLemma
  <1> QED  BY <1>3, <1>4 DEF Submit

\* Sending a packet of the answered request only counts it.
LEMMA FlushInv ==
  ASSUME Inv, Flush
  PROVE  Inv'
  <1>1. /\ TypeOK /\ job.at = "flush" /\ job.left > 0
        /\ job' = [job EXCEPT !.left = @ - 1]
        /\ UNCHANGED <<entries, requests, heap, reqs, lock, stack, cursor,
                       slept, arrived, settled, fault>>
    BY DEF Inv, Flush
  <1>2. /\ job \in [at : {"flush"}, req : ReqId, left : Nat]
        /\ job # Idle
    BY <1>1 DEF TypeOK, Job, Idle
  <1>3. /\ job' \in [at : {"flush"}, req : ReqId, left : Nat]
        /\ job'.at = "flush" /\ job'.req = job.req /\ job'.left = job.left - 1
    BY <1>1, <1>2
  <1>4. /\ job.req \in heap /\ ~Referenced(job.req) /\ job.req \in ReqId
        /\ job.left <= Len(reqs[job.req].packets)
        /\ \A i \in DOMAIN requests : requests[i] # job.req
    BY <1>1, <1>2 DEF Inv, FlushOwns
  <1>5. /\ reqs[job.req] \in Request /\ job.left \in Nat
        /\ reqs[job.req].packets \in Seq(Packet)
    BY <1>1, <1>2, <1>4 DEF TypeOK, Request
  <1>6. /\ Len(reqs[job.req].packets) \in Nat
        /\ job.left \in DOMAIN reqs[job.req].packets
    BY <1>1, <1>4, <1>5
  <1>7. reqs[job.req].packets[job.left] \in Packet
    BY <1>5, <1>6
  <1>8. PICK p \in Pkt \cup {NULL} : p = reqs[job.req].packets[job.left].pkt
    BY <1>7 DEF Packet
  <1>9. fwd' \in [Pkt -> Nat]
    <2>1. fwd' = IF p = NULL THEN fwd ELSE [fwd EXCEPT ![p] = @ + 1]
      BY <1>8 DEF Flush
    <2>2. fwd \in [Pkt -> Nat]
      BY <1>1 DEF TypeOK
    <2> QED  BY <2>1, <2>2
  <1>10. TypeOK'
    BY <1>1, <1>3, <1>9 DEF TypeOK, Job
  <1>11. FlushOwns'
    BY <1>1, <1>2, <1>3, <1>4, <1>5, <1>6 DEF FlushOwns, Referenced
  <1>12. MainDoesOneThing' /\ QueueJobMisses'
    BY <1>1, <1>2, <1>3 DEF Inv, MainDoesOneThing, QueueJobMisses
  <1> QED  BY <1>1, <1>10, <1>11, <1>12, MainOnlyLemma

\* A reply comes while no thread has a request in hand.
LEMMA ReplyQuiet ==
  ASSUME Inv, NEW ip \in Repliers, NEW mac \in Mac, Reply(ip, mac)
  PROVE  /\ lock = NULL /\ cursor = NULL /\ job = Idle
         /\ \A t \in Thread : stack[t] = <<>>
  <1>1. /\ TypeOK /\ LockFree("main") /\ job = Idle /\ stack["main"] = <<>>
    BY DEF Inv, Reply, MainIdle
  <1>2. lock = NULL
    BY <1>1 DEF TypeOK, LockFree
  <1> QED  BY <1>1, <1>2 DEF Inv, LockCoversSweep, Thread

\* sr_arpcache_insert takes the only request for ip off the queue, whole.
LEMMA ReplyQueue ==
  ASSUME Inv, NEW ip \in Repliers, NEW mac \in Mac, Reply(ip, mac)
  PROVE  /\ requests' \in Seq(ReqId) /\ QueueSound'
         /\ \A j \in DOMAIN requests' :
              /\ \E k \in DOMAIN requests : requests'[j] = requests[k]
              /\ reqs[requests'[j]].ip # ip
         /\ \/ job' = Idle
            \/ \E r \in ReqId :
                 /\ r \in heap
                 /\ job' = [at |-> "flush", req |-> r, left |-> Waiting(r)]
                 /\ \A j \in DOMAIN requests' : requests'[j] # r
  <1>1. /\ TypeOK /\ QueueSound /\ UNCHANGED <<heap, reqs>>
        /\ requests \in Seq(ReqId) /\ job = Idle
    BY ReplyQuiet DEF Inv, Reply, TypeOK
  <1>2. CASE /\ \A i \in DOMAIN requests : reqs[requests[i]].ip # ip
             /\ UNCHANGED <<requests, job>>
    BY <1>1, <1>2 DEF QueueSound
  <1>3. ASSUME NEW i \in DOMAIN requests, reqs[requests[i]].ip = ip,
               requests' = RemoveAt(requests, i),
               job' = [at |-> "flush", req |-> requests[i],
                       left |-> Waiting(requests[i])]
        PROVE  /\ requests' \in Seq(ReqId) /\ QueueSound'
               /\ \A j \in DOMAIN requests' :
                    /\ \E k \in DOMAIN requests : requests'[j] = requests[k]
                    /\ reqs[requests'[j]].ip # ip
               /\ \E r \in ReqId :
                    /\ r \in heap
                    /\ job' = [at |-> "flush", req |-> r, left |-> Waiting(r)]
                    /\ \A j \in DOMAIN requests' : requests'[j] # r
    <2>1. /\ requests' \in Seq(ReqId)
          /\ \A j \in DOMAIN requests' :
               /\ requests'[j] # requests[i]
               /\ \E k \in DOMAIN requests : requests'[j] = requests[k]
          /\ \A j, k \in DOMAIN requests' : j # k =>
               \E m, n \in DOMAIN requests :
                 m # n /\ requests'[j] = requests[m] /\ requests'[k] = requests[n]
      BY <1>1, <1>3, UnlinkLemma
    <2>2. QueueSound'
      <3>1. ASSUME NEW j \in DOMAIN requests'
            PROVE  requests'[j] \in heap'
        BY <1>1, <2>1 DEF QueueSound
      <3>2. ASSUME NEW j \in DOMAIN requests', NEW k \in DOMAIN requests', j # k
            PROVE  /\ requests'[j] # requests'[k]
                   /\ reqs'[requests'[j]].ip # reqs'[requests'[k]].ip
        <4>1. PICK m, n \in DOMAIN requests :
                m # n /\ requests'[j] = requests[m] /\ requests'[k] = requests[n]
          BY <2>1, <3>2
        <4> QED  BY <1>1, <4>1 DEF QueueSound
      <3> QED  BY <3>1, <3>2 DEF QueueSound
    <2>3. ASSUME NEW j \in DOMAIN requests'
          PROVE  reqs[requests'[j]].ip # ip
      <3>1. PICK k \in DOMAIN requests : requests'[j] = requests[k]
        BY <2>1
      <3>2. k # i
        BY <2>1, <3>1
      <3> QED  BY <1>1, <1>3, <3>1, <3>2 DEF QueueSound
    <2>4. requests[i] \in ReqId /\ requests[i] \in heap
      BY <1>1 DEF QueueSound
    <2> QED  BY <1>3, <2>1, <2>2, <2>3, <2>4
  <1> QED  BY <1>2, <1>3 DEF Reply

\* sr_arpcache_insert writes at most one slot, with the mapping of the reply.
LEMMA ReplyCache ==
  ASSUME Inv, NEW ip \in Repliers, NEW mac \in Mac, Reply(ip, mac)
  PROVE  /\ entries' \in [Slot -> Entry \cup {NoEntry}]
         /\ \A s \in Slot : entries'[s] = entries[s] \/ entries'[s].ip = ip
  <1>1. PICK e \in Entry : e = [ip |-> ip, mac |-> mac, added |-> 0]
    <2>1. ip \in IP /\ 0 \in 0..(CacheTO + 1)
      BY ConstantsAssumption, TrafficAssumption
    <2>2. [ip |-> ip, mac |-> mac, added |-> 0] \in Entry
      BY <2>1 DEF Entry
    <2> QED  BY <2>2
  <1>2. entries \in [Slot -> Entry \cup {NoEntry}]
    BY DEF Inv, TypeOK
  <1>3. \/ UNCHANGED entries
        \/ \E s \in Slot : entries' = [entries EXCEPT ![s] = e]
    BY <1>1 DEF Reply
  <1>4. e.ip = ip
    BY <1>1
  <1> QED  BY <1>2, <1>3, <1>4

\* An ARP reply keeps the invariant.
LEMMA ReplyInv ==
  ASSUME Inv, NEW ip \in Repliers, NEW mac \in Mac, Reply(ip, mac)
  PROVE  Inv'
  <1>1. /\ TypeOK /\ lock = NULL /\ cursor = NULL
        /\ \A t \in Thread : stack[t] = <<>>
        /\ UNCHANGED <<heap, reqs, lock, stack, cursor, slept, arrived, fwd,
                       settled, fault>>
    BY ReplyQuiet DEF Inv, Reply
  <1>2. requests' \in Seq(ReqId) /\ QueueSound'
    BY ReplyQueue
  <1>3. /\ \A j \in DOMAIN requests' :
             /\ \E k \in DOMAIN requests : requests'[j] = requests[k]
             /\ reqs[requests'[j]].ip # ip
        /\ \/ job' = Idle
           \/ \E r \in ReqId :
                /\ r \in heap
                /\ job' = [at |-> "flush", req |-> r, left |-> Waiting(r)]
                /\ \A j \in DOMAIN requests' : requests'[j] # r
    BY ReplyQueue
  <1>4. /\ entries' \in [Slot -> Entry \cup {NoEntry}]
        /\ \A s \in Slot : entries'[s] = entries[s] \/ entries'[s].ip = ip
    BY ReplyCache
  <1>5. CachedXorPending'
    <2> SUFFICES ASSUME NEW s \in Slot, NEW j \in DOMAIN requests',
                        entries'[s] # NoEntry
                 PROVE  entries'[s].ip # reqs[requests'[j]].ip
      BY <1>1 DEF CachedXorPending
    <2>1. PICK k \in DOMAIN requests : requests'[j] = requests[k]
      BY <1>3
    <2> QED  BY <1>3, <1>4, <2>1 DEF Inv, CachedXorPending
  <1>6. ASSUME NEW r \in ReqId
        PROVE  reqs[r].packets \in Seq(Packet) /\ Waiting(r) \in Nat
               /\ Waiting(r) = Len(reqs[r].packets) /\ ~Referenced(r)'
    <2>1. reqs[r].packets \in Seq(Packet)
      BY <1>1 DEF TypeOK, Request
    <2>2. ~Referenced(r)'
      BY <1>1, MarkersAssumption DEF Referenced
    <2> QED  BY <2>1, <2>2 DEF Waiting
  <1>7. job' \in Job /\ job'.at # "queue" /\ FlushOwns'
    <2>1. CASE job' = Idle
      BY <2>1 DEF Job, Idle, FlushOwns
    <2>2. ASSUME NEW r \in ReqId, r \in heap,
                 job' = [at |-> "flush", req |-> r, left |-> Waiting(r)],
                 \A j \in DOMAIN requests' : requests'[j] # r
          PROVE  job' \in Job /\ job'.at # "queue" /\ FlushOwns'
      <3>1. job'.at = "flush" /\ job'.req = r /\ job'.left = Waiting(r)
        BY <2>2
      <3>2. job' \in [at : {"flush"}, req : ReqId, left : Nat]
        BY <1>6, <2>2
      <3>3. FlushOwns'
        BY <1>1, <1>6, <2>2, <3>1 DEF FlushOwns
      <3> QED  BY <3>1, <3>2, <3>3 DEF Job
    <2> QED  BY <1>3, <2>1, <2>2
  <1>8. TypeOK'
    BY <1>1, <1>2, <1>4, <1>7 DEF TypeOK
  <1>9. LockCoversSweep' /\ MainDoesOneThing' /\ QueueJobMisses'
    BY <1>1, <1>7 DEF LockCoversSweep, MainDoesOneThing, QueueJobMisses, Thread
  <1>10. CursorQueued'
    BY <1>1, MarkersAssumption DEF CursorQueued, TypeOK
  <1>11. ActivationsOK'
    BY <1>1 DEF ActivationsOK
  <1> QED  BY <1>2, <1>5, <1>7, <1>8, <1>9, <1>10, <1>11 DEF Inv

-----------------------------------------------------------------------------
(* The timeout thread and the clock. *)

\* Expiring mappings makes no address cached that was not, and the sweep
\* starts on the queue.
LEMMA WakeInv ==
  ASSUME Inv, Wake
  PROVE  Inv'
  <1>1. /\ TypeOK /\ lock = NULL /\ lock' = "timeout" /\ slept' = FALSE
        /\ UNCHANGED <<requests, heap, reqs, job, stack, arrived, fwd, settled,
                       fault>>
    BY DEF Inv, Wake
  <1>2. /\ entries' \in [Slot -> Entry \cup {NoEntry}]
        /\ \A s \in Slot : entries'[s] = NoEntry \/ entries'[s] = entries[s]
    BY <1>1 DEF TypeOK, Wake
  <1>3. \/ cursor' = NULL
        \/ \E i \in DOMAIN requests : requests[i] = cursor'
    <2>1. requests # <<>> => 1 \in DOMAIN requests /\ Head(requests) = requests[1]
      BY <1>1 DEF TypeOK
    <2> QED  BY <2>1 DEF Wake
  <1>4. cursor' \in ReqId \cup {NULL}
    BY <1>1, <1>3 DEF TypeOK
  <1>5. TypeOK'
    BY <1>1, <1>2, <1>4 DEF TypeOK
  <1>6. QueueSound' /\ MainDoesOneThing'
    BY <1>1 DEF Inv, QueueSound, MainDoesOneThing
  <1>7. CachedXorPending' /\ QueueJobMisses'
    BY <1>1, <1>2 DEF Inv, CachedXorPending, QueueJobMisses, Cached
  <1>8. ActivationsOK'
    BY <1>1, <1>2 DEF Inv, ActivationsOK, ActivationOK, Cached
  <1>9. LockCoversSweep'
    BY <1>1, MarkersAssumption DEF LockCoversSweep, Thread
  <1>10. CursorQueued'
    <2>1. NULL \notin heap
      BY <1>1, MarkersAssumption DEF TypeOK
    <2> QED  BY <1>1, <1>3, <2>1 DEF CursorQueued
  <1>11. FlushOwns'
    <2>1. job.at = "flush" => cursor' # job.req
      BY <1>1, <1>3, MarkersAssumption DEF Inv, FlushOwns, TypeOK
    <2> QED  BY <1>1, <2>1 DEF Inv, FlushOwns, Referenced
  <1> QED  BY <1>5, <1>6, <1>7, <1>8, <1>9, <1>10, <1>11 DEF Inv

\* The sweep calls handle_arpreq for the cursor and moves on along the queue.
LEMMA VisitInv ==
  ASSUME Inv, Visit
  PROVE  Inv'
  <1>1. /\ TypeOK /\ lock = "timeout" /\ stack["timeout"] = <<>>
        /\ cursor # NULL /\ "timeout" \in Thread
        /\ UNCHANGED <<entries, requests, heap, reqs, lock, job, slept,
                       arrived, fwd, settled>>
    BY DEF Inv, Visit, Thread
  <1>2. CASE fault' = "visit" /\ UNCHANGED <<stack, cursor>>
    <2>1. TypeOK'
      BY <1>1, <1>2 DEF TypeOK, Fault
    <2>2. MainDoesOneThing' /\ QueueJobMisses' /\ FlushOwns'
      BY <1>1, <1>2 DEF Inv, MainDoesOneThing, QueueJobMisses, FlushOwns,
         Referenced, Cached
    <2> QED  BY <1>1, <1>2, <2>1, <2>2, MainOnlyLemma
  <1>3. CASE /\ cursor \in heap
             /\ stack' = [stack EXCEPT !["timeout"] = <<Call(cursor)>>]
             /\ cursor' = NextReq(cursor)
             /\ UNCHANGED fault
    <2>1. cursor \in ReqId /\ requests \in Seq(ReqId)
      BY <1>1, <1>3 DEF TypeOK
    <2>2. PICK n \in DOMAIN requests :
            n = CHOOSE i \in DOMAIN requests : requests[i] = cursor
      BY <1>3 DEF Inv, CursorQueued
    <2>3. requests[n] = cursor
      BY <1>3, <2>2 DEF Inv, CursorQueued
    <2>4. \/ cursor' = NULL
          \/ \E k \in DOMAIN requests : requests[k] = cursor'
      <3>1. n < Len(requests) => n + 1 \in DOMAIN requests
        BY <2>1, <2>2
      <3>2. cursor' = IF n < Len(requests) THEN requests[n + 1] ELSE NULL
        BY <1>3, <2>2 DEF NextReq
      <3> QED  BY <3>1, <3>2
    <2>5. PICK f \in Frame : f = Call(cursor)
      BY <2>1, ActivationLemma
    <2>6. StackGains("timeout", {f})
      BY <1>1, <1>3, <2>5, FirstCallLemma
    <2>7. f.req = cursor /\ ActivationOK(f)'
      BY <2>5 DEF Call, Timed, ActivationOK
    <2>8. TypeOK'
      <3>1. cursor' \in ReqId \cup {NULL}
        BY <2>1, <2>4
      <3> QED  BY <1>1, <1>3, <2>6, <3>1 DEF TypeOK, StackGains
    <2>9. QueueSound' /\ CachedXorPending' /\ QueueJobMisses'
      BY <1>1 DEF Inv, QueueSound, CachedXorPending, QueueJobMisses, Cached
    <2>10. ActivationsOK'
      <3>1. ASSUME NEW g \in Frame, OnStack(g)
            PROVE  ActivationOK(g)'
        <4>1. ActivationOK(g)
          BY <3>1 DEF Inv, ActivationsOK, OnStack
        <4> QED  BY <1>1, <4>1 DEF ActivationOK, Cached
      <3> QED  BY <1>1, <2>6, <2>7, <3>1, ActivationsLemma
    <2>11. MainDoesOneThing'
      BY <1>1, <2>6 DEF Inv, MainDoesOneThing, StackGains, Thread
    <2>12. LockCoversSweep'
      BY <1>1, MarkersAssumption DEF LockCoversSweep, Thread
    <2>13. CursorQueued'
      <3>1. NULL \notin heap
        BY <1>1, MarkersAssumption DEF TypeOK
      <3> QED  BY <1>1, <2>4, <3>1 DEF CursorQueued
    <2>14. FlushOwns'
      <3> SUFFICES ASSUME job.at = "flush" PROVE ~Referenced(job.req)'
        BY <1>1 DEF Inv, FlushOwns
      <3>1. /\ ~Referenced(job.req) /\ job.req \in ReqId
            /\ \A k \in DOMAIN requests : requests[k] # job.req
        BY DEF Inv, FlushOwns, TypeOK
      <3>2. cursor' # job.req /\ f.req # job.req
        BY <2>3, <2>4, <2>7, <3>1, MarkersAssumption
      <3> QED  BY <1>1, <2>6, <2>7, <3>1, <3>2 DEF Referenced, StackGains
    <2> QED  BY <2>8, <2>9, <2>10, <2>11, <2>12, <2>13, <2>14 DEF Inv
  <1> QED  BY <1>2, <1>3 DEF Visit

\* The sweep ends with nothing in the hands of the timeout thread.
LEMMA RestInv ==
  ASSUME Inv, Rest
  PROVE  Inv'
  <1>1. /\ TypeOK /\ lock' = NULL /\ stack["timeout"] = <<>> /\ cursor = NULL
        /\ UNCHANGED <<entries, requests, heap, reqs, job, stack, cursor, slept,
                       arrived, fwd, settled, fault>>
    BY DEF Inv, Rest
  <1>2. TypeOK'
    BY <1>1 DEF TypeOK
  <1>3. QueueSound' /\ CachedXorPending' /\ CursorQueued' /\ LockCoversSweep'
    BY <1>1 DEF Inv, QueueSound, CachedXorPending, LockCoversSweep, CursorQueued
  <1>4. ActivationsOK' /\ QueueJobMisses' /\ MainDoesOneThing'
    BY <1>1 DEF Inv, ActivationsOK, ActivationOK, Cached, QueueJobMisses,
       MainDoesOneThing
  <1>5. FlushOwns'
    BY <1>1 DEF Inv, FlushOwns, Referenced
  <1> QED  BY <1>2, <1>3, <1>4, <1>5 DEF Inv

\* Getting older changes only an age, and keeps it in its range.
LEMMA OlderLemma ==
  ASSUME NEW n \in Nat, NEW age \in 0..n
  PROVE  Older(age, n) \in 0..n
  BY DEF Older

\* A second makes mappings, requests and readings of the clock older: it
\* changes no address, no packet list and no position in a loop.
LEMMA TickLemma ==
  ASSUME TypeOK, Tick
  PROVE  /\ TypeOK'
         /\ \A s \in Slot : /\ entries'[s] = NoEntry <=> entries[s] = NoEntry
                            /\ entries[s] # NoEntry =>
                                 entries'[s].ip = entries[s].ip
         /\ \A r \in ReqId : /\ reqs'[r].ip = reqs[r].ip
                             /\ reqs'[r].packets = reqs[r].packets
         /\ \A t \in Thread :
              /\ DOMAIN stack'[t] = DOMAIN stack[t]
              /\ stack[t] = <<>> <=> stack'[t] = <<>>
              /\ \A i \in DOMAIN stack[t] :
                   /\ stack'[t][i].at = stack[t][i].at
                   /\ stack'[t][i].req = stack[t][i].req
                   /\ stack'[t][i].left = stack[t][i].left
                   /\ stack'[t][i].dst = stack[t][i].dst
  <1>1. /\ slept' \in BOOLEAN
        /\ UNCHANGED <<requests, heap, lock, job, cursor, arrived, fwd, settled,
                       fault>>
    BY DEF Tick, TypeOK
  <1>2. ASSUME NEW e \in Entry
        PROVE  /\ [e EXCEPT !.added = Older(@, CacheTO + 1)] \in Entry
               /\ [e EXCEPT !.added = Older(@, CacheTO + 1)].ip = e.ip
    <2>1. e.added \in 0..(CacheTO + 1) /\ CacheTO + 1 \in Nat
      BY ConstantsAssumption DEF Entry
    <2>2. Older(e.added, CacheTO + 1) \in 0..(CacheTO + 1)
      BY <2>1, OlderLemma
    <2> QED  BY <2>2 DEF Entry
  <1>3. ASSUME NEW s \in Slot
        PROVE  /\ entries'[s] \in Entry \cup {NoEntry}
               /\ entries'[s] = NoEntry <=> entries[s] = NoEntry
               /\ entries[s] # NoEntry => entries'[s].ip = entries[s].ip
    <2>1. entries[s] \in Entry \cup {NoEntry}
      BY DEF TypeOK
    <2>2. entries'[s] = IF entries[s] = NoEntry THEN NoEntry
                        ELSE [entries[s] EXCEPT !.added = Older(@, CacheTO + 1)]
      BY DEF Tick
    <2>3. CASE entries[s] = NoEntry
      BY <2>2, <2>3
    <2>4. CASE entries[s] # NoEntry
      BY <1>2, <2>1, <2>2, <2>4, MarkersAssumption
    <2> QED  BY <2>3, <2>4
  <1>4. entries' \in [Slot -> Entry \cup {NoEntry}]
    <2>1. entries' = [s \in Slot |-> entries'[s]]
      BY DEF Tick
    <2> QED  BY <1>3, <2>1
  <1>5. ASSUME NEW q \in Request
        PROVE  /\ [q EXCEPT !.sent = Older(@, Due)] \in Request
               /\ [q EXCEPT !.sent = Older(@, Due)].ip = q.ip
               /\ [q EXCEPT !.sent = Older(@, Due)].packets = q.packets
    <2>1. q.sent \in 0..Due /\ Due \in Nat
      BY DEF Request, Due
    <2>2. Older(q.sent, Due) \in 0..Due
      BY <2>1, OlderLemma
    <2> QED  BY <2>2 DEF Request
  <1>6. ASSUME NEW r \in ReqId
        PROVE  /\ reqs'[r] \in Request /\ reqs'[r].ip = reqs[r].ip
               /\ reqs'[r].packets = reqs[r].packets
    <2>1. reqs[r] \in Request
      BY DEF TypeOK
    <2>2. reqs'[r] = [reqs[r] EXCEPT !.sent = Older(@, Due)]
      BY DEF Tick
    <2> QED  BY <1>5, <2>1, <2>2
  <1>7. reqs' \in [ReqId -> Request]
    <2>1. reqs' = [r \in ReqId |-> reqs'[r]]
      BY DEF Tick
    <2> QED  BY <1>6, <2>1
  <1>8. ASSUME NEW f \in Frame
        PROVE  /\ [f EXCEPT !.cur = Older(@, Due)] \in Frame
               /\ [f EXCEPT !.cur = Older(@, Due)].at = f.at
               /\ [f EXCEPT !.cur = Older(@, Due)].req = f.req
               /\ [f EXCEPT !.cur = Older(@, Due)].left = f.left
               /\ [f EXCEPT !.cur = Older(@, Due)].dst = f.dst
    <2>1. f.cur \in 0..Due /\ Due \in Nat
      BY DEF Frame, Due
    <2>2. Older(f.cur, Due) \in 0..Due
      BY <2>1, OlderLemma
    <2> QED  BY <2>2 DEF Frame
  <1>9. ASSUME NEW t \in Thread
        PROVE  /\ stack'[t] \in Seq(Frame)
               /\ DOMAIN stack'[t] = DOMAIN stack[t]
               /\ stack[t] = <<>> <=> stack'[t] = <<>>
               /\ \A i \in DOMAIN stack[t] :
                    /\ stack'[t][i].at = stack[t][i].at
                    /\ stack'[t][i].req = stack[t][i].req
                    /\ stack'[t][i].left = stack[t][i].left
                    /\ stack'[t][i].dst = stack[t][i].dst
    <2>1. stack[t] \in Seq(Frame) /\ Len(stack[t]) \in Nat
      BY DEF TypeOK
    <2>2. stack'[t] = [i \in DOMAIN stack[t] |->
                         IF stack[t][i].at \in {"tries", "resend"}
                         THEN [stack[t][i] EXCEPT !.cur = Older(@, Due)]
                         ELSE stack[t][i]]
      BY DEF Tick
    <2>3. DOMAIN stack[t] = 1..Len(stack[t]) /\ DOMAIN stack'[t] = DOMAIN stack[t]
      BY <2>1, <2>2
    <2>4. ASSUME NEW i \in DOMAIN stack[t]
          PROVE  /\ stack'[t][i] \in Frame
                 /\ stack'[t][i].at = stack[t][i].at
                 /\ stack'[t][i].req = stack[t][i].req
                 /\ stack'[t][i].left = stack[t][i].left
                 /\ stack'[t][i].dst = stack[t][i].dst
      <3>1. stack[t][i] \in Frame
        BY <2>1
      <3>2. \/ stack'[t][i] = [stack[t][i] EXCEPT !.cur = Older(@, Due)]
            \/ stack'[t][i] = stack[t][i]
        BY <2>2
      <3> QED  BY <1>8, <3>1, <3>2
    <2>5. stack'[t] = [i \in 1..Len(stack[t]) |-> stack'[t][i]]
      BY <2>2, <2>3
    <2>6. stack'[t] \in Seq(Frame) /\ Len(stack'[t]) = Len(stack[t])
      <3>1. PICK n \in Nat : n = Len(stack[t])
        BY <2>1
      <3>2. stack'[t] \in [1..n -> Frame]
        BY <2>3, <2>4, <2>5, <3>1
      <3>3. stack'[t] \in Seq(Frame)
        BY <3>2, SeqDef
      <3> QED  BY <2>3, <3>1, <3>3
    <2>7. stack[t] = <<>> <=> stack'[t] = <<>>
      BY <2>1, <2>6, EmptySeq
    <2> QED  BY <2>3, <2>4, <2>6, <2>7
  <1>10. stack' \in [Thread -> Seq(Frame)]
    <2>1. stack' = [t \in Thread |-> stack'[t]]
      BY DEF Tick
    <2> QED  BY <1>9, <2>1
  <1>11. TypeOK'
    BY <1>1, <1>4, <1>7, <1>10 DEF TypeOK
  <1> QED  BY <1>3, <1>6, <1>9, <1>11

\* The passing of time keeps the invariant.
LEMMA TickInv ==
  ASSUME Inv, Tick
  PROVE  Inv'
  <1>1. /\ TypeOK
        /\ UNCHANGED <<requests, heap, lock, job, cursor, arrived, fwd, settled,
                       fault>>
    BY DEF Inv, Tick
  <1>2. /\ TypeOK'
        /\ \A s \in Slot : /\ entries'[s] = NoEntry <=> entries[s] = NoEntry
                           /\ entries[s] # NoEntry =>
                                entries'[s].ip = entries[s].ip
        /\ \A r \in ReqId : /\ reqs'[r].ip = reqs[r].ip
                            /\ reqs'[r].packets = reqs[r].packets
    BY <1>1, TickLemma
  <1>3. \A t \in Thread :
          /\ DOMAIN stack'[t] = DOMAIN stack[t]
          /\ stack[t] = <<>> <=> stack'[t] = <<>>
          /\ \A i \in DOMAIN stack[t] :
               /\ stack'[t][i].at = stack[t][i].at
               /\ stack'[t][i].req = stack[t][i].req
               /\ stack'[t][i].left = stack[t][i].left
               /\ stack'[t][i].dst = stack[t][i].dst
    BY <1>1, TickLemma
  <1>4. \A i \in DOMAIN requests : reqs'[requests[i]].ip = reqs[requests[i]].ip
    BY <1>1, <1>2 DEF TypeOK
  <1>5. QueueSound' /\ CursorQueued'
    BY <1>1, <1>4 DEF Inv, QueueSound, CursorQueued
  <1>6. CachedXorPending'
    BY <1>1, <1>2, <1>4 DEF Inv, CachedXorPending
  <1>7. LockCoversSweep' /\ MainDoesOneThing'
    BY <1>1, <1>3 DEF Inv, LockCoversSweep, MainDoesOneThing, Thread
  <1>8. \A ip \in IP : Cached(ip)' <=> Cached(ip)
    BY <1>2 DEF Cached
  <1>9. QueueJobMisses'
    BY <1>1, <1>2 DEF Inv, QueueJobMisses, Cached
  <1>10. ActivationsOK'
    <2> SUFFICES ASSUME NEW t \in Thread, NEW i \in DOMAIN stack[t],
                        NEW f, f = stack'[t][i]
                 PROVE  ActivationOK(f)'
      BY <1>3 DEF ActivationsOK
    <2>1. PICK g \in Frame : g = stack[t][i]
      BY <1>1 DEF TypeOK
    <2>2. ActivationOK(g) /\ g.req \in ReqId
      BY <2>1 DEF Inv, ActivationsOK, Frame
    <2>3. f.at = g.at /\ f.req = g.req /\ f.left = g.left /\ f.dst = g.dst
      BY <1>3, <2>1
    <2>4. f.at \in {"discard", "enqueue"} /\ f.req \in heap' =>
            f.left <= Len(reqs'[f.req].packets)
      BY <1>1, <1>2, <2>2, <2>3 DEF ActivationOK
    <2>5. f.at = "enqueue" =>
            f.dst \in IP /\ RouterIp[f.dst] # NULL /\ ~Cached(f.dst)'
      BY <1>2, <2>2, <2>3 DEF ActivationOK, Cached
    <2> QED  BY <2>4, <2>5 DEF ActivationOK
  <1>11. FlushOwns'
    <2> SUFFICES ASSUME job.at = "flush"
                 PROVE  /\ job.req \in heap
                        /\ job.left <= Len(reqs'[job.req].packets)
                        /\ \A i \in DOMAIN requests : requests[i] # job.req
                        /\ ~Referenced(job.req)'
      BY <1>1 DEF FlushOwns
    <2>1. /\ job.req \in heap /\ ~Referenced(job.req) /\ job.req \in ReqId
          /\ job.left <= Len(reqs[job.req].packets)
          /\ \A i \in DOMAIN requests : requests[i] # job.req
      BY DEF Inv, FlushOwns, TypeOK
    <2>2. ~Referenced(job.req)'
      BY <1>1, <1>3, <2>1 DEF Referenced
    <2> QED  BY <1>2, <2>1, <2>2
  <1> QED  BY <1>2, <1>5, <1>6, <1>7, <1>9, <1>10, <1>11 DEF Inv

\* Steps that change nothing, the one after a fault included.
LEMMA StutterInv ==
  ASSUME Inv, UNCHANGED vars
  PROVE  Inv'
  <1>1. TypeOK'
    BY DEF Inv, vars, TypeOK
  <1>2. MainDoesOneThing' /\ QueueJobMisses' /\ FlushOwns'
    BY DEF Inv, vars, MainDoesOneThing, QueueJobMisses, FlushOwns, Referenced,
       Cached
  <1> QED  BY <1>1, <1>2, MainOnlyLemma DEF vars

-----------------------------------------------------------------------------
(* The invariant. *)

\* sr_arpcache_init leaves nothing cached and nothing queued.
LEMMA InitInv == Init => Inv
  <1> SUFFICES ASSUME Init PROVE Inv
    OBVIOUS
  <1>1. TypeOK
    BY InitTypeOK
  <1>2. /\ requests = <<>> /\ heap = {} /\ job = Idle /\ cursor = NULL
        /\ \A t \in Thread : stack[t] = <<>>
    BY DEF Init
  <1>3. QueueSound /\ CachedXorPending /\ CursorQueued
    BY <1>2 DEF QueueSound, CachedXorPending, CursorQueued
  <1>4. LockCoversSweep /\ MainDoesOneThing /\ ActivationsOK
    BY <1>2 DEF LockCoversSweep, MainDoesOneThing, ActivationsOK, Thread
  <1>5. FlushOwns /\ QueueJobMisses
    BY <1>2 DEF FlushOwns, QueueJobMisses, Idle
  <1> QED  BY <1>1, <1>3, <1>4, <1>5 DEF Inv

\* Every step of either thread in sr_arpcache_handle_arpreq keeps Inv.
LEMMA HandleArpreqInv ==
  ASSUME Inv, NEW t \in Thread, HandleArpreq(t)
  PROVE  Inv'
  BY CheckInv, CheckTriesInv, ResendInv, StoreInv, XmitInv, DiscardPacketInv,
     EnqueueInv, DiscardDoneInv DEF HandleArpreq

\* Every step of the program keeps Inv.
LEMMA NextInv ==
  ASSUME Inv, [Next]_vars
  PROVE  Inv'
  <1>1. CASE MainStep
    <2>1. "main" \in Thread
      BY DEF Thread
    <2> QED  BY <1>1, <2>1, SubmitInv, ReplyInv, MainQueueInv, FlushInv,
                FlushDoneInv, HandleArpreqInv DEF MainStep
  <1>2. CASE TimeoutStep
    <2>1. "timeout" \in Thread
      BY DEF Thread
    <2> QED  BY <1>2, <2>1, WakeInv, VisitInv, RestInv, HandleArpreqInv
             DEF TimeoutStep
  <1>3. CASE Tick
    BY <1>3, TickInv
  <1>4. CASE Crashed \/ UNCHANGED vars
    BY <1>4, StutterInv DEF Crashed
  <1> QED  BY <1>1, <1>2, <1>3, <1>4 DEF Next

\* Inv is an invariant of the two threads that share the ARP cache, for any
\* number of addresses, packets, slots and nested calls.
THEOREM InvHolds == Spec => []Inv
  <1>1. Init => Inv
    BY InitInv
  <1>2. Inv /\ [Next]_vars => Inv'
    BY NextInv
  <1> QED  BY <1>1, <1>2, PTL DEF Spec

\* Every variable keeps its type: in particular a time of last send is always
\* one the age arithmetic of handle_arpreq can tell apart.
THEOREM TypeCorrect == Spec => []TypeOK
  <1>1. Inv => TypeOK
    BY DEF Inv
  <1> QED  BY <1>1, InvHolds, PTL

\* The queue never holds a freed request, a request twice, or two requests for
\* one address, whatever sr_arpcache_queuereq, _insert and sr_arpreq_destroy
\* do to it while it is swept.
THEOREM QueueStaysSound == Spec => []QueueSound
  <1>1. Inv => QueueSound
    BY DEF Inv
  <1> QED  BY <1>1, InvHolds, PTL

\* A miss of sr_arpcache_lookup is still a miss when sr_arpcache_queuereq is
\* called for it: no packet is ever queued for an address that is cached.
THEOREM CachedNeverPending == Spec => []CachedXorPending
  <1>1. Inv => CachedXorPending
    BY DEF Inv
  <1> QED  BY <1>1, InvHolds, PTL

\* The loop of sr_handlepacket over the packets of an answered request needs
\* no lock: nobody else can reach that request.
THEOREM AnsweredRequestOwned == Spec => []FlushOwns
  <1>1. Inv => FlushOwns
    BY DEF Inv
  <1> QED  BY <1>1, InvHolds, PTL

-----------------------------------------------------------------------------
(* What a step does to each activation of each thread. *)

\* Thread t calls handle_arpreq again: its activation becomes f, g is the new one.
Pushes(t, f, g) ==
  stack' = [stack EXCEPT ![t] = Append([@ EXCEPT ![Len(stack[t])] = f], g)]

\* What moving the innermost activation on does to every stack.
LEMMA SetTopExact ==
  ASSUME TypeOK, NEW t \in Thread, stack[t] # <<>>, NEW f \in Frame,
         SetTop(t, f)
  PROVE  \A u \in Thread :
           /\ DOMAIN stack'[u] = DOMAIN stack[u]
           /\ \A k \in DOMAIN stack[u] :
                stack'[u][k] = IF u = t /\ k = Len(stack[t]) THEN f
                               ELSE stack[u][k]
  <1> DEFINE s == [stack[t] EXCEPT ![Len(stack[t])] = f]
  <1>1. stack[t] \in Seq(Frame) /\ stack \in [Thread -> Seq(Frame)]
    BY DEF TypeOK
  <1>2. /\ DOMAIN s = DOMAIN stack[t]
        /\ \A k \in DOMAIN s : s[k] = IF k = Len(stack[t]) THEN f ELSE stack[t][k]
    BY <1>1, LastLemma
  <1>3. stack' = [stack EXCEPT ![t] = s]
    BY DEF SetTop
  <1> HIDE DEF s
  <1> QED  BY <1>1, <1>2, <1>3

\* What returning does to every stack.
LEMMA ReturnExact ==
  ASSUME TypeOK, NEW t \in Thread, stack[t] # <<>>, Return(t)
  PROVE  \A u \in Thread :
           /\ DOMAIN stack'[u] = IF u = t THEN 1..(Len(stack[t]) - 1)
                                 ELSE DOMAIN stack[u]
           /\ \A k \in DOMAIN stack'[u] : stack'[u][k] = stack[u][k]
  <1> DEFINE s == Front(stack[t])
  <1>1. stack[t] \in Seq(Frame) /\ stack \in [Thread -> Seq(Frame)]
    BY DEF TypeOK
  <1>2. /\ DOMAIN s = 1..(Len(stack[t]) - 1)
        /\ \A k \in DOMAIN s : s[k] = stack[t][k]
    BY <1>1, FrontLemma
  <1>3. stack' = [stack EXCEPT ![t] = s]
    BY DEF Return
  <1> HIDE DEF s
  <1> QED  BY <1>1, <1>2, <1>3

\* What a nested call does to every stack.
LEMMA PushExact ==
  ASSUME TypeOK, NEW t \in Thread, stack[t] # <<>>,
         NEW f \in Frame, NEW g \in Frame,
         Pushes(t, f, g)
  PROVE  \A u \in Thread :
           /\ DOMAIN stack'[u] = IF u = t THEN 1..(Len(stack[t]) + 1)
                                 ELSE DOMAIN stack[u]
           /\ \A k \in DOMAIN stack[u] :
                /\ k \in DOMAIN stack'[u]
                /\ stack'[u][k] = IF u = t /\ k = Len(stack[t]) THEN f
                                  ELSE stack[u][k]
           /\ u = t => stack'[u][Len(stack[t]) + 1] = g
  <1> DEFINE s == [stack[t] EXCEPT ![Len(stack[t])] = f]
             w == Append(s, g)
  <1>1. /\ stack[t] \in Seq(Frame) /\ stack \in [Thread -> Seq(Frame)]
        /\ Len(stack[t]) \in Nat /\ DOMAIN stack[t] = 1..Len(stack[t])
    BY DEF TypeOK
  <1>2. /\ s \in Seq(Frame) /\ DOMAIN s = DOMAIN stack[t]
        /\ \A k \in DOMAIN s : s[k] = IF k = Len(stack[t]) THEN f ELSE stack[t][k]
    BY <1>1, LastLemma
  <1>3. stack' = [stack EXCEPT ![t] = w]
    BY DEF Pushes
  <1> HIDE DEF s
  <1>4. Len(s) = Len(stack[t])
    BY <1>1, <1>2
  <1>5. /\ DOMAIN w = 1..(Len(stack[t]) + 1)
        /\ \A k \in DOMAIN s : w[k] = s[k]
        /\ w[Len(stack[t]) + 1] = g
    BY <1>2, <1>4, AppendLemma
  <1> HIDE DEF w
  <1>6. /\ stack'[t] = w
        /\ \A u \in Thread : u # t => stack'[u] = stack[u]
    BY <1>1, <1>3
  <1>7. \A k \in DOMAIN stack[t] : k \in DOMAIN w
    BY <1>1, <1>5
  <1> QED  BY <1>1, <1>2, <1>5, <1>6, <1>7

\* What a first call does to every stack.
LEMMA FirstCallExact ==
  ASSUME TypeOK, NEW t \in Thread, NEW f \in Frame,
         stack' = [stack EXCEPT ![t] = <<f>>]
  PROVE  \A u \in Thread :
           /\ u = t => DOMAIN stack'[u] = {1} /\ stack'[u][1] = f
           /\ u # t => stack'[u] = stack[u]
  <1>1. DOMAIN <<f>> = {1} /\ <<f>>[1] = f
    OBVIOUS
  <1> QED  BY <1>1 DEF TypeOK

-----------------------------------------------------------------------------
(* No address is given up too early. *)

\* An activation that has counted a frame for r and is about to send it.
Counted(f, r) == f.at = "xmit" /\ f.req = r

\* Frames sent for r, or about to be.
Tried(r) == reqs[r].arps + Cardinality(InFlight(r))

\* What TriesCovered says of one activation.
Covers(f) ==
  f.req \in heap => /\ f.at \in {"discard", "enqueue"} => Tried(f.req) >= Tries
                    /\ f.at = "store" => f.seen <= Tried(f.req)

\* Activation g claims nothing that activation f does not.
Follows(g, f) ==
  /\ g.req = f.req
  /\ g.at \in {"discard", "enqueue"} => f.at \in {"discard", "enqueue"}
  /\ g.at = "store" => f.at = "store" /\ g.seen = f.seen

\* TriesCovered, activation by activation.
LEMMA TriesForm ==
  TypeOK => (TriesCovered <=>
    /\ \A t \in Thread : Len(stack[t]) <= MaxDepth
    /\ \A r \in heap : reqs[r].times_sent <= Tried(r)
    /\ \A f \in Frame : OnStack(f) => Covers(f))
  <1> SUFFICES ASSUME TypeOK
               PROVE  TriesCovered <=>
                        /\ \A t \in Thread : Len(stack[t]) <= MaxDepth
                        /\ \A r \in heap : reqs[r].times_sent <= Tried(r)
                        /\ \A f \in Frame : OnStack(f) => Covers(f)
    OBVIOUS
  <1>1. \A t \in Thread : \A i \in DOMAIN stack[t] : stack[t][i] \in Frame
    BY DEF TypeOK
  <1>2. (\A f \in Frame : OnStack(f) => Covers(f)) <=>
          \A t \in Thread : \A i \in DOMAIN stack[t] : Covers(stack[t][i])
    BY <1>1 DEF OnStack
  <1> QED  BY <1>2 DEF TriesCovered, TriesBeforeGivingUp, Covers, Tried

\* The same after a step.
LEMMA TriesFormNext ==
  (TypeOK => (TriesCovered <=>
    /\ \A t \in Thread : Len(stack[t]) <= MaxDepth
    /\ \A r \in heap : reqs[r].times_sent <= Tried(r)
    /\ \A f \in Frame : OnStack(f) => Covers(f)))'
  BY TriesForm, PTL

\* There are finitely many activations, so that they can be counted.
LEMMA InFlightFinite ==
  \A r : /\ IsFiniteSet(InFlight(r)) /\ Cardinality(InFlight(r)) \in Nat
  <1>1. IsFiniteSet(1..MaxDepth)
    BY FS_Interval, ConstantsAssumption
  <1>2. IsFiniteSet(Thread)
    <2>1. IsFiniteSet({"main"})
      BY FS_Singleton
    <2>2. IsFiniteSet({"main"} \cup {"timeout"})
      BY <2>1, FS_AddElement
    <2>3. Thread = {"main"} \cup {"timeout"}
      BY DEF Thread
    <2> QED  BY <2>2, <2>3
  <1>3. IsFiniteSet(Thread \X (1..MaxDepth))
    BY <1>1, <1>2, FS_Product
  <1>4. ASSUME NEW r PROVE IsFiniteSet(InFlight(r))
    <2>1. InFlight(r) \in SUBSET (Thread \X (1..MaxDepth))
      BY DEF InFlight
    <2> QED  BY <1>3, <2>1, FS_Subset
  <1> QED  BY <1>4, FS_CardinalityType

\* Membership in InFlight, by place.
LEMMA InFlightForm ==
  \A r, u, k : <<u, k>> \in InFlight(r) <=>
    /\ u \in Thread /\ k \in 1..MaxDepth
    /\ k \in DOMAIN stack[u] /\ Counted(stack[u][k], r)
  BY DEF InFlight, Counted

\* The same after a step.
LEMMA InFlightFormNext ==
  (\A r, u, k : <<u, k>> \in InFlight(r) <=>
    /\ u \in Thread /\ k \in 1..MaxDepth
    /\ k \in DOMAIN stack[u] /\ Counted(stack[u][k], r))'
  BY InFlightForm, PTL

\* No frame is counted and none is sent.
LEMMA InFlightSame ==
  ASSUME NEW r,
         \A u \in Thread : \A k \in 1..MaxDepth :
           k \in DOMAIN stack'[u] /\ Counted(stack'[u][k], r)
             <=> k \in DOMAIN stack[u] /\ Counted(stack[u][k], r)
  PROVE  InFlight(r)' = InFlight(r)
  BY DEF InFlight, Counted

\* The counts are numbers.
LEMMA TriedNat ==
  TypeOK => \A r \in ReqId : Tried(r) \in Nat /\ reqs[r].times_sent \in Nat
  <1> SUFFICES ASSUME TypeOK, NEW r \in ReqId
               PROVE  Tried(r) \in Nat /\ reqs[r].times_sent \in Nat
    OBVIOUS
  <1>1. reqs[r].arps \in Nat /\ reqs[r].times_sent \in Nat
    BY DEF TypeOK, Request
  <1>2. Cardinality(InFlight(r)) \in Nat
    BY InFlightFinite
  <1> QED  BY <1>1, <1>2 DEF Tried

\* The same after a step.
LEMMA TriedNatNext ==
  (TypeOK => \A r \in ReqId : Tried(r) \in Nat /\ reqs[r].times_sent \in Nat)'
  BY TriedNat, PTL

\* What keeps TriesCovered.
LEMMA TriesStep ==
  ASSUME TypeOK, TypeOK', TriesCovered,
         \A t \in Thread : Len(stack'[t]) <= MaxDepth,
         \A r \in heap \cap heap' : Tried(r)' >= Tried(r),
         \A r \in heap' : \/ r \in heap /\ reqs'[r].times_sent = reqs[r].times_sent
                          \/ reqs'[r].times_sent <= Tried(r)',
         \A f \in Frame : OnStack(f)' =>
           \/ f.req \in heap' => /\ f.req \in heap
                                 /\ \E g \in Frame : OnStack(g) /\ Follows(f, g)
           \/ Covers(f)'
  PROVE  TriesCovered'
  <1>1. /\ \A r \in ReqId : Tried(r) \in Nat /\ Tried(r)' \in Nat
        /\ \A r \in ReqId : reqs[r].times_sent \in Nat
        /\ heap \subseteq ReqId /\ heap' \subseteq ReqId
    BY TriedNat, TriedNatNext DEF TypeOK
  <1>2. /\ \A r \in heap : reqs[r].times_sent <= Tried(r)
        /\ \A f \in Frame : OnStack(f) => Covers(f)
    BY TriesForm
  <1>3. \A r \in heap' : reqs'[r].times_sent <= Tried(r)'
    BY <1>1, <1>2
  <1>4. ASSUME NEW f \in Frame, OnStack(f)'
        PROVE  Covers(f)'
    <2> SUFFICES ASSUME f.req \in heap', f.req \in heap,
                        NEW g \in Frame, OnStack(g), Follows(f, g)
                 PROVE  Covers(f)'
      BY <1>4 DEF Covers
    <2>1. PICK r \in heap : r = f.req
      OBVIOUS
    <2>2. Covers(g) /\ g.req = r
      BY <1>2, <2>1 DEF Follows
    <2>3. /\ Tried(r) \in Nat /\ Tried(r)' \in Nat /\ Tried(r)' >= Tried(r)
          /\ Tries \in Nat
      BY <1>1, <2>1, ConstantsAssumption
    <2>4. g.seen \in Nat
      BY DEF Frame
    <2>5. f.at \in {"discard", "enqueue"} => Tried(r)' >= Tries
      BY <2>1, <2>2, <2>3 DEF Covers, Follows
    <2>6. f.at = "store" => f.seen <= Tried(r)'
      BY <2>1, <2>2, <2>3, <2>4 DEF Covers, Follows
    <2> QED  BY <2>1, <2>5, <2>6 DEF Covers
  <1> QED  BY <1>3, <1>4, TriesFormNext

\* The same, for a step of one thread that gains activations.
LEMMA TriesGain ==
  ASSUME TypeOK, TypeOK', TriesCovered, NEW t \in Thread, NEW F,
         StackGains(t, F), Len(stack'[t]) <= MaxDepth,
         \A r \in heap \cap heap' : Tried(r)' >= Tried(r),
         \A r \in heap' : \/ r \in heap /\ reqs'[r].times_sent = reqs[r].times_sent
                          \/ reqs'[r].times_sent <= Tried(r)',
         \A f \in Frame : OnStack(f) /\ f.req \in heap' => f.req \in heap,
         \A f \in F : \/ Covers(f)'
                      \/ \E g \in Frame : OnStack(g) /\ Follows(f, g)
  PROVE  TriesCovered'
  <1>1. \A u \in Thread : Len(stack'[u]) <= MaxDepth
    BY TriesForm DEF StackGains
  <1>2. ASSUME NEW f \in Frame, OnStack(f)'
        PROVE  \/ f.req \in heap' =>
                    /\ f.req \in heap
                    /\ \E g \in Frame : OnStack(g) /\ Follows(f, g)
               \/ Covers(f)'
    <2>1. PICK u \in Thread : \E i \in DOMAIN stack'[u] : stack'[u][i] = f
      BY <1>2 DEF OnStack
    <2>2. f \in F \/ OnStack(f)
      BY <2>1 DEF StackGains, OnStack
    <2>3. Follows(f, f)
      BY DEF Follows
    <2>4. \A g \in Frame : Follows(f, g) => g.req = f.req
      BY DEF Follows
    <2> QED  BY <2>2, <2>3, <2>4
  <1> QED  BY <1>1, <1>2, TriesStep

\* Moving an activation on counts and sends no frame, outside of "xmit".
LEMMA InFlightSetTop ==
  ASSUME TypeOK, NEW t \in Thread, stack[t] # <<>>, NEW f \in Frame,
         SetTop(t, f), Top(t).at # "xmit", f.at # "xmit"
  PROVE  \A r : InFlight(r)' = InFlight(r)
  <1> TAKE r
  <1>1. \A u \in Thread :
           /\ DOMAIN stack'[u] = DOMAIN stack[u]
           /\ \A k \in DOMAIN stack[u] :
                stack'[u][k] = IF u = t /\ k = Len(stack[t]) THEN f
                               ELSE stack[u][k]
    BY SetTopExact
  <1>2. Top(t) = stack[t][Len(stack[t])]
    BY DEF Top
  <1> QED  BY <1>1, <1>2, InFlightSame DEF Counted

\* Nor does returning.
LEMMA InFlightReturn ==
  ASSUME TypeOK, NEW t \in Thread, stack[t] # <<>>, Return(t),
         Top(t).at # "xmit"
  PROVE  \A r : InFlight(r)' = InFlight(r)
  <1> TAKE r
  <1>1. \A u \in Thread :
           /\ DOMAIN stack'[u] = IF u = t THEN 1..(Len(stack[t]) - 1)
                                 ELSE DOMAIN stack[u]
           /\ \A k \in DOMAIN stack'[u] : stack'[u][k] = stack[u][k]
    BY ReturnExact
  <1>2. /\ Top(t) = stack[t][Len(stack[t])] /\ Len(stack[t]) \in Nat
        /\ DOMAIN stack[t] = 1..Len(stack[t])
    BY DEF Top, TypeOK
  <1>3. \A u \in Thread : \A k \in DOMAIN stack'[u] : k \in DOMAIN stack[u]
    BY <1>1, <1>2
  <1>4. \A u \in Thread : \A k \in DOMAIN stack[u] :
          \/ k \in DOMAIN stack'[u]
          \/ u = t /\ k = Len(stack[t])
    BY <1>1, <1>2
  <1> QED  BY <1>1, <1>2, <1>3, <1>4, InFlightSame DEF Counted

\* Nor does a nested call.
LEMMA InFlightPush ==
  ASSUME TypeOK, NEW t \in Thread, stack[t] # <<>>,
         NEW f \in Frame, NEW g \in Frame, Pushes(t, f, g),
         Top(t).at # "xmit", f.at # "xmit", g.at # "xmit"
  PROVE  /\ \A r : InFlight(r)' = InFlight(r)
         /\ Len(stack'[t]) = Len(stack[t]) + 1
  <1>1. \A u \in Thread :
           /\ DOMAIN stack'[u] = IF u = t THEN 1..(Len(stack[t]) + 1)
                                 ELSE DOMAIN stack[u]
           /\ \A k \in DOMAIN stack[u] :
                /\ k \in DOMAIN stack'[u]
                /\ stack'[u][k] = IF u = t /\ k = Len(stack[t]) THEN f
                                  ELSE stack[u][k]
           /\ u = t => stack'[u][Len(stack[t]) + 1] = g
    BY PushExact
  <1>2. /\ Top(t) = stack[t][Len(stack[t])] /\ Len(stack[t]) \in Nat
        /\ DOMAIN stack[t] = 1..Len(stack[t])
    BY DEF Top, TypeOK
  <1>3. \A u \in Thread : \A k \in DOMAIN stack'[u] :
          k \in DOMAIN stack[u] \/ stack'[u][k] = g
    BY <1>1, <1>2
  <1>4. ASSUME NEW r PROVE InFlight(r)' = InFlight(r)
    BY <1>1, <1>2, <1>3, InFlightSame DEF Counted
  <1>5. stack'[t] \in Seq(Frame)
    <2>1. StackGains(t, {f, g})
      BY PushLemma DEF Pushes
    <2> QED  BY <2>1 DEF StackGains
  <1>6. Len(stack'[t]) \in Nat /\ DOMAIN stack'[t] = 1..Len(stack'[t])
    BY <1>5
  <1>7. Len(stack'[t]) = Len(stack[t]) + 1
    BY <1>1, <1>2, <1>6
  <1> QED  BY <1>4, <1>7

\* Nor does a first call.
LEMMA InFlightFirstCall ==
  ASSUME TypeOK, NEW t \in Thread, stack[t] = <<>>, NEW f \in Frame,
         stack' = [stack EXCEPT ![t] = <<f>>], f.at # "xmit"
  PROVE  /\ \A r : InFlight(r)' = InFlight(r)
         /\ Len(stack'[t]) <= MaxDepth
  <1>1. \A u \in Thread :
           /\ u = t => DOMAIN stack'[u] = {1} /\ stack'[u][1] = f
           /\ u # t => stack'[u] = stack[u]
    BY FirstCallExact
  <1>2. DOMAIN stack[t] = {}
    OBVIOUS
  <1>3. ASSUME NEW r PROVE InFlight(r)' = InFlight(r)
    BY <1>1, <1>2, InFlightSame DEF Counted
  <1>4. stack'[t] = <<f>> /\ Len(<<f>>) = 1
    BY DEF TypeOK
  <1> QED  BY <1>3, <1>4, ConstantsAssumption

\* The stack of a thread that moves its innermost activation on, or returns,
\* does not grow.
LEMMA StackBound ==
  ASSUME TypeOK, TypeOK', TriesCovered, NEW t \in Thread, stack[t] # <<>>,
         Return(t) \/ \E f \in Frame : SetTop(t, f)
  PROVE  Len(stack'[t]) <= MaxDepth
  <1>1. /\ Len(stack[t]) \in Nat /\ DOMAIN stack[t] = 1..Len(stack[t])
        /\ Len(stack'[t]) \in Nat /\ DOMAIN stack'[t] = 1..Len(stack'[t])
    BY DEF TypeOK
  <1>2. Len(stack[t]) <= MaxDepth
    BY TriesForm
  <1>3. \/ DOMAIN stack'[t] = 1..(Len(stack[t]) - 1)
        \/ DOMAIN stack'[t] = DOMAIN stack[t]
    BY ReturnExact, SetTopExact
  <1>4. Len(stack[t]) > 0
    BY <1>1, TopLemma
  <1>5. Len(stack'[t]) <= Len(stack[t])
    BY <1>1, <1>3, <1>4
  <1> QED  BY <1>1, <1>2, <1>5, ConstantsAssumption

\* A step of one thread that counts and sends no frame and makes no request.
LEMMA QuietTries ==
  ASSUME TypeOK, TypeOK', TriesCovered, NEW t \in Thread, NEW F,
         StackGains(t, F), Len(stack'[t]) <= MaxDepth, heap' \subseteq heap,
         \A r \in heap' : /\ reqs'[r].arps = reqs[r].arps
                          /\ reqs'[r].times_sent = reqs[r].times_sent,
         \A r : InFlight(r)' = InFlight(r),
         \A f \in F : Covers(f) \/ \E g \in Frame : OnStack(g) /\ Follows(f, g)
  PROVE  TriesCovered'
  <1>1. \A r \in heap' : Tried(r)' = Tried(r)
    BY DEF Tried
  <1>2. \A r \in ReqId : Tried(r) \in Nat
    BY TriedNat
  <1>3. \A r \in heap \cap heap' : Tried(r)' >= Tried(r)
    BY <1>1, <1>2 DEF TypeOK
  <1>4. ASSUME NEW f, Covers(f) PROVE Covers(f)'
    BY <1>1, <1>4 DEF Covers
  <1> QED  BY <1>3, <1>4, TriesGain

\* The innermost activation is on the stack, and covered.
LEMMA TopCovered ==
  ASSUME TypeOK, TriesCovered, NEW t \in Thread, stack[t] # <<>>
  PROVE  /\ OnStack(Top(t)) /\ Covers(Top(t)) /\ Top(t) \in Frame
         /\ Len(stack[t]) \in 1..MaxDepth
         /\ stack[t][Len(stack[t])] = Top(t)
  <1>1. Top(t) \in Frame /\ Len(stack[t]) \in DOMAIN stack[t]
        /\ stack[t] \in Seq(Frame)
    BY TopLemma
  <1>2. OnStack(Top(t)) /\ stack[t][Len(stack[t])] = Top(t)
    BY <1>1 DEF OnStack, Top
  <1>3. Len(stack[t]) <= MaxDepth
    BY TriesForm
  <1>4. Len(stack[t]) \in 1..MaxDepth
    BY <1>1, <1>3, ConstantsAssumption
  <1> QED  BY <1>1, <1>2, <1>4, TriesForm

\* Steps that leave the stacks alone, count nothing and make no request.
LEMMA SameStackCovered ==
  ASSUME TypeOK, TypeOK', TriesCovered, UNCHANGED stack, heap' \subseteq heap,
         \A r \in heap' : /\ reqs'[r].arps = reqs[r].arps
                          /\ reqs'[r].times_sent = reqs[r].times_sent
  PROVE  TriesCovered'
  <1>1. PICK t \in Thread : TRUE
    BY DEF Thread
  <1>2. StackGains(t, {}) /\ Len(stack'[t]) <= MaxDepth
    BY SameStackLemma, TriesForm
  <1>3. \A r : InFlight(r)' = InFlight(r)
    BY DEF InFlight
  <1> QED  BY <1>2, <1>3, QuietTries

\* The innermost activation moves on without counting or sending.
LEMMA TopMoves ==
  ASSUME TypeOK, TypeOK', TriesCovered, NEW t \in Thread, stack[t] # <<>>,
         NEW f \in Frame, SetTop(t, f), Top(t).at # "xmit", f.at # "xmit",
         heap' = heap,
         \A r \in heap' : /\ reqs'[r].arps = reqs[r].arps
                          /\ reqs'[r].times_sent = reqs[r].times_sent,
         Covers(f) \/ Follows(f, Top(t))
  PROVE  TriesCovered'
  <1>1. StackGains(t, {f}) /\ Len(stack'[t]) <= MaxDepth
    BY SetTopLemma, StackBound
  <1>2. \A r : InFlight(r)' = InFlight(r)
    BY InFlightSetTop
  <1>3. OnStack(Top(t)) /\ Top(t) \in Frame
    BY TopCovered
  <1> QED  BY <1>1, <1>2, <1>3, QuietTries

\* Looking at the time of the last send.
LEMMA CheckCovered ==
  ASSUME Inv, Inv', TriesCovered, NEW t \in Thread, Check(t)
  PROVE  TriesCovered'
  <1>1. TypeOK /\ TypeOK' /\ stack[t] # <<>> /\ Top(t).at = "check"
        /\ heap' = heap /\ reqs' = reqs
    BY DEF Inv, Check, Active, Top, Dangling
  <1>2. PICK r \in ReqId : r = Top(t).req
    BY <1>1, TopLemma
  <1>3. CASE UNCHANGED stack
    BY <1>1, <1>3, SameStackCovered
  <1>4. CASE Return(t)
    <2>1. StackGains(t, {}) /\ Len(stack'[t]) <= MaxDepth
      BY <1>1, <1>4, ReturnLemma, StackBound
    <2>2. \A s : InFlight(s)' = InFlight(s)
      BY <1>1, <1>4, InFlightReturn
    <2> QED  BY <1>1, <2>1, <2>2, QuietTries
  <1>5. CASE SetTop(t, Timed("tries", r, 0))
    <2>1. PICK f \in Frame : f = Timed("tries", r, 0)
      BY ActivationLemma DEF FrameAt, Due
    <2>2. Covers(f) /\ f.at # "xmit"
      BY <2>1 DEF Covers, Timed
    <2> QED  BY <1>1, <1>5, <2>1, <2>2, TopMoves
  <1> QED  BY <1>2, <1>3, <1>4, <1>5 DEF Check, Dangling

\* Giving up: the count is covered, and it has reached Tries.
LEMMA CheckTriesCovered ==
  ASSUME Inv, Inv', TriesCovered, NEW t \in Thread, CheckTries(t)
  PROVE  TriesCovered'
  <1>1. TypeOK /\ TypeOK' /\ stack[t] # <<>> /\ Top(t).at = "tries"
        /\ heap' = heap /\ reqs' = reqs
    BY DEF Inv, CheckTries, Active, Top, Dangling
  <1>2. PICK r \in ReqId : r = Top(t).req
    BY <1>1, TopLemma
  <1>3. CASE UNCHANGED stack
    BY <1>1, <1>3, SameStackCovered
  <1>4. CASE r \in heap /\ GiveUp(r)
             /\ SetTop(t, Discarding("discard", r, Waiting(r), NULL))
    <2>1. Waiting(r) \in Nat
      <3>1. reqs[r].packets \in Seq(Packet)
        BY <1>1 DEF TypeOK, Request
      <3> QED  BY <3>1 DEF Waiting
    <2>2. PICK f \in Frame : f = Discarding("discard", r, Waiting(r), NULL)
      BY <2>1, ActivationLemma DEF FrameAt
    <2>3. reqs[r].times_sent <= Tried(r) /\ reqs[r].times_sent >= Tries
      BY <1>1, <1>4, TriesForm DEF GiveUp
    <2>4. Tried(r) >= Tries
      BY <1>1, <2>3, TriedNat, ConstantsAssumption
    <2>5. Covers(f) /\ f.at # "xmit"
      BY <2>2, <2>4 DEF Covers, Discarding
    <2> QED  BY <1>1, <1>4, <2>2, <2>5, TopMoves
  <1>5. CASE SetTop(t, Timed("resend", r, Top(t).cur))
    <2>1. Top(t).cur \in Nat /\ Top(t).cur <= Due
      <3>1. Top(t) \in Frame
        BY <1>1, TopLemma
      <3> QED  BY <3>1 DEF Frame, Due
    <2>2. PICK f \in Frame : f = Timed("resend", r, Top(t).cur)
      BY <2>1, ActivationLemma DEF FrameAt
    <2>3. Covers(f) /\ f.at # "xmit"
      BY <2>2 DEF Covers, Timed
    <2> QED  BY <1>1, <1>5, <2>2, <2>3, TopMoves
  <1> QED  BY <1>2, <1>3, <1>4, <1>5 DEF CheckTries, Dangling

\* The count that is loaded is covered.
LEMMA ResendCovered ==
  ASSUME Inv, Inv', TriesCovered, NEW t \in Thread, Resend(t)
  PROVE  TriesCovered'
  <1>1. TypeOK /\ TypeOK' /\ stack[t] # <<>> /\ Top(t).at = "resend"
        /\ heap' = heap /\ heap \subseteq ReqId
    BY DEF Inv, TypeOK, Resend, Active, Top, Dangling
  <1>2. PICK r \in ReqId : r = Top(t).req
    BY <1>1, TopLemma
  <1>3. CASE UNCHANGED <<reqs, stack>>
    BY <1>1, <1>3, SameStackCovered
  <1>4. CASE /\ r \in heap /\ reqs' = [reqs EXCEPT ![r].sent = Top(t).cur]
             /\ SetTop(t, Counting("store", r, reqs[r].times_sent))
    <2>1. \A s \in ReqId : /\ reqs'[s].arps = reqs[s].arps
                           /\ reqs'[s].times_sent = reqs[s].times_sent
      BY <1>1, <1>4 DEF TypeOK, Request
    <2>2. PICK f \in Frame : f = Counting("store", r, reqs[r].times_sent)
      BY <1>1, TriedNat, ActivationLemma DEF FrameAt
    <2>3. reqs[r].times_sent <= Tried(r)
      BY <1>1, <1>4, TriesForm
    <2>4. Covers(f) /\ f.at # "xmit"
      BY <2>2, <2>3 DEF Covers, Counting
    <2> QED  BY <1>1, <1>4, <2>1, <2>2, <2>4, TopMoves
  <1> QED  BY <1>2, <1>3, <1>4 DEF Resend, Dangling

\* A turn of the discard loop.
LEMMA DiscardPacketCovered ==
  ASSUME Inv, Inv', TriesCovered, NEW t \in Thread, DiscardPacket(t)
  PROVE  TriesCovered'
  <1>1. TypeOK /\ TypeOK' /\ stack[t] # <<>> /\ Top(t).at = "discard"
        /\ heap' = heap /\ reqs' = reqs /\ Active(t, "discard")
        /\ Top(t).left > 0
    BY DEF Inv, DiscardPacket, Active, Top, Dangling
  <1>2. PICK r \in ReqId : r = Top(t).req
    BY <1>1, TopLemma
  <1>3. CASE Dangling(t, r)
    BY <1>1, <1>3, SameStackCovered DEF Dangling
  <1>4. CASE ~Dangling(t, r)
    <2>1. r \in heap
      BY <1>2, <1>4 DEF DiscardPacket
    <2>2. PICK rest \in Nat : rest = Top(t).left - 1
      BY <1>1, <1>2, <2>1, DiscardLemma
    <2>3. PICK pk \in Packet : pk = reqs[r].packets[Top(t).left]
      BY <1>1, <1>2, <2>1, DiscardLemma
    <2>4. PICK f \in Frame :
            SetTop(t, f) /\ f.at \in {"discard", "enqueue"} /\ f.req = r
      <3>1. pk.src \in IP
        BY DEF Packet
      <3>2. PICK g \in Frame : g = Discarding("discard", r, rest, NULL)
        BY ActivationLemma DEF FrameAt
      <3>3. PICK h \in Frame : h = Discarding("enqueue", r, rest, pk.src)
        BY <3>1, ActivationLemma DEF FrameAt
      <3>4. SetTop(t, g) \/ SetTop(t, h)
        BY <1>2, <1>4, <2>2, <2>3, <3>2, <3>3 DEF DiscardPacket
      <3> QED  BY <3>2, <3>3, <3>4 DEF Discarding
    <2>5. Follows(f, Top(t)) /\ f.at # "xmit"
      BY <1>1, <1>2, <2>4 DEF Follows
    <2> QED  BY <1>1, <2>4, <2>5, TopMoves
  <1> QED  BY <1>3, <1>4

\* A request is freed, by a discard loop or by main's.
LEMMA DestroyCovered ==
  ASSUME Inv, NEW r \in ReqId, Destroy(r)
  PROVE  /\ heap' \subseteq heap
         /\ \A s \in heap' : /\ reqs'[s].arps = reqs[s].arps
                             /\ reqs'[s].times_sent = reqs[s].times_sent
  BY DEF Inv, TypeOK, Destroy

\* The end of a discard loop.
LEMMA DiscardDoneCovered ==
  ASSUME Inv, Inv', TriesCovered, NEW t \in Thread, DiscardDone(t)
  PROVE  TriesCovered'
  <1>1. TypeOK /\ TypeOK' /\ stack[t] # <<>> /\ Top(t).at = "discard"
    BY DEF Inv, DiscardDone, Active, Top
  <1>2. PICK r \in ReqId : r = Top(t).req
    BY <1>1, TopLemma
  <1>3. CASE Dangling(t, r)
    BY <1>1, <1>3, SameStackCovered DEF Dangling
  <1>4. CASE Destroy(r) /\ Return(t)
    <2>1. StackGains(t, {}) /\ Len(stack'[t]) <= MaxDepth
      BY <1>1, <1>4, ReturnLemma, StackBound
    <2>2. \A s : InFlight(s)' = InFlight(s)
      BY <1>1, <1>4, InFlightReturn
    <2> QED  BY <1>1, <1>4, <2>1, <2>2, DestroyCovered, QuietTries
  <1> QED  BY <1>2, <1>3, <1>4 DEF DiscardDone

\* The count is written back: the activation is about to send the frame that
\* it counts.
LEMMA StoreCovered ==
  ASSUME Inv, Inv', TriesCovered, NEW t \in Thread, Store(t)
  PROVE  TriesCovered'
  <1>1. TypeOK /\ TypeOK' /\ stack[t] # <<>> /\ Top(t).at = "store"
        /\ heap' = heap /\ heap \subseteq ReqId
    BY DEF Inv, TypeOK, Store, Active, Top, Dangling
  <1>2. PICK r \in ReqId : r = Top(t).req
    BY <1>1, TopLemma
  <1>3. PICK seen \in Nat : seen = Top(t).seen
    <2>1. Top(t) \in Frame
      BY <1>1, TopLemma
    <2> QED  BY <2>1 DEF Frame
  <1>4. PICK n \in 1..MaxDepth : n = Len(stack[t]) /\ stack[t][n] = Top(t)
    BY <1>1, TopCovered
  <1>5. PICK f \in Frame : f = Counting("xmit", r, 0)
    BY ActivationLemma DEF FrameAt
  <1>6. f.at = "xmit" /\ f.req = r
    BY <1>5 DEF Counting
  <1>7. CASE Dangling(t, r)
    BY <1>1, <1>7, SameStackCovered DEF Dangling
  <1>8. CASE /\ r \in heap
             /\ reqs' = [reqs EXCEPT ![r].times_sent = seen + 1]
             /\ SetTop(t, f)
    <2>1. /\ \A s \in ReqId : reqs'[s].arps = reqs[s].arps
          /\ \A s \in ReqId \ {r} : reqs'[s].times_sent = reqs[s].times_sent
          /\ reqs'[r].times_sent = seen + 1
      BY <1>1, <1>8 DEF TypeOK, Request
    <2>2. \A u \in Thread :
             /\ DOMAIN stack'[u] = DOMAIN stack[u]
             /\ \A k \in DOMAIN stack[u] :
                  stack'[u][k] = IF u = t /\ k = n THEN f ELSE stack[u][k]
      BY <1>1, <1>4, <1>8, SetTopExact
    <2>3. ASSUME NEW s \in ReqId, s # r PROVE InFlight(s)' = InFlight(s)
      BY <1>1, <1>4, <1>6, <2>2, <2>3, InFlightSame DEF Counted
    <2>4. n \in DOMAIN stack[t]
      BY <1>1, <1>4, TopLemma
    <2>5. <<t, n>> \notin InFlight(r)
      BY <1>1, <1>4, InFlightForm DEF Counted
    <2>6. InFlight(r)' = InFlight(r) \cup {<<t, n>>}
      <3>1. \A u \in Thread, k \in 1..MaxDepth :
              <<u, k>> \in InFlight(r)' <=>
                <<u, k>> \in InFlight(r) \/ (u = t /\ k = n)
        <4> TAKE u \in Thread, k \in 1..MaxDepth
        <4>1. CASE u = t /\ k = n
          <5>1. k \in DOMAIN stack'[u] /\ Counted(stack'[u][k], r)
            BY <1>6, <2>2, <2>4, <4>1 DEF Counted
          <5> QED  BY <4>1, <5>1, InFlightFormNext
        <4>2. CASE ~(u = t /\ k = n)
          <5>1. k \in DOMAIN stack'[u] /\ Counted(stack'[u][k], r)
                  <=> k \in DOMAIN stack[u] /\ Counted(stack[u][k], r)
            BY <2>2, <4>2 DEF Counted
          <5> QED  BY <4>2, <5>1, InFlightForm, InFlightFormNext
        <4> QED  BY <4>1, <4>2
      <3>2. /\ InFlight(r) \subseteq Thread \X (1..MaxDepth)
            /\ InFlight(r)' \subseteq Thread \X (1..MaxDepth)
        BY DEF InFlight
      <3> QED  BY <3>1, <3>2
    <2>7. Cardinality(InFlight(r)') = Cardinality(InFlight(r)) + 1
      <3>1. PICK S : S = InFlight(r)
        OBVIOUS
      <3>2. IsFiniteSet(S)
        BY <3>1, InFlightFinite
      <3>3. Cardinality(S \cup {<<t, n>>}) = Cardinality(S) + 1
        BY <2>5, <3>1, <3>2, FS_AddElement
      <3> QED  BY <2>6, <3>1, <3>3
    <2>8. /\ reqs[r].arps \in Nat /\ Cardinality(InFlight(r)) \in Nat
          /\ Tried(r) \in Nat
      BY <1>1, InFlightFinite, TriedNat DEF TypeOK, Request
    <2>9. Tried(r)' = Tried(r) + 1
      BY <2>1, <2>7, <2>8 DEF Tried
    <2>10. \A s \in heap : s # r => Tried(s)' = Tried(s)
      BY <1>1, <2>1, <2>3 DEF Tried
    <2>11. \A s \in heap \cap heap' : Tried(s)' >= Tried(s)
      BY <1>1, <2>8, <2>9, <2>10, TriedNat
    <2>12. seen <= Tried(r)
      BY <1>1, <1>2, <1>3, <1>8, TopCovered DEF Covers
    <2>13. \A s \in heap' :
             \/ s \in heap /\ reqs'[s].times_sent = reqs[s].times_sent
             \/ reqs'[s].times_sent <= Tried(s)'
      BY <1>1, <2>1, <2>8, <2>9, <2>12
    <2>14. StackGains(t, {f}) /\ Len(stack'[t]) <= MaxDepth
      BY <1>1, <1>8, SetTopLemma, StackBound
    <2>15. Covers(f)'
      BY <1>6 DEF Covers
    <2> QED  BY <1>1, <2>11, <2>13, <2>14, <2>15, TriesGain
  <1> QED  BY <1>2, <1>3, <1>5, <1>7, <1>8 DEF Store

\* The frame is sent: it is no longer about to be.
LEMMA XmitCovered ==
  ASSUME Inv, Inv', TriesCovered, NEW t \in Thread, Xmit(t)
  PROVE  TriesCovered'
  <1>1. TypeOK /\ TypeOK' /\ stack[t] # <<>> /\ Top(t).at = "xmit"
        /\ heap' = heap /\ heap \subseteq ReqId /\ Return(t)
    BY DEF Inv, TypeOK, Xmit, Active, Top
  <1>2. PICK r \in ReqId : r = Top(t).req
    BY <1>1, TopLemma
  <1>3. PICK n \in 1..MaxDepth : n = Len(stack[t]) /\ stack[t][n] = Top(t)
    BY <1>1, TopCovered
  <1>4. reqs' = IF r \in heap THEN [reqs EXCEPT ![r].arps = @ + 1] ELSE reqs
    BY <1>2 DEF Xmit
  <1>5. /\ \A s \in ReqId : reqs'[s].times_sent = reqs[s].times_sent
        /\ \A s \in ReqId \ {r} : reqs'[s].arps = reqs[s].arps
        /\ r \in heap => reqs'[r].arps = reqs[r].arps + 1
    <2>1. CASE r \in heap
      BY <1>1, <1>4, <2>1 DEF TypeOK, Request
    <2>2. CASE r \notin heap
      BY <1>4, <2>2
    <2> QED  BY <2>1, <2>2
  <1>6. \A u \in Thread :
           /\ DOMAIN stack'[u] = IF u = t THEN 1..(n - 1) ELSE DOMAIN stack[u]
           /\ \A k \in DOMAIN stack'[u] : stack'[u][k] = stack[u][k]
    BY <1>1, <1>3, ReturnExact
  <1>7. n \in DOMAIN stack[t] /\ DOMAIN stack[t] = 1..n
    <2>1. stack[t] \in Seq(Frame)
      BY <1>1, TopLemma
    <2> QED  BY <1>3, <2>1
  <1>8. \A u \in Thread : \A k :
          k \in DOMAIN stack'[u] <=> k \in DOMAIN stack[u] /\ ~(u = t /\ k = n)
    BY <1>6, <1>7
  <1>9. ASSUME NEW s \in ReqId, s # r PROVE InFlight(s)' = InFlight(s)
    BY <1>2, <1>3, <1>6, <1>8, <1>9, InFlightSame DEF Counted
  <1>10. <<t, n>> \in InFlight(r)
    BY <1>1, <1>2, <1>3, <1>7, InFlightForm DEF Counted
  <1>11. InFlight(r)' = InFlight(r) \ {<<t, n>>}
    <2>1. \A u \in Thread, k \in 1..MaxDepth :
            <<u, k>> \in InFlight(r)' <=>
              <<u, k>> \in InFlight(r) /\ ~(u = t /\ k = n)
      BY <1>6, <1>8, InFlightForm, InFlightFormNext
    <2>2. /\ InFlight(r) \subseteq Thread \X (1..MaxDepth)
          /\ InFlight(r)' \subseteq Thread \X (1..MaxDepth)
      BY DEF InFlight
    <2> QED  BY <2>1, <2>2
  <1>12. Cardinality(InFlight(r)') = Cardinality(InFlight(r)) - 1
    <2>1. PICK S : S = InFlight(r)
      OBVIOUS
    <2>2. IsFiniteSet(S)
      BY <2>1, InFlightFinite
    <2>3. Cardinality(S \ {<<t, n>>}) = Cardinality(S) - 1
      BY <1>10, <2>1, <2>2, FS_RemoveElement
    <2> QED  BY <1>11, <2>1, <2>3
  <1>13. /\ reqs[r].arps \in Nat /\ Cardinality(InFlight(r)) \in Nat
    BY <1>1, InFlightFinite DEF TypeOK, Request
  <1>14. r \in heap => Tried(r)' = Tried(r)
    BY <1>5, <1>12, <1>13 DEF Tried
  <1>15. \A s \in heap : s # r => Tried(s)' = Tried(s)
    BY <1>1, <1>5, <1>9 DEF Tried
  <1>16. \A s \in heap \cap heap' : Tried(s)' >= Tried(s)
    BY <1>1, <1>14, <1>15, TriedNat
  <1>17. StackGains(t, {}) /\ Len(stack'[t]) <= MaxDepth
    BY <1>1, ReturnLemma, StackBound
  <1> QED  BY <1>1, <1>5, <1>16, <1>17, TriesGain

\* sr_arpcache_queuereq keeps the counts; a new request has none, and nobody
\* points to it yet.
LEMMA QueueReqCounts ==
  ASSUME Inv, NEW ip \in IP, NEW pk \in Packet, NEW r \in ReqId,
         QueueReq(ip, pk, r)
  PROVE  /\ \A s \in heap : /\ reqs'[s].arps = reqs[s].arps
                            /\ reqs'[s].times_sent = reqs[s].times_sent
         /\ \A s \in heap' : s \in heap \/ reqs'[s].times_sent = 0
         /\ \A f \in Frame : OnStack(f) /\ f.req \in heap' => f.req \in heap
  <1>1. /\ heap \subseteq ReqId /\ reqs \in [ReqId -> Request]
    BY DEF Inv, TypeOK
  <1>2. CASE /\ reqs' = [reqs EXCEPT ![r].packets = Append(@, pk)]
             /\ heap' = heap
    <2>1. \A s \in ReqId : /\ reqs'[s].arps = reqs[s].arps
                           /\ reqs'[s].times_sent = reqs[s].times_sent
      BY <1>1, <1>2 DEF Request
    <2> QED  BY <1>1, <1>2, <2>1
  <1>3. CASE /\ Fresh # {} /\ r = CHOOSE x \in Fresh : TRUE
             /\ heap' = heap \cup {r}
             /\ reqs' = [reqs EXCEPT ![r] =
                           [Blank(ip) EXCEPT !.packets = <<pk>>]]
    <2>1. r \notin heap /\ ~Referenced(r)
      BY <1>3 DEF Fresh
    <2>2. /\ reqs'[r] = [Blank(ip) EXCEPT !.packets = <<pk>>]
          /\ \A s \in ReqId \ {r} : reqs'[s] = reqs[s]
      BY <1>1, <1>3
    <2>3. reqs'[r].times_sent = 0
      BY <2>2 DEF Blank
    <2>4. \A f \in Frame : OnStack(f) => f.req # r
      BY <2>1 DEF OnStack, Referenced
    <2> QED  BY <1>1, <1>3, <2>1, <2>2, <2>3, <2>4
  <1> QED  BY <1>2, <1>3 DEF QueueReq

\* A packet is queued and the request handled, by main or by a nested call.
LEMMA QueueReqCovered ==
  ASSUME Inv, Inv', TriesCovered, NEW ip \in IP, NEW pk \in Packet,
         NEW r \in ReqId, QueueReq(ip, pk, r), NEW t \in Thread, NEW F,
         StackGains(t, F), Len(stack'[t]) <= MaxDepth,
         \A s : InFlight(s)' = InFlight(s),
         \A f \in F : \/ f.at = "check"
                      \/ \E g \in Frame : OnStack(g) /\ Follows(f, g)
  PROVE  TriesCovered'
  <1>1. TypeOK /\ TypeOK' /\ heap \subseteq ReqId /\ heap' \subseteq ReqId
    BY DEF Inv, TypeOK
  <1>2. /\ \A s \in heap : /\ reqs'[s].arps = reqs[s].arps
                           /\ reqs'[s].times_sent = reqs[s].times_sent
        /\ \A s \in heap' : s \in heap \/ reqs'[s].times_sent = 0
        /\ \A f \in Frame : OnStack(f) /\ f.req \in heap' => f.req \in heap
    BY QueueReqCounts
  <1>3. \A s \in heap : Tried(s)' = Tried(s)
    BY <1>2 DEF Tried
  <1>4. \A s \in heap \cap heap' : Tried(s)' >= Tried(s)
    BY <1>1, <1>3, TriedNat
  <1>5. \A s \in heap' :
          \/ s \in heap /\ reqs'[s].times_sent = reqs[s].times_sent
          \/ reqs'[s].times_sent <= Tried(s)'
    BY <1>1, <1>2, TriedNatNext
  <1>6. \A f \in F : f.at = "check" => Covers(f)'
    BY DEF Covers
  <1> QED  BY <1>1, <1>2, <1>4, <1>5, <1>6, TriesGain

\* The recursive call.
LEMMA EnqueueCovered ==
  ASSUME Inv, Inv', TriesCovered, NEW t \in Thread, Enqueue(t)
  PROVE  TriesCovered'
  <1>1. TypeOK /\ stack[t] # <<>> /\ Top(t).at = "enqueue"
    BY DEF Inv, Enqueue, Active, Top
  <1>2. /\ Top(t) \in Frame /\ Top(t).req \in ReqId /\ Top(t).left \in Nat
        /\ Len(stack[t]) \in DOMAIN stack[t]
    BY <1>1, TopLemma DEF Frame
  <1>3. Top(t).dst \in IP /\ RouterIp[Top(t).dst] # NULL
    BY <1>1, <1>2 DEF Inv, ActivationsOK, ActivationOK, Top
  <1>4. PICK pk \in Packet : pk = [pkt |-> NULL, src |-> RouterIp[Top(t).dst]]
    BY <1>3, RouterIpAssumption DEF Packet
  <1>5. PICK f \in Frame : f = Discarding("discard", Top(t).req, Top(t).left,
                                          NULL)
    BY <1>2, ActivationLemma DEF FrameAt
  <1>6. PICK r \in ReqId :
          /\ QueueReq(Top(t).dst, pk, r)
          /\ \/ UNCHANGED stack
             \/ Pushes(t, f, Call(r)) /\ Len(stack[t]) # MaxDepth
    BY <1>4, <1>5 DEF Enqueue, Pushes
  <1>7. CASE UNCHANGED stack
    <2>1. StackGains(t, {}) /\ Len(stack'[t]) <= MaxDepth
      BY <1>1, <1>7, SameStackLemma, TriesForm
    <2>2. \A s : InFlight(s)' = InFlight(s)
      BY <1>7 DEF InFlight
    <2> QED  BY <1>3, <1>6, <2>1, <2>2, QueueReqCovered
  <1>8. CASE Pushes(t, f, Call(r)) /\ Len(stack[t]) # MaxDepth
    <2>1. PICK g \in Frame : g = Call(r)
      BY ActivationLemma
    <2>2. f.at = "discard" /\ g.at = "check"
      BY <1>5, <2>1 DEF Discarding, Call, Timed
    <2>3. /\ \A s : InFlight(s)' = InFlight(s)
          /\ Len(stack'[t]) = Len(stack[t]) + 1
      BY <1>1, <1>8, <2>1, <2>2, InFlightPush
    <2>4. Len(stack'[t]) <= MaxDepth
      <3>1. Len(stack[t]) \in 1..MaxDepth
        BY <1>1, TopCovered
      <3> QED  BY <1>8, <2>3, <3>1, ConstantsAssumption
    <2>5. StackGains(t, {f, g})
      BY <1>1, <1>8, <2>1, PushLemma DEF Pushes
    <2>6. Follows(f, Top(t))
      BY <1>1, <1>5 DEF Follows, Discarding
    <2>7. OnStack(Top(t))
      BY <1>1, TopCovered
    <2>8. \A h \in {f, g} : \/ h.at = "check"
                            \/ \E k \in Frame : OnStack(k) /\ Follows(h, k)
      BY <1>2, <2>2, <2>6, <2>7
    <2> QED  BY <1>3, <1>6, <2>3, <2>4, <2>5, <2>8, QueueReqCovered
  <1> QED  BY <1>6, <1>7, <1>8

\* Main queues its packet and calls handle_arpreq.
LEMMA MainQueueCovered ==
  ASSUME Inv, Inv', TriesCovered, MainQueue
  PROVE  TriesCovered'
  <1>1. TypeOK /\ job.at = "queue" /\ "main" \in Thread
    BY DEF Inv, MainQueue, Thread
  <1>2. job \in [at : {"queue"}, pkt : Pkt, src : IP, hop : IP]
    BY <1>1 DEF TypeOK, Job, Idle
  <1>3. stack["main"] = <<>>
    BY <1>1 DEF Inv, MainDoesOneThing, Idle
  <1>4. PICK pk \in Packet : pk = [pkt |-> job.pkt, src |-> job.src]
    BY <1>2 DEF Packet
  <1>5. PICK r \in ReqId :
          /\ QueueReq(job.hop, pk, r)
          /\ stack' = [stack EXCEPT !["main"] = <<Call(r)>>]
    BY <1>4 DEF MainQueue
  <1>6. PICK f \in Frame : f = Call(r)
    BY ActivationLemma
  <1>7. f.at = "check"
    BY <1>6 DEF Call, Timed
  <1>8. StackGains("main", {f})
    BY <1>1, <1>5, <1>6, FirstCallLemma
  <1>9. /\ \A s : InFlight(s)' = InFlight(s)
        /\ Len(stack'["main"]) <= MaxDepth
    BY <1>1, <1>3, <1>5, <1>6, <1>7, InFlightFirstCall
  <1> QED  BY <1>1, <1>2, <1>5, <1>7, <1>8, <1>9, QueueReqCovered

\* The sweep calls handle_arpreq.
LEMMA VisitCovered ==
  ASSUME Inv, Inv', TriesCovered, Visit
  PROVE  TriesCovered'
  <1>1. /\ TypeOK /\ TypeOK' /\ stack["timeout"] = <<>> /\ "timeout" \in Thread
        /\ UNCHANGED <<heap, reqs>>
    BY DEF Inv, Visit, Thread
  <1>2. CASE UNCHANGED stack
    BY <1>1, <1>2, SameStackCovered
  <1>3. CASE /\ cursor \in heap
             /\ stack' = [stack EXCEPT !["timeout"] = <<Call(cursor)>>]
    <2>1. PICK f \in Frame : f = Call(cursor)
      BY <1>1, <1>3, ActivationLemma DEF TypeOK
    <2>2. f.at = "check"
      BY <2>1 DEF Call, Timed
    <2>3. StackGains("timeout", {f})
      BY <1>1, <1>3, <2>1, FirstCallLemma
    <2>4. /\ \A s : InFlight(s)' = InFlight(s)
          /\ Len(stack'["timeout"]) <= MaxDepth
      BY <1>1, <1>3, <2>1, <2>2, InFlightFirstCall
    <2>5. Covers(f)
      BY <2>2 DEF Covers
    <2> QED  BY <1>1, <2>3, <2>4, <2>5, QuietTries
  <1> QED  BY <1>2, <1>3 DEF Visit

\* A second changes no count.
LEMMA TickCovered ==
  ASSUME Inv, Inv', TriesCovered, Tick
  PROVE  TriesCovered'
  <1>1. TypeOK /\ TypeOK' /\ UNCHANGED heap /\ heap \subseteq ReqId
    BY DEF Inv, TypeOK, Tick
  <1>2. \A r \in ReqId : /\ reqs'[r].arps = reqs[r].arps
                         /\ reqs'[r].times_sent = reqs[r].times_sent
    BY <1>1 DEF Tick, TypeOK, Request
  <1>3. \A t \in Thread :
          /\ DOMAIN stack'[t] = DOMAIN stack[t]
          /\ \A i \in DOMAIN stack[t] :
               /\ stack'[t][i].at = stack[t][i].at
               /\ stack'[t][i].req = stack[t][i].req
    BY <1>1, TickLemma
  <1>4. \A t \in Thread : \A i \in DOMAIN stack[t] :
          stack'[t][i].seen = stack[t][i].seen
    <2> SUFFICES ASSUME NEW t \in Thread, NEW i \in DOMAIN stack[t]
                 PROVE  stack'[t][i].seen = stack[t][i].seen
      OBVIOUS
    <2>1. PICK f \in Frame : f = stack[t][i]
      BY <1>1 DEF TypeOK
    <2>2. \/ stack'[t][i] = [f EXCEPT !.cur = Older(@, Due)]
          \/ stack'[t][i] = f
      BY <2>1 DEF Tick
    <2> QED  BY <2>1, <2>2 DEF Frame
  <1>5. \A r : InFlight(r)' = InFlight(r)
    BY <1>3, InFlightSame DEF Counted
  <1>6. \A r \in heap : Tried(r)' = Tried(r)
    BY <1>1, <1>2, <1>5 DEF Tried
  <1>7. \A r \in heap \cap heap' : Tried(r)' >= Tried(r)
    BY <1>1, <1>6, TriedNat
  <1>8. \A t \in Thread : Len(stack'[t]) <= MaxDepth
    <2> SUFFICES ASSUME NEW t \in Thread PROVE Len(stack'[t]) <= MaxDepth
      OBVIOUS
    <2>1. /\ Len(stack[t]) \in Nat /\ DOMAIN stack[t] = 1..Len(stack[t])
          /\ Len(stack'[t]) \in Nat /\ DOMAIN stack'[t] = 1..Len(stack'[t])
      BY <1>1 DEF TypeOK
    <2>2. Len(stack'[t]) = Len(stack[t])
      BY <1>3, <2>1
    <2> QED  BY <1>1, <2>2, TriesForm
  <1>9. ASSUME NEW f \in Frame, OnStack(f)'
        PROVE  \E g \in Frame : OnStack(g) /\ Follows(f, g)
    <2>1. PICK t \in Thread : \E i \in DOMAIN stack'[t] : stack'[t][i] = f
      BY <1>9 DEF OnStack
    <2>2. PICK i \in DOMAIN stack[t] : stack'[t][i] = f
      BY <1>3, <2>1
    <2>3. PICK g \in Frame : g = stack[t][i]
      BY <1>1 DEF TypeOK
    <2> QED  BY <1>3, <1>4, <2>2, <2>3 DEF OnStack, Follows
  <1> QED  BY <1>1, <1>2, <1>7, <1>8, <1>9, TriesStep

\* Steps of main and of the timeout thread outside of handle_arpreq that call
\* nothing.
LEMMA IdleCovered ==
  ASSUME Inv, Inv', TriesCovered,
         \/ \E p \in Pkt, flow \in Traffic : Submit(p, flow)
         \/ \E ip \in Repliers, mac \in Mac : Reply(ip, mac)
         \/ Flush \/ FlushDone \/ Wake \/ Rest \/ UNCHANGED vars
  PROVE  TriesCovered'
  <1>1. TypeOK /\ TypeOK'
    BY DEF Inv
  <1>2. CASE FlushDone
    <2>1. job.req \in ReqId /\ Destroy(job.req) /\ UNCHANGED stack
      BY <1>1, <1>2 DEF FlushDone, TypeOK, Job, Idle
    <2> QED  BY <1>1, <2>1, DestroyCovered, SameStackCovered
  <1>3. CASE UNCHANGED <<stack, heap, reqs>>
    BY <1>1, <1>3, SameStackCovered
  <1> QED  BY <1>2, <1>3 DEF Submit, Reply, Flush, Wake, Rest, vars

\* Every step of the program keeps TriesCovered.
LEMMA NextCovered ==
  ASSUME Inv, TriesCovered, [Next]_vars
  PROVE  TriesCovered'
  <1>1. Inv'
    BY NextInv
  <1>2. ASSUME NEW t \in Thread, HandleArpreq(t) PROVE TriesCovered'
    BY <1>1, <1>2, CheckCovered, CheckTriesCovered, ResendCovered,
       StoreCovered, XmitCovered, DiscardPacketCovered, EnqueueCovered,
       DiscardDoneCovered DEF HandleArpreq
  <1>3. CASE MainStep
    <2>1. "main" \in Thread
      BY DEF Thread
    <2> QED  BY <1>1, <1>2, <1>3, <2>1, MainQueueCovered, IdleCovered
                DEF MainStep
  <1>4. CASE TimeoutStep
    <2>1. "timeout" \in Thread
      BY DEF Thread
    <2> QED  BY <1>1, <1>2, <1>4, <2>1, VisitCovered, IdleCovered
                DEF TimeoutStep
  <1>5. CASE Tick
    BY <1>1, <1>5, TickCovered
  <1>6. CASE Crashed \/ UNCHANGED vars
    BY <1>1, <1>6, IdleCovered DEF Crashed
  <1> QED  BY <1>3, <1>4, <1>5, <1>6 DEF Next

\* sr_arpcache_init: nothing is counted.
LEMMA InitCovered == Init => TriesCovered
  <1> SUFFICES ASSUME Init PROVE TriesCovered
    OBVIOUS
  <1>1. /\ TypeOK /\ heap = {} /\ \A t \in Thread : stack[t] = <<>>
    BY InitTypeOK DEF Init
  <1>2. \A t \in Thread : Len(stack[t]) = 0 /\ DOMAIN stack[t] = {}
    BY <1>1
  <1>3. \A f \in Frame : ~OnStack(f)
    BY <1>2 DEF OnStack
  <1>4. \A t \in Thread : Len(stack[t]) <= MaxDepth
    BY <1>2, ConstantsAssumption
  <1> QED  BY <1>1, <1>3, <1>4, TriesForm

\* req->times_sent never runs ahead of the ARP requests sent or about to be,
\* although both threads increment it without a lock, and the nesting of calls
\* stays within MaxDepth until "stack" is reported.
THEOREM TriesStayCovered == Spec => []TriesCovered
  <1>1. Init => TriesCovered
    BY InitCovered
  <1>2. Inv /\ TriesCovered /\ [Next]_vars => TriesCovered'
    BY NextCovered
  <1> QED  BY <1>1, <1>2, InvHolds, PTL DEF Spec

\* sr_arpcache_handle_arpreq gives an address up only when as many ARP
\* requests as it counts were sent, up to those a thread is about to send:
\* lost increments delay it, nothing hastens it.
THEOREM NotGivenUpEarly == Spec => []TriesBeforeGivingUp
  <1>1. TriesCovered => TriesBeforeGivingUp
    BY DEF TriesCovered
  <1> QED  BY <1>1, TriesStayCovered, PTL

-----------------------------------------------------------------------------
(* A lone sweep. *)

\* The timeout thread's activations in a lone sweep.
Descent == SweepQueued /\ SweepGivesUp /\ SweepDescends /\ SweepRevisits

\* The activations of the timeout thread.
ASweep == stack["timeout"]

\* Nothing on the way down works on the request of the innermost activation.
TopAlone ==
  \A i \in DOMAIN ASweep : i < Len(ASweep) => ASweep[i].req # Top("timeout").req

\* The stack of the timeout thread is a sequence of activations.
LEMMA SweepTypes ==
  ASSUME TypeOK
  PROVE  /\ ASweep \in Seq(Frame) /\ Len(ASweep) \in Nat
         /\ DOMAIN ASweep = 1..Len(ASweep)
         /\ \A i \in DOMAIN ASweep :
              /\ ASweep[i] \in Frame /\ ASweep[i].req \in ReqId
              /\ ASweep[i].left \in Nat
         /\ "timeout" \in Thread
  <1>1. ASweep \in Seq(Frame) /\ "timeout" \in Thread
    BY DEF TypeOK, ASweep, Thread
  <1>2. \A f \in Frame : f.req \in ReqId /\ f.left \in Nat
    BY DEF Frame
  <1> QED  BY <1>1, <1>2

\* The innermost activation is the last of the sequence.
LEMMA SweepTop ==
  ASSUME TypeOK, ASweep # <<>>
  PROVE  /\ Len(ASweep) \in DOMAIN ASweep /\ ASweep[Len(ASweep)] = Top("timeout")
         /\ Top("timeout") \in Frame /\ Top("timeout").req \in ReqId
         /\ \A i \in DOMAIN ASweep : i <= Len(ASweep)
  BY SweepTypes DEF ASweep, Top

\* What the sweep works on is on the queue, so allocated.
LEMMA SweepAllocated ==
  ASSUME Inv, Descent, NEW i \in DOMAIN ASweep
  PROVE  ASweep[i].req \in heap
  BY DEF Inv, QueueSound, Descent, SweepQueued, ASweep

\* Requests the sweep works on are told apart by their addresses.
LEMMA SweepAddresses ==
  ASSUME Inv, Descent, NEW i \in DOMAIN ASweep, NEW j \in DOMAIN ASweep,
         reqs[ASweep[i].req].ip = reqs[ASweep[j].req].ip
  PROVE  ASweep[i].req = ASweep[j].req
  BY DEF Inv, QueueSound, Descent, SweepQueued, ASweep

\* The stacks after the innermost activation of the sweep has moved on to f.
LEMMA SweepSetTop ==
  ASSUME TypeOK, ASweep # <<>>, NEW f \in Frame, SetTop("timeout", f)
  PROVE  /\ stack'["main"] = stack["main"]
         /\ DOMAIN ASweep' = DOMAIN ASweep /\ Len(ASweep') = Len(ASweep)
         /\ \A i \in DOMAIN ASweep :
              ASweep'[i] = IF i = Len(ASweep) THEN f ELSE ASweep[i]
  <1> DEFINE s == [ASweep EXCEPT ![Len(ASweep)] = f]
  <1>1. /\ s \in Seq(Frame) /\ DOMAIN s = DOMAIN ASweep
        /\ \A i \in DOMAIN ASweep :
             s[i] = IF i = Len(ASweep) THEN f ELSE ASweep[i]
    BY SweepTypes, LastLemma
  <1>2. ASweep' = s /\ stack'["main"] = stack["main"]
    BY DEF SetTop, ASweep, TypeOK, Thread
  <1>3. Len(s) = Len(ASweep)
    BY <1>1, SweepTypes
  <1> QED  BY <1>1, <1>2, <1>3

\* The innermost activation moves on, to f.
LEMMA DescentSetTop ==
  ASSUME Inv, TypeOK', Descent, ASweep # <<>>, NEW f \in Frame, SetTop("timeout", f),
         f.req = Top("timeout").req, UNCHANGED <<entries, requests>>,
         \A r \in ReqId : /\ reqs'[r].ip = reqs[r].ip
                          /\ reqs'[r].packets = reqs[r].packets,
         \A i \in DOMAIN ASweep : i < Len(ASweep) =>
           /\ reqs'[ASweep[i].req].sent = reqs[ASweep[i].req].sent
           /\ reqs'[ASweep[i].req].times_sent = reqs[ASweep[i].req].times_sent,
         f.at \in {"tries", "discard", "enqueue"} => reqs'[f.req].sent = Due,
         f.at \in {"discard", "enqueue"} => reqs'[f.req].times_sent >= Tries,
         f.at = "enqueue" => LeadsTo(f, f.dst),
         \A i \in DOMAIN ASweep : i < Len(ASweep) /\ ASweep[i].req = f.req =>
           /\ f.at \in {"check", "tries", "discard", "enqueue"}
           /\ f.at \in {"discard", "enqueue"} => ASweep[i].left <= f.left
           /\ f.at = "discard" => ASweep[i].left < f.left
  PROVE  Descent' /\ stack'["main"] = stack["main"]
  <1>0. TypeOK
    BY DEF Inv
  <1> DEFINE n == Len(ASweep)
  <1>1. /\ stack'["main"] = stack["main"]
        /\ DOMAIN ASweep' = DOMAIN ASweep /\ Len(ASweep') = n
        /\ \A i \in DOMAIN ASweep :
             ASweep'[i] = IF i = n THEN f ELSE ASweep[i]
    BY <1>0, SweepSetTop
  <1>2. /\ n \in DOMAIN ASweep /\ n \in Nat /\ DOMAIN ASweep = 1..n
        /\ ASweep[n] = Top("timeout") /\ ASweep[n].req = f.req
        /\ \A i \in DOMAIN ASweep :
             ASweep[i] \in Frame /\ ASweep[i].req \in ReqId /\ i <= n
    BY <1>0, SweepTop, SweepTypes
  <1> HIDE DEF n
  <1>3. \A i \in DOMAIN ASweep : ASweep'[i].req = ASweep[i].req
    BY <1>1, <1>2
  <1>4. \A g, ip : g.req \in ReqId /\ LeadsTo(g, ip) => LeadsTo(g, ip)'
    BY DEF LeadsTo, Cached
  <1>5. SweepQueued'
    BY <1>1, <1>3 DEF Descent, SweepQueued, ASweep
  <1>6. SweepGivesUp'
    <2> SUFFICES ASSUME NEW i \in DOMAIN ASweep
                 PROVE  /\ ASweep'[i].at \in {"tries", "discard", "enqueue"} =>
                             reqs'[ASweep'[i].req].sent = Due
                        /\ ASweep'[i].at \in {"discard", "enqueue"} =>
                             reqs'[ASweep'[i].req].times_sent >= Tries
      BY <1>1 DEF SweepGivesUp, GiveUp, ASweep
    <2>1. CASE i = n
      BY <1>1, <2>1
    <2>2. CASE i # n
      <3>1. i < n /\ ASweep'[i] = ASweep[i]
        BY <1>1, <1>2, <2>2
      <3> QED  BY <3>1 DEF Descent, SweepGivesUp, GiveUp, ASweep, n
    <2> QED  BY <2>1, <2>2
  <1>7. SweepDescends'
    <2>1. ASSUME NEW i \in DOMAIN ASweep, ASweep'[i].at = "enqueue"
          PROVE  LeadsTo(ASweep[i], ASweep[i].dst)'
      <3>1. PICK g \in Frame : g = ASweep'[i]
        BY <1>1, <1>2
      <3>2. LeadsTo(g, g.dst) /\ g.req \in ReqId
        BY <1>1, <1>2, <2>1, <3>1 DEF Descent, SweepDescends, ASweep
      <3> QED  BY <1>4, <3>1, <3>2
    <2>2. ASSUME NEW i \in DOMAIN ASweep, NEW j \in DOMAIN ASweep, j = i + 1
          PROVE  /\ ASweep'[i].at = "discard"
                 /\ LeadsTo(ASweep[i], reqs[ASweep[j].req].ip)'
      <3>1. i # n
        BY <1>2, <2>2
      <3>2. ASweep'[i] = ASweep[i] /\ ASweep'[j].req = ASweep[j].req
            /\ reqs'[ASweep[j].req].ip = reqs[ASweep[j].req].ip
        BY <1>1, <1>2, <1>3, <3>1
      <3>3. ASweep[i].at = "discard" /\ LeadsTo(ASweep[i], reqs[ASweep[j].req].ip)
        BY <2>2 DEF Descent, SweepDescends, ASweep
      <3>4. PICK g, ip : /\ g \in Frame /\ g = ASweep[i]
                          /\ ip = reqs[ASweep[j].req].ip
        BY <1>2
      <3>5. LeadsTo(g, ip)'
        BY <1>2, <1>4, <3>3, <3>4
      <3> QED  BY <3>2, <3>3, <3>4, <3>5
    <2> QED  BY <1>1, <2>1, <2>2 DEF SweepDescends, ASweep
  <1>8. SweepRevisits'
    <2> SUFFICES ASSUME NEW i \in DOMAIN ASweep, NEW j \in DOMAIN ASweep,
                        i < j, ASweep'[i].req = ASweep'[j].req
                 PROVE  /\ ASweep'[j].at \in {"check", "tries", "discard", "enqueue"}
                        /\ ASweep'[j].at \in {"discard", "enqueue"} =>
                             ASweep'[i].left <= ASweep'[j].left
                        /\ ASweep'[j].at = "discard" /\ j = n =>
                             ASweep'[i].left < ASweep'[j].left
      BY <1>1 DEF SweepRevisits, ASweep
    <2>1. i # n /\ i < n /\ ASweep'[i] = ASweep[i] /\ ASweep[i].req = ASweep[j].req
      BY <1>1, <1>2, <1>3
    <2>2. CASE j = n
      BY <1>1, <1>2, <2>1, <2>2 DEF n
    <2>3. CASE j # n
      BY <1>1, <2>1, <2>3 DEF Descent, SweepRevisits, ASweep
    <2> QED  BY <2>2, <2>3
  <1> QED  BY <1>1, <1>5, <1>6, <1>7, <1>8 DEF Descent

\* The innermost activation returns, and the request it worked on, which no other
\* one works on, may be gone.
LEMMA DescentReturn ==
  ASSUME Inv, Descent, ASweep # <<>>, Return("timeout"), UNCHANGED entries, TopAlone,
         \A r \in ReqId \ {Top("timeout").req} :
           /\ reqs'[r] = reqs[r]
           /\ (\E k \in DOMAIN requests : requests[k] = r) =>
                \E k \in DOMAIN requests' : requests'[k] = r
  PROVE  Descent' /\ stack'["main"] = stack["main"]
  <1>0. TypeOK
    BY DEF Inv
  <1> DEFINE n == Len(ASweep)
  <1>1. /\ stack'["main"] = stack["main"]
        /\ DOMAIN ASweep' = 1..(n - 1) /\ Len(ASweep') = n - 1
        /\ \A i \in 1..(n - 1) : ASweep'[i] = ASweep[i]
    <2> DEFINE s == Front(ASweep)
    <2>1. /\ s \in Seq(Frame) /\ DOMAIN s = 1..(n - 1)
          /\ \A i \in 1..(n - 1) : s[i] = ASweep[i]
      BY <1>0, SweepTypes, FrontLemma
    <2>2. ASweep' = s /\ stack'["main"] = stack["main"]
      BY <1>0 DEF Return, ASweep, TypeOK, Thread
    <2>3. Len(s) = n - 1
      <3>1. n \in Nat /\ n # 0 /\ Len(s) \in Nat
        BY <1>0, <2>1, SweepTypes, SweepTop
      <3> QED  BY <2>1, <3>1
    <2> QED  BY <2>1, <2>2, <2>3
  <1>2. /\ n \in DOMAIN ASweep /\ n \in Nat /\ DOMAIN ASweep = 1..n
        /\ ASweep[n] = Top("timeout")
        /\ \A i \in DOMAIN ASweep :
             /\ ASweep[i] \in Frame /\ ASweep[i].req \in ReqId
             /\ ASweep[i].left \in Nat
    BY <1>0, SweepTop, SweepTypes
  <1>3. \A i \in 1..(n - 1) :
          /\ i \in DOMAIN ASweep /\ ASweep[i].req \in ReqId \ {Top("timeout").req}
          /\ reqs'[ASweep[i].req] = reqs[ASweep[i].req]
    BY <1>2 DEF TopAlone
  <1> HIDE DEF n
  <1>4. \A g, ip : reqs'[g.req] = reqs[g.req] /\ LeadsTo(g, ip) => LeadsTo(g, ip)'
    BY DEF LeadsTo, Cached
  <1>5. SweepQueued'
    <2> SUFFICES ASSUME NEW i \in 1..(n - 1)
                 PROVE  \E k \in DOMAIN requests' : requests'[k] = ASweep[i].req
      BY <1>1 DEF SweepQueued, ASweep
    <2>1. \E k \in DOMAIN requests : requests[k] = ASweep[i].req
      BY <1>3 DEF Descent, SweepQueued, ASweep
    <2> QED  BY <1>3, <2>1
  <1>6. SweepGivesUp'
    BY <1>1, <1>3 DEF Descent, SweepGivesUp, GiveUp, ASweep
  <1>7. SweepDescends'
    <2>1. ASSUME NEW i \in 1..(n - 1), ASweep'[i].at = "enqueue"
          PROVE  LeadsTo(ASweep[i], ASweep[i].dst)'
      <3>1. PICK g \in Frame : g = ASweep[i] /\ g = ASweep'[i]
        BY <1>1, <1>2, <1>3
      <3>2. LeadsTo(g, g.dst) /\ reqs'[g.req] = reqs[g.req]
        BY <1>1, <1>3, <2>1, <3>1 DEF Descent, SweepDescends, ASweep
      <3>3. LeadsTo(g, g.dst)'
        BY <1>4, <3>2
      <3> QED  BY <3>1, <3>3
    <2>2. ASSUME NEW i \in 1..(n - 1), NEW j \in 1..(n - 1), j = i + 1
          PROVE  /\ ASweep'[i].at = "discard"
                 /\ LeadsTo(ASweep[i], reqs[ASweep[j].req].ip)'
      <3>1. ASweep[i].at = "discard" /\ LeadsTo(ASweep[i], reqs[ASweep[j].req].ip)
        BY <1>3, <2>2 DEF Descent, SweepDescends, ASweep
      <3>2. PICK g, ip : /\ g \in Frame /\ g = ASweep[i]
                          /\ ip = reqs[ASweep[j].req].ip
        BY <1>2, <1>3
      <3>3. LeadsTo(g, ip)'
        BY <1>3, <1>4, <3>1, <3>2
      <3>4. g = ASweep'[i] /\ ip = reqs'[ASweep'[j].req].ip
        BY <1>1, <1>3, <3>2
      <3> QED  BY <3>1, <3>2, <3>3, <3>4
    <2> QED  BY <1>1, <2>1, <2>2 DEF SweepDescends, ASweep
  <1>8. SweepRevisits'
    <2> SUFFICES ASSUME NEW i \in 1..(n - 1), NEW j \in 1..(n - 1),
                        i < j, ASweep[i].req = ASweep[j].req
                 PROVE  /\ ASweep[j].at \in {"check", "tries", "discard", "enqueue"}
                        /\ ASweep[j].at \in {"discard", "enqueue"} =>
                             ASweep[i].left <= ASweep[j].left
                        /\ ASweep[j].at = "discard" /\ j = n - 1 =>
                             ASweep[i].left < ASweep[j].left
      BY <1>1 DEF SweepRevisits, ASweep
    <2>1. /\ ASweep[j].at \in {"check", "tries", "discard", "enqueue"}
          /\ ASweep[j].at \in {"discard", "enqueue"} =>
               ASweep[i].left <= ASweep[j].left
      BY <1>3 DEF Descent, SweepRevisits, ASweep
    <2>2. ASSUME ASweep[j].at = "discard", j = n - 1,
                 ASweep[i].left = ASweep[j].left
          PROVE  FALSE
      <3>1. PICK k \in DOMAIN ASweep : k = i + 1 /\ k < n
        BY <1>2, <2>2
      <3>2. n = j + 1 /\ i \in DOMAIN ASweep /\ j \in DOMAIN ASweep
        BY <1>2, <2>2
      <3>3. LeadsTo(ASweep[i], reqs[ASweep[k].req].ip)
        BY <3>1, <3>2 DEF Descent, SweepDescends, ASweep
      <3>4. LeadsTo(ASweep[j], reqs[ASweep[n].req].ip)
        BY <1>2, <3>2 DEF Descent, SweepDescends, ASweep
      <3>5. reqs[ASweep[k].req].ip = reqs[ASweep[n].req].ip
        BY <2>2, <3>3, <3>4 DEF LeadsTo
      <3>6. ASweep[k].req = ASweep[n].req
        BY <1>2, <3>1, <3>5, SweepAddresses
      <3> QED  BY <1>2, <3>1, <3>6 DEF TopAlone, n
    <2>3. ASweep[i].left \in Nat /\ ASweep[j].left \in Nat
      BY <1>2, <1>3
    <2> QED  BY <2>1, <2>2, <2>3
  <1> QED  BY <1>1, <1>5, <1>6, <1>7, <1>8 DEF Descent

\* The innermost activation, about to queue an error, calls handle_arpreq for the
\* request r that the error waits on.
LEMMA DescentPush ==
  ASSUME Inv, TypeOK', Descent, ASweep # <<>>, Top("timeout").at = "enqueue",
         NEW r \in ReqId, UNCHANGED entries,
         Pushes("timeout", Discarding("discard", Top("timeout").req,
                                      Top("timeout").left, NULL), Call(r)),
         \E k \in DOMAIN requests' : requests'[k] = r,
         reqs'[r].ip = Top("timeout").dst,
         \A k \in DOMAIN requests : \E m \in DOMAIN requests' :
           requests'[m] = requests[k],
         \A i \in DOMAIN ASweep :
           LET q == ASweep[i].req IN
           /\ reqs'[q].ip = reqs[q].ip /\ reqs'[q].sent = reqs[q].sent
           /\ reqs'[q].times_sent = reqs[q].times_sent
           /\ \A m \in 1..Len(reqs[q].packets) :
                /\ m <= Len(reqs'[q].packets)
                /\ reqs'[q].packets[m] = reqs[q].packets[m]
  PROVE  Descent' /\ stack'["main"] = stack["main"]
  <1>0. TypeOK
    BY DEF Inv
  <1> DEFINE n == Len(ASweep)
  <1>2. /\ n \in DOMAIN ASweep /\ n \in Nat /\ DOMAIN ASweep = 1..n
        /\ ASweep[n] = Top("timeout") /\ ASweep[n].at = "enqueue"
        /\ \A i \in DOMAIN ASweep :
             /\ ASweep[i] \in Frame /\ ASweep[i].req \in ReqId
             /\ ASweep[i].left \in Nat /\ i <= n
    BY <1>0, SweepTop, SweepTypes
  <1>9. PICK f \in Frame : f = Discarding("discard", Top("timeout").req,
                                          Top("timeout").left, NULL)
    BY <1>2, ActivationLemma DEF FrameAt
  <1>10. PICK g \in Frame : g = Call(r)
    BY ActivationLemma
  <1>11. /\ f.at = "discard" /\ f.req = ASweep[n].req /\ f.left = ASweep[n].left
         /\ g.at = "check" /\ g.req = r
    BY <1>2, <1>9, <1>10 DEF Discarding, Call, Timed
  <1>1. /\ stack'["main"] = stack["main"]
        /\ DOMAIN ASweep' = 1..(n + 1) /\ Len(ASweep') = n + 1
        /\ \A i \in DOMAIN ASweep :
             ASweep'[i] = IF i = n THEN f ELSE ASweep[i]
        /\ ASweep'[n + 1] = g
    <2> DEFINE s == [ASweep EXCEPT ![n] = f]
               w == Append(s, g)
    <2>1. /\ s \in Seq(Frame) /\ DOMAIN s = DOMAIN ASweep
          /\ \A i \in DOMAIN ASweep : s[i] = IF i = n THEN f ELSE ASweep[i]
      BY <1>0, SweepTypes, LastLemma
    <2>2. ASweep' = w /\ stack'["main"] = stack["main"]
      BY <1>0, <1>9, <1>10 DEF Pushes, ASweep, TypeOK, Thread
    <2>3. Len(s) = n
      BY <1>2, <2>1
    <2> HIDE DEF s
    <2>4. /\ DOMAIN w = 1..(n + 1) /\ Len(w) = n + 1
          /\ \A i \in DOMAIN s : w[i] = s[i]
          /\ w[n + 1] = g
      BY <2>1, <2>3, AppendLemma
    <2> HIDE DEF w
    <2> QED  BY <2>1, <2>2, <2>4
  <1> HIDE DEF n
  <1>3. \A i \in DOMAIN ASweep :
          /\ i \in 1..(n + 1) /\ i # n + 1
          /\ ASweep'[i].req = ASweep[i].req /\ ASweep'[i].left = ASweep[i].left
          /\ ASweep[i].at \in {"discard", "enqueue"} =>
               ASweep'[i].at = "discard"
          /\ i # n => ASweep'[i] = ASweep[i]
    <2>1. \A i \in DOMAIN ASweep : i # n => ASweep[i].at \in {"discard"}
      <3> TAKE i \in DOMAIN ASweep
      <3>1. i # n => \E j \in DOMAIN ASweep : j = i + 1
        BY <1>2
      <3> QED  BY <3>1 DEF Descent, SweepDescends, ASweep
    <2> QED  BY <1>1, <1>2, <1>11, <2>1
  <1>12. \A i \in 1..(n + 1) : i \in DOMAIN ASweep \/ i = n + 1
    BY <1>2
  <1>4. ASSUME NEW i \in DOMAIN ASweep, NEW h, NEW ip, LeadsTo(ASweep[i], ip),
               h.req = ASweep[i].req, h.left = ASweep[i].left
        PROVE  LeadsTo(h, ip)'
    <2>1. PICK q \in ReqId : q = ASweep[i].req
      BY <1>2
    <2>2. PICK m \in Nat : m = ASweep[i].left + 1
      BY <1>2
    <2>3. reqs[q].packets \in Seq(Packet)
      BY <1>0 DEF TypeOK, Request
    <2>4. m \in 1..Len(reqs[q].packets) /\ reqs[q].packets[m].src = ip
      BY <1>2, <1>4, <2>1, <2>2, <2>3 DEF LeadsTo
    <2>5. m <= Len(reqs'[q].packets) /\ reqs'[q].packets[m].src = ip
      BY <2>1, <2>4
    <2>6. RouterIp[ip] # NULL /\ ~Cached(ip)'
      BY <1>4 DEF LeadsTo, Cached
    <2>7. ASweep[i].left < Len(reqs'[q].packets)
      <3>1. reqs'[q].packets \in Seq(Packet)
        BY DEF TypeOK, Request
      <3> QED  BY <1>2, <2>2, <2>5, <3>1
    <2> QED  BY <1>4, <2>1, <2>2, <2>5, <2>6, <2>7 DEF LeadsTo
  <1>5. SweepQueued'
    <2> SUFFICES ASSUME NEW i \in 1..(n + 1)
                 PROVE  \E k \in DOMAIN requests' : requests'[k] = ASweep'[i].req
      BY <1>1 DEF SweepQueued, ASweep
    <2>1. CASE i \in DOMAIN ASweep
      <3>1. PICK k \in DOMAIN requests : requests[k] = ASweep[i].req
        BY <2>1 DEF Descent, SweepQueued, ASweep
      <3> QED  BY <1>3, <2>1, <3>1
    <2> QED  BY <1>1, <1>11, <1>12, <2>1
  <1>6. SweepGivesUp'
    <2> SUFFICES ASSUME NEW i \in 1..(n + 1)
                 PROVE  /\ ASweep'[i].at \in {"tries", "discard", "enqueue"} =>
                             reqs'[ASweep'[i].req].sent = Due
                        /\ ASweep'[i].at \in {"discard", "enqueue"} =>
                             reqs'[ASweep'[i].req].times_sent >= Tries
      BY <1>1 DEF SweepGivesUp, GiveUp, ASweep
    <2>1. CASE i \in DOMAIN ASweep
      <3>1. ASweep[i].at \in {"tries", "discard", "enqueue"} =>
              reqs[ASweep[i].req].sent = Due
        BY <2>1 DEF Descent, SweepGivesUp, ASweep
      <3>2. ASweep[i].at \in {"discard", "enqueue"} =>
              reqs[ASweep[i].req].times_sent >= Tries
        BY <2>1 DEF Descent, SweepGivesUp, GiveUp, ASweep
      <3>3. i = n => ASweep[i].at = "enqueue"
        BY <1>2
      <3> QED  BY <1>3, <2>1, <3>1, <3>2, <3>3
    <2> QED  BY <1>1, <1>11, <1>12, <2>1
  <1>7. SweepDescends'
    <2>1. ASSUME NEW i \in 1..(n + 1), ASweep'[i].at = "enqueue"
          PROVE  FALSE
      <3>1. i \in DOMAIN ASweep
        BY <1>1, <1>11, <1>12, <2>1
      <3>2. i # n /\ ASweep[i].at = "enqueue"
        BY <1>2, <1>3, <2>1, <3>1
      <3> QED  BY <1>3, <2>1, <3>1, <3>2
    <2>2. ASSUME NEW i \in 1..(n + 1), NEW j \in 1..(n + 1), j = i + 1
          PROVE  /\ ASweep'[i].at = "discard"
                 /\ LeadsTo(ASweep[i], reqs[ASweep[j].req].ip)'
      <3>1. i \in DOMAIN ASweep
        BY <1>2, <2>2
      <3>2. PICK h, ip : h = ASweep'[i] /\ ip = reqs'[ASweep'[j].req].ip
        OBVIOUS
      <3>3. h.req = ASweep[i].req /\ h.left = ASweep[i].left
        BY <1>3, <3>1, <3>2
      <3>4. CASE i = n
        <4>1. j = n + 1 /\ ip = ASweep[n].dst
          BY <1>1, <1>2, <1>11, <2>2, <3>2, <3>4
        <4>2. LeadsTo(ASweep[n], ASweep[n].dst)
          BY <1>2 DEF Descent, SweepDescends, ASweep
        <4>3. LeadsTo(h, ip)'
          BY <1>4, <3>1, <3>3, <3>4, <4>1, <4>2
        <4> QED  BY <1>1, <1>2, <1>11, <3>2, <3>4, <4>3
      <3>5. CASE i # n
        <4>1. j \in DOMAIN ASweep
          BY <1>2, <2>2, <3>1, <3>5
        <4>2. ASweep[i].at = "discard" /\ LeadsTo(ASweep[i], reqs[ASweep[j].req].ip)
          BY <2>2, <3>1, <4>1 DEF Descent, SweepDescends, ASweep
        <4>3. ip = reqs[ASweep[j].req].ip
          BY <1>3, <3>2, <4>1
        <4>4. LeadsTo(h, ip)'
          BY <1>4, <3>1, <3>3, <4>2, <4>3
        <4> QED  BY <1>3, <3>1, <3>2, <3>5, <4>2, <4>4
      <3> QED  BY <3>4, <3>5
    <2> QED  BY <1>1, <2>1, <2>2 DEF SweepDescends, ASweep
  <1>8. SweepRevisits'
    <2> SUFFICES ASSUME NEW i \in 1..(n + 1), NEW j \in 1..(n + 1),
                        i < j, ASweep'[i].req = ASweep'[j].req
                 PROVE  /\ ASweep'[j].at \in {"check", "tries", "discard", "enqueue"}
                        /\ ASweep'[j].at \in {"discard", "enqueue"} =>
                             ASweep'[i].left <= ASweep'[j].left
                        /\ ASweep'[j].at = "discard" /\ j = n + 1 =>
                             ASweep'[i].left < ASweep'[j].left
      BY <1>1 DEF SweepRevisits, ASweep
    <2>1. CASE j = n + 1
      BY <1>1, <1>11, <2>1
    <2>2. CASE j # n + 1
      <3>1. i \in DOMAIN ASweep /\ j \in DOMAIN ASweep
        BY <1>2, <2>2
      <3>2. ASweep[i].req = ASweep[j].req
        BY <1>3, <3>1
      <3>3. /\ ASweep[j].at \in {"check", "tries", "discard", "enqueue"}
            /\ ASweep[j].at \in {"discard", "enqueue"} =>
                 ASweep[i].left <= ASweep[j].left
        BY <3>1, <3>2 DEF Descent, SweepRevisits, ASweep
      <3>4. j = n => ASweep[j].at = "enqueue"
        BY <1>2
      <3> QED  BY <1>3, <2>2, <3>1, <3>3, <3>4
    <2> QED  BY <2>1, <2>2
  <1> QED  BY <1>1, <1>5, <1>6, <1>7, <1>8 DEF Descent

-----------------------------------------------------------------------------
(* The steps of a lone sweep. *)

\* The sweep is under way, and main was outside of handle_arpreq at its start.
Alone ==
  /\ lock = "timeout" /\ fault = "none" /\ stack["main"] = <<>>
  /\ Inv /\ Descent

\* What a step of the sweep has to keep.
AloneNext ==
  /\ fault' # "timeout"
  /\ fault' = "none" => Descent' /\ stack'["main"] = <<>>

\* What is known of an outer activation i.
LEMMA OuterActivation ==
  ASSUME Alone, ASweep # <<>>, NEW i \in DOMAIN ASweep, i < Len(ASweep)
  PROVE  /\ reqs[ASweep[i].req].sent = Due
         /\ reqs[ASweep[i].req].times_sent >= Tries
         /\ ASweep[i].left < Len(reqs[ASweep[i].req].packets)
         /\ RouterIp[reqs[ASweep[i].req].packets[ASweep[i].left + 1].src] # NULL
         /\ ~Cached(reqs[ASweep[i].req].packets[ASweep[i].left + 1].src)
         /\ ASweep[i].req = Top("timeout").req =>
              /\ Top("timeout").at \in {"check", "tries", "discard", "enqueue"}
              /\ Top("timeout").at = "discard" => ASweep[i].left < Top("timeout").left
  <1>1. TypeOK /\ Inv /\ Descent
    BY DEF Alone, Inv
  <1>2. /\ Len(ASweep) \in DOMAIN ASweep /\ ASweep[Len(ASweep)] = Top("timeout")
        /\ Len(ASweep) \in Nat /\ DOMAIN ASweep = 1..Len(ASweep)
    BY <1>1, SweepTop, SweepTypes
  <1>3. PICK j \in DOMAIN ASweep : j = i + 1
    BY <1>2
  <1>4. ASweep[i].at = "discard" /\ LeadsTo(ASweep[i], reqs[ASweep[j].req].ip)
    BY <1>1, <1>3 DEF Descent, SweepDescends, ASweep
  <1>5. reqs[ASweep[i].req].sent = Due /\ reqs[ASweep[i].req].times_sent >= Tries
    BY <1>1, <1>4 DEF Descent, SweepGivesUp, GiveUp, ASweep
  <1>6. ASweep[i].req = Top("timeout").req =>
              /\ Top("timeout").at \in {"check", "tries", "discard", "enqueue"}
              /\ Top("timeout").at = "discard" => ASweep[i].left < Top("timeout").left
    BY <1>1, <1>2 DEF Descent, SweepRevisits, ASweep
  <1> QED  BY <1>4, <1>5, <1>6 DEF LeadsTo

\* The innermost activation of a sweep that takes a step.
LEMMA SweepActs ==
  ASSUME Alone, NEW at, Active("timeout", at)
  PROVE  /\ ASweep # <<>> /\ TypeOK /\ Top("timeout").at = at
         /\ Top("timeout").req \in heap /\ Top("timeout").req \in ReqId
         /\ Top("timeout") \in Frame /\ ~Dangling("timeout", Top("timeout").req)
         /\ Len(ASweep) \in DOMAIN ASweep /\ ASweep[Len(ASweep)] = Top("timeout")
  <1>1. ASweep # <<>> /\ TypeOK /\ Top("timeout").at = at
    BY DEF Alone, Inv, Active, ASweep, Top
  <1>2. /\ Len(ASweep) \in DOMAIN ASweep /\ ASweep[Len(ASweep)] = Top("timeout")
        /\ Top("timeout") \in Frame /\ Top("timeout").req \in ReqId
    BY <1>1, SweepTop
  <1>3. Top("timeout").req \in heap
    BY <1>2, SweepAllocated DEF Alone
  <1> QED  BY <1>1, <1>2, <1>3 DEF Dangling

\* Looking at the time: an activation that returns here was not met before, since
\* a request met again is due.
LEMMA CheckAlone ==
  ASSUME Alone, Inv', Check("timeout")
  PROVE  AloneNext
  <1>0. Active("timeout", "check")
    BY DEF Check
  <1>1. /\ ASweep # <<>> /\ TypeOK /\ TypeOK' /\ Top("timeout").at = "check"
        /\ Top("timeout") \in Frame /\ ~Dangling("timeout", Top("timeout").req)
        /\ Inv /\ Descent /\ stack["main"] = <<>> /\ fault = "none"
    BY <1>0, SweepActs DEF Alone, Inv
  <1>2. PICK r \in ReqId : r = Top("timeout").req
    BY <1>0, SweepActs
  <1>3. /\ IF reqs[r].sent < Due THEN Return("timeout")
           ELSE SetTop("timeout", Timed("tries", r, 0))
        /\ UNCHANGED <<entries, requests, heap, reqs, fault>>
    BY <1>1, <1>2 DEF Check
  <1>4. reqs[r].sent \in 0..2
    BY <1>1 DEF TypeOK, Request, Due
  <1>5. CASE reqs[r].sent < Due
    <2>1. TopAlone
      BY <1>1, <1>2, <1>4, <1>5, OuterActivation DEF TopAlone, Due
    <2>2. Descent' /\ stack'["main"] = stack["main"]
      BY <1>1, <1>3, <1>5, <2>1, DescentReturn
    <2> QED  BY <1>1, <1>3, <2>2 DEF AloneNext
  <1>6. CASE ~(reqs[r].sent < Due)
    <2>1. PICK f \in Frame : f = Timed("tries", r, 0)
      BY ActivationLemma DEF FrameAt, Due
    <2>2. f.at = "tries" /\ f.req = r /\ reqs'[f.req].sent = Due
      BY <1>3, <1>4, <1>6, <2>1 DEF Timed, Due
    <2>3. Descent' /\ stack'["main"] = stack["main"]
      BY <1>1, <1>2, <1>3, <1>6, <2>1, <2>2, DescentSetTop
    <2> QED  BY <1>1, <1>3, <2>3 DEF AloneNext
  <1> QED  BY <1>5, <1>6

\* Counting the tries: a request met again is given up again, from the newest of
\* its packets on, which lies before the one the outer loop took last.
LEMMA CheckTriesAlone ==
  ASSUME Alone, Inv', CheckTries("timeout")
  PROVE  AloneNext
  <1>0. Active("timeout", "tries")
    BY DEF CheckTries
  <1>1. /\ ASweep # <<>> /\ TypeOK /\ TypeOK' /\ Top("timeout").at = "tries"
        /\ Top("timeout") \in Frame /\ ~Dangling("timeout", Top("timeout").req)
        /\ Inv /\ Descent /\ stack["main"] = <<>> /\ fault = "none"
        /\ Len(ASweep) \in DOMAIN ASweep /\ ASweep[Len(ASweep)] = Top("timeout")
    BY <1>0, SweepActs DEF Alone, Inv
  <1>2. PICK r \in ReqId : r = Top("timeout").req
    BY <1>0, SweepActs
  <1>3. /\ SetTop("timeout", IF GiveUp(r)
                             THEN Discarding("discard", r, Waiting(r), NULL)
                             ELSE Timed("resend", r, Top("timeout").cur))
        /\ UNCHANGED <<entries, requests, heap, reqs, fault>>
    BY <1>1, <1>2 DEF CheckTries
  <1>4. reqs[r].sent = Due
    BY <1>1, <1>2 DEF Descent, SweepGivesUp, ASweep
  <1>5. CASE GiveUp(r)
    <2>1. Waiting(r) \in Nat
      <3>1. reqs[r].packets \in Seq(Packet)
        BY <1>1 DEF TypeOK, Request
      <3> QED  BY <3>1 DEF Waiting
    <2>2. PICK f \in Frame : f = Discarding("discard", r, Waiting(r), NULL)
      BY <2>1, ActivationLemma DEF FrameAt
    <2>3. f.at = "discard" /\ f.req = r /\ f.left = Len(reqs[r].packets)
      BY <2>2 DEF Discarding, Waiting
    <2>4. \A i \in DOMAIN ASweep : i < Len(ASweep) /\ ASweep[i].req = r =>
            ASweep[i].left <= f.left /\ ASweep[i].left < f.left
      <3> SUFFICES ASSUME NEW i \in DOMAIN ASweep, i < Len(ASweep), ASweep[i].req = r
                   PROVE  ASweep[i].left <= f.left /\ ASweep[i].left < f.left
        OBVIOUS
      <3>1. ASweep[i].left < f.left
        BY <1>1, <2>3, OuterActivation
      <3>2. ASweep[i].left \in Nat /\ f.left \in Nat
        BY <1>1, <2>1, <2>3, SweepTypes DEF Waiting
      <3> QED  BY <3>1, <3>2
    <2>5. SetTop("timeout", f)
      BY <1>3, <1>5, <2>2
    <2>6. Descent' /\ stack'["main"] = stack["main"]
      BY <1>1, <1>2, <1>3, <1>4, <1>5, <2>3, <2>4, <2>5, DescentSetTop DEF GiveUp
    <2> QED  BY <1>1, <1>3, <2>6 DEF AloneNext
  <1>6. CASE ~GiveUp(r)
    <2>1. Top("timeout").cur \in 0..Due
      BY <1>1 DEF Frame
    <2>2. PICK f \in Frame : f = Timed("resend", r, Top("timeout").cur)
      BY <2>1, ActivationLemma DEF FrameAt
    <2>3. f.at = "resend" /\ f.req = r
      BY <2>2 DEF Timed
    <2>4. \A i \in DOMAIN ASweep : i < Len(ASweep) => ASweep[i].req # r
      BY <1>1, <1>6, OuterActivation DEF GiveUp
    <2>5. SetTop("timeout", f)
      BY <1>3, <1>6, <2>2
    <2>6. Descent' /\ stack'["main"] = stack["main"]
      BY <1>1, <1>2, <1>3, <2>3, <2>4, <2>5, DescentSetTop
    <2> QED  BY <1>1, <1>3, <2>6 DEF AloneNext
  <1> QED  BY <1>5, <1>6

\* Resending: only for a request that is met for the first time.
LEMMA ResendAlone ==
  ASSUME Alone, Inv', Resend("timeout")
  PROVE  AloneNext
  <1>0. Active("timeout", "resend")
    BY DEF Resend
  <1>1. /\ ASweep # <<>> /\ TypeOK /\ TypeOK' /\ Top("timeout").at = "resend"
        /\ Top("timeout") \in Frame /\ ~Dangling("timeout", Top("timeout").req)
        /\ Inv /\ Descent /\ stack["main"] = <<>> /\ fault = "none"
    BY <1>0, SweepActs DEF Alone, Inv
  <1>2. PICK r \in ReqId : r = Top("timeout").req
    BY <1>0, SweepActs
  <1>3. CASE fault' = "route"
    BY <1>3 DEF AloneNext
  <1>4. CASE /\ reqs' = [reqs EXCEPT ![r].sent = Top("timeout").cur]
             /\ SetTop("timeout", Counting("store", r, reqs[r].times_sent))
             /\ UNCHANGED <<entries, requests, heap, fault>>
    <2>1. /\ \A s \in ReqId : /\ reqs'[s].ip = reqs[s].ip
                              /\ reqs'[s].packets = reqs[s].packets
          /\ \A s \in ReqId \ {r} : reqs'[s] = reqs[s]
          /\ reqs[r].times_sent \in Nat
      BY <1>1, <1>4 DEF TypeOK, Request
    <2>2. PICK f \in Frame : f = Counting("store", r, reqs[r].times_sent)
      BY <2>1, ActivationLemma DEF FrameAt
    <2>3. f.at = "store" /\ f.req = r
      BY <2>2 DEF Counting
    <2>4. \A i \in DOMAIN ASweep : i < Len(ASweep) =>
            ASweep[i].req # r /\ ASweep[i].req \in ReqId
      BY <1>1, <1>2, OuterActivation, SweepTypes
    <2>5. \A i \in DOMAIN ASweep : i < Len(ASweep) =>
            reqs'[ASweep[i].req] = reqs[ASweep[i].req]
      BY <2>1, <2>4
    <2>6. Descent' /\ stack'["main"] = stack["main"]
      BY <1>1, <1>2, <1>4, <2>1, <2>2, <2>3, <2>4, <2>5, DescentSetTop
    <2> QED  BY <1>1, <1>4, <2>6 DEF AloneNext
  <1> QED  BY <1>1, <1>2, <1>3, <1>4 DEF Resend

\* The second half of times_sent++.
LEMMA StoreAlone ==
  ASSUME Alone, Inv', Store("timeout")
  PROVE  AloneNext
  <1>0. Active("timeout", "store")
    BY DEF Store
  <1>1. /\ ASweep # <<>> /\ TypeOK /\ TypeOK' /\ Top("timeout").at = "store"
        /\ Top("timeout") \in Frame /\ ~Dangling("timeout", Top("timeout").req)
        /\ Inv /\ Descent /\ stack["main"] = <<>> /\ fault = "none"
    BY <1>0, SweepActs DEF Alone, Inv
  <1>2. PICK r \in ReqId : r = Top("timeout").req
    BY <1>0, SweepActs
  <1>3. /\ reqs' = [reqs EXCEPT ![r].times_sent = Top("timeout").seen + 1]
        /\ SetTop("timeout", Counting("xmit", r, 0))
        /\ UNCHANGED <<entries, requests, heap, fault>>
    BY <1>1, <1>2 DEF Store
  <1>4. /\ \A s \in ReqId : /\ reqs'[s].ip = reqs[s].ip
                            /\ reqs'[s].packets = reqs[s].packets
        /\ \A s \in ReqId \ {r} : reqs'[s] = reqs[s]
    BY <1>1, <1>3 DEF TypeOK, Request
  <1>5. PICK f \in Frame : f = Counting("xmit", r, 0)
    BY ActivationLemma DEF FrameAt
  <1>6. f.at = "xmit" /\ f.req = r
    BY <1>5 DEF Counting
  <1>7. \A i \in DOMAIN ASweep : i < Len(ASweep) =>
          ASweep[i].req # r /\ ASweep[i].req \in ReqId
    BY <1>1, <1>2, OuterActivation, SweepTypes
  <1>8. \A i \in DOMAIN ASweep : i < Len(ASweep) =>
          reqs'[ASweep[i].req] = reqs[ASweep[i].req]
    BY <1>4, <1>7
  <1>9. Descent' /\ stack'["main"] = stack["main"]
    BY <1>1, <1>2, <1>3, <1>4, <1>5, <1>6, <1>7, <1>8, DescentSetTop
  <1> QED  BY <1>1, <1>3, <1>9 DEF AloneNext

\* The ARP request is sent, and the activation returns.
LEMMA XmitAlone ==
  ASSUME Alone, Inv', Xmit("timeout")
  PROVE  AloneNext
  <1>0. Active("timeout", "xmit")
    BY DEF Xmit
  <1>1. /\ ASweep # <<>> /\ TypeOK /\ TypeOK' /\ Top("timeout").at = "xmit"
        /\ Inv /\ Descent /\ stack["main"] = <<>> /\ fault = "none"
        /\ Top("timeout").req \in heap
    BY <1>0, SweepActs DEF Alone, Inv
  <1>2. PICK r \in ReqId : r = Top("timeout").req
    BY <1>0, SweepActs
  <1>3. /\ reqs' = [reqs EXCEPT ![r].arps = @ + 1] /\ Return("timeout")
        /\ UNCHANGED <<entries, requests, fault>>
    BY <1>1, <1>2 DEF Xmit
  <1>4. \A s \in ReqId \ {r} : reqs'[s] = reqs[s]
    BY <1>1, <1>3 DEF TypeOK
  <1>5. TopAlone
    BY <1>1, OuterActivation DEF TopAlone
  <1>6. Descent' /\ stack'["main"] = stack["main"]
    BY <1>1, <1>2, <1>3, <1>4, <1>5, DescentReturn
  <1> QED  BY <1>1, <1>3, <1>6 DEF AloneNext

\* A turn of the discard loop: the packet that led down from an activation further
\* out leads down again.
LEMMA DiscardPacketAlone ==
  ASSUME Alone, Inv', DiscardPacket("timeout")
  PROVE  AloneNext
  <1>0. Active("timeout", "discard")
    BY DEF DiscardPacket
  <1>1. /\ ASweep # <<>> /\ TypeOK /\ TypeOK' /\ Top("timeout").at = "discard"
        /\ Top("timeout") \in Frame /\ ~Dangling("timeout", Top("timeout").req)
        /\ Inv /\ Descent /\ stack["main"] = <<>> /\ fault = "none"
        /\ Len(ASweep) \in DOMAIN ASweep /\ ASweep[Len(ASweep)] = Top("timeout")
        /\ Top("timeout").req \in heap /\ "timeout" \in Thread
    BY <1>0, SweepActs, SweepTypes DEF Alone, Inv
  <1>2. PICK r \in ReqId : r = Top("timeout").req
    BY <1>0, SweepActs
  <1>3. PICK left \in Nat : left = Top("timeout").left /\ left > 0
    BY <1>1 DEF Frame, DiscardPacket
  <1>4. PICK rest \in Nat : rest = left - 1 /\ left = rest + 1
    BY <1>3
  <1>5. /\ left <= Len(reqs[r].packets) /\ reqs[r].packets \in Seq(Packet)
        /\ Len(reqs[r].packets) \in Nat
    <2>1. ActivationOK(Top("timeout"))
      BY <1>1 DEF Inv, ActivationsOK, ASweep
    <2>2. reqs[r].packets \in Seq(Packet)
      BY <1>1 DEF TypeOK, Request
    <2> QED  BY <1>1, <1>2, <1>3, <2>1, <2>2 DEF ActivationOK
  <1>6. PICK pk \in Packet : pk = reqs[r].packets[left]
    BY <1>3, <1>5
  <1>7. pk.src \in IP
    BY DEF Packet
  <1>8. /\ reqs' = reqs /\ UNCHANGED <<entries, requests, heap, fault>>
        /\ \/ /\ RouterIp[pk.src] = NULL \/ Cached(pk.src)
              /\ SetTop("timeout", Discarding("discard", r, rest, NULL))
           \/ /\ RouterIp[pk.src] # NULL /\ ~Cached(pk.src)
              /\ SetTop("timeout", Discarding("enqueue", r, rest, pk.src))
    BY <1>1, <1>2, <1>3, <1>4, <1>6 DEF DiscardPacket
  <1>9. reqs[r].sent = Due /\ reqs[r].times_sent >= Tries
    BY <1>1, <1>2 DEF Descent, SweepGivesUp, GiveUp, ASweep
  <1>10. ASSUME NEW i \in DOMAIN ASweep, i < Len(ASweep), ASweep[i].req = r
         PROVE  /\ ASweep[i].left <= rest
                /\ RouterIp[pk.src] = NULL \/ Cached(pk.src) => ASweep[i].left < rest
    <2>1. ASweep[i].left < left /\ ASweep[i].left \in Nat
      BY <1>1, <1>2, <1>3, <1>10, OuterActivation, SweepTypes
    <2>2. ASSUME ASweep[i].left = rest
          PROVE  RouterIp[pk.src] # NULL /\ ~Cached(pk.src)
      BY <1>1, <1>4, <1>6, <1>10, <2>2, OuterActivation
    <2> QED  BY <1>4, <2>1, <2>2
  <1>11. CASE /\ RouterIp[pk.src] = NULL \/ Cached(pk.src)
              /\ SetTop("timeout", Discarding("discard", r, rest, NULL))
    <2>1. PICK f \in Frame : f = Discarding("discard", r, rest, NULL)
      BY ActivationLemma DEF FrameAt
    <2>2. f.at = "discard" /\ f.req = r /\ f.left = rest
      BY <2>1 DEF Discarding
    <2>3. Descent' /\ stack'["main"] = stack["main"]
      BY <1>1, <1>2, <1>8, <1>9, <1>10, <1>11, <2>1, <2>2, DescentSetTop
    <2> QED  BY <1>1, <1>8, <2>3 DEF AloneNext
  <1>12. CASE /\ RouterIp[pk.src] # NULL /\ ~Cached(pk.src)
              /\ SetTop("timeout", Discarding("enqueue", r, rest, pk.src))
    <2>1. PICK f \in Frame : f = Discarding("enqueue", r, rest, pk.src)
      BY <1>7, ActivationLemma DEF FrameAt
    <2>2. f.at = "enqueue" /\ f.req = r /\ f.left = rest /\ f.dst = pk.src
      BY <2>1 DEF Discarding
    <2>3. LeadsTo(f, f.dst)
      <3>1. rest < Len(reqs[r].packets)
        BY <1>4, <1>5
      <3> QED  BY <1>4, <1>6, <1>12, <2>2, <3>1 DEF LeadsTo
    <2>4. Descent' /\ stack'["main"] = stack["main"]
      BY <1>1, <1>2, <1>8, <1>9, <1>10, <1>12, <2>1, <2>2, <2>3, DescentSetTop
    <2> QED  BY <1>1, <1>8, <2>4 DEF AloneNext
  <1> QED  BY <1>8, <1>11, <1>12

\* The end of a discard loop is reached only for a request that no activation
\* further out works on.
LEMMA DiscardDoneAlone ==
  ASSUME Alone, Inv', DiscardDone("timeout")
  PROVE  AloneNext
  <1>0. Active("timeout", "discard")
    BY DEF DiscardDone
  <1>1. /\ ASweep # <<>> /\ TypeOK /\ Top("timeout").at = "discard"
        /\ ~Dangling("timeout", Top("timeout").req)
        /\ Inv /\ Descent /\ stack["main"] = <<>> /\ fault = "none"
    BY <1>0, SweepActs DEF Alone, Inv
  <1>2. PICK r \in ReqId : r = Top("timeout").req
    BY <1>0, SweepActs
  <1>3. /\ Destroy(r) /\ Return("timeout") /\ Top("timeout").left = 0
        /\ UNCHANGED <<entries, fault>>
    BY <1>1, <1>2 DEF DiscardDone
  <1>4. TopAlone
    BY <1>1, <1>3, OuterActivation, SweepTypes DEF TopAlone
  <1>5. \A s \in ReqId \ {r} : reqs'[s] = reqs[s]
    BY <1>1, <1>3 DEF Destroy, TypeOK
  <1>6. ASSUME NEW s \in ReqId \ {r}, \E k \in DOMAIN requests : requests[k] = s
        PROVE  \E k \in DOMAIN requests' : requests'[k] = s
    <2>1. CASE UNCHANGED requests
      BY <1>6, <2>1
    <2>2. ASSUME NEW i \in DOMAIN requests, requests[i] = r,
                 requests' = RemoveAt(requests, i)
          PROVE  \E k \in DOMAIN requests' : requests'[k] = s
      <3>1. \A k \in DOMAIN requests \ {i} :
              \E j \in DOMAIN requests' : requests'[j] = requests[k]
        BY <1>1, <2>2, UnlinkLemma DEF Inv
      <3> QED  BY <1>6, <2>2, <3>1
    <2> QED  BY <1>3, <2>1, <2>2 DEF Destroy
  <1>7. Descent' /\ stack'["main"] = stack["main"]
    BY <1>1, <1>2, <1>3, <1>4, <1>5, <1>6, DescentReturn
  <1> QED  BY <1>1, <1>3, <1>7 DEF AloneNext

\* Queueing an error: the request the error waits on keeps what the activations
\* further out rely on, and the new one has met nobody yet or gives up again.
LEMMA EnqueueAlone ==
  ASSUME Alone, Inv', Enqueue("timeout")
  PROVE  AloneNext
  <1>0. Active("timeout", "enqueue")
    BY DEF Enqueue
  <1>1. /\ ASweep # <<>> /\ TypeOK /\ TypeOK' /\ Top("timeout").at = "enqueue"
        /\ Inv /\ Descent /\ stack["main"] = <<>> /\ fault = "none"
    BY <1>0, SweepActs DEF Alone, Inv
  <1>2. PICK ip, pk : ip = Top("timeout").dst
                      /\ pk = [pkt |-> NULL, src |-> RouterIp[ip]]
    OBVIOUS
  <1>3. PICK r \in ReqId :
          /\ QueueReq(ip, pk, r) /\ UNCHANGED entries
          /\ \/ fault' = "stack"
             \/ /\ Pushes("timeout", Discarding("discard", Top("timeout").req,
                                                Top("timeout").left, NULL), Call(r))
                /\ UNCHANGED fault
    BY <1>2 DEF Enqueue, Pushes
  <1>6. pk \in Packet
    <2>1. ActivationOK(Top("timeout"))
      BY <1>1, SweepTop DEF Inv, ActivationsOK, ASweep, Thread
    <2> QED  BY <1>1, <1>2, <2>1, RouterIpAssumption DEF ActivationOK, Packet
  <1>4. CASE fault' = "stack"
    BY <1>4 DEF AloneNext
  <1>5. ASSUME UNCHANGED fault,
               Pushes("timeout", Discarding("discard", Top("timeout").req,
                                            Top("timeout").left, NULL), Call(r))
        PROVE  AloneNext
    <2>0. /\ requests \in Seq(ReqId) /\ reqs \in [ReqId -> Request]
          /\ \A s \in ReqId : reqs[s] \in Request /\ reqs[s].packets \in Seq(Packet)
          /\ \A i \in DOMAIN ASweep : ASweep[i].req \in ReqId
      BY <1>1, SweepTypes DEF TypeOK, Request
    <2>1. CASE /\ \E i \in DOMAIN requests : requests[i] = r /\ reqs[r].ip = ip
               /\ reqs' = [reqs EXCEPT ![r].packets = Append(@, pk)]
               /\ UNCHANGED <<requests, heap>>
      <3>1. \A s \in ReqId :
              /\ reqs'[s].ip = reqs[s].ip /\ reqs'[s].sent = reqs[s].sent
              /\ reqs'[s].times_sent = reqs[s].times_sent
              /\ reqs'[s].packets = IF s = r THEN Append(reqs[s].packets, pk)
                                    ELSE reqs[s].packets
        BY <2>0, <2>1 DEF Request
      <3>2. \A s \in ReqId : \A m \in 1..Len(reqs[s].packets) :
              /\ m <= Len(reqs'[s].packets)
              /\ reqs'[s].packets[m] = reqs[s].packets[m]
        <4> TAKE s \in ReqId
        <4>1. PICK q \in Seq(Packet) : q = reqs[s].packets
          BY <2>0
        <4>2. PICK w : w = Append(q, pk)
          OBVIOUS
        <4>3. Len(w) = Len(q) + 1 /\ \A m \in DOMAIN q : w[m] = q[m]
          BY <1>6, <4>1, <4>2, AppendLemma
        <4>4. Len(q) \in Nat /\ DOMAIN q = 1..Len(q)
          BY <4>1
        <4>5. reqs'[s].packets \in {q, w}
          BY <3>1, <4>1, <4>2
        <4>6. \A m \in 1..Len(q) : /\ m <= Len(q) /\ m <= Len(w) /\ w[m] = q[m]
          BY <4>3, <4>4
        <4> QED  BY <4>1, <4>5, <4>6
      <3>3. /\ \E k \in DOMAIN requests' : requests'[k] = r
            /\ reqs'[r].ip = Top("timeout").dst
            /\ \A k \in DOMAIN requests : \E m \in DOMAIN requests' :
                 requests'[m] = requests[k]
        BY <1>2, <2>1, <3>1
      <3>4. Descent' /\ stack'["main"] = stack["main"]
        BY <1>1, <1>3, <1>5, <2>0, <3>1, <3>2, <3>3, DescentPush
      <3> QED  BY <1>1, <1>5, <3>4 DEF AloneNext
    <2>2. CASE /\ Fresh # {} /\ r = CHOOSE x \in Fresh : TRUE
               /\ requests' = Append(requests, r)
               /\ reqs' = [reqs EXCEPT ![r] = [Blank(ip) EXCEPT !.packets = <<pk>>]]
      <3>1. r \in Fresh /\ ~Referenced(r)
        BY <2>2 DEF Fresh
      <3>2. \A i \in DOMAIN ASweep : ASweep[i].req # r
        BY <3>1 DEF Referenced, ASweep, Thread
      <3>3. \A i \in DOMAIN ASweep : reqs'[ASweep[i].req] = reqs[ASweep[i].req]
        BY <2>0, <2>2, <3>2
      <3>4. \A i \in DOMAIN ASweep : \A m \in 1..Len(reqs[ASweep[i].req].packets) :
              m <= Len(reqs[ASweep[i].req].packets)
        BY <2>0
      <3>5. /\ DOMAIN requests' = 1..(Len(requests) + 1)
            /\ \A k \in DOMAIN requests : requests'[k] = requests[k]
            /\ requests'[Len(requests) + 1] = r
            /\ Len(requests) \in Nat /\ DOMAIN requests = 1..Len(requests)
        BY <2>0, <2>2, AppendLemma
      <3>6. /\ \E k \in DOMAIN requests' : requests'[k] = r
            /\ \A k \in DOMAIN requests : \E m \in DOMAIN requests' :
                 requests'[m] = requests[k]
        BY <3>5
      <3>7. reqs'[r].ip = Top("timeout").dst
        BY <1>2, <2>0, <2>2 DEF Blank
      <3>8. Descent' /\ stack'["main"] = stack["main"]
        BY <1>1, <1>3, <1>5, <3>3, <3>4, <3>6, <3>7, DescentPush
      <3> QED  BY <1>1, <1>5, <3>8 DEF AloneNext
    <2> QED  BY <1>3, <2>1, <2>2 DEF QueueReq
  <1> QED  BY <1>3, <1>4, <1>5

\* The sweep goes on to the next request, which is on the queue if it is still
\* allocated.
LEMMA VisitAlone ==
  ASSUME Alone, Inv', Visit
  PROVE  AloneNext
  <1>1. TypeOK /\ Inv /\ stack["main"] = <<>> /\ fault = "none"
    BY DEF Alone, Inv
  <1>2. CASE fault' = "visit"
    BY <1>2 DEF AloneNext
  <1>3. CASE /\ cursor \in heap /\ stack' = [stack EXCEPT !["timeout"] = <<Call(cursor)>>]
             /\ UNCHANGED <<requests, fault>>
    <2>1. PICK g : g = Call(cursor)
      OBVIOUS
    <2>2. ASweep' = <<g>> /\ stack'["main"] = <<>>
      BY <1>1, <1>3, <2>1 DEF ASweep, TypeOK, Thread
    <2>3. g.at = "check" /\ g.req = cursor
      BY <2>1 DEF Call, Timed
    <2>4. DOMAIN ASweep' = {1} /\ ASweep'[1] = g
      BY <2>2
    <2>5. \E k \in DOMAIN requests' : requests'[k] = g.req
      BY <1>1, <1>3, <2>3 DEF Inv, CursorQueued
    <2>6. SweepQueued' /\ SweepGivesUp'
      BY <2>3, <2>4, <2>5 DEF SweepQueued, SweepGivesUp, ASweep
    <2>7. SweepDescends' /\ SweepRevisits'
      BY <2>3, <2>4 DEF SweepDescends, SweepRevisits, ASweep
    <2> QED  BY <1>1, <1>3, <2>2, <2>6, <2>7 DEF AloneNext, Descent
  <1> QED  BY <1>2, <1>3 DEF Visit

\* A second passes: what is due stays due, and nothing is cached or forgotten.
LEMMA TickAlone ==
  ASSUME Alone, Tick
  PROVE  AloneNext
  <1>1. /\ TypeOK /\ Inv /\ Descent /\ stack["main"] = <<>> /\ fault = "none"
        /\ UNCHANGED <<requests, fault>>
    BY DEF Alone, Inv, Tick
  <1>2. /\ TypeOK'
        /\ \A s \in Slot : /\ entries'[s] = NoEntry <=> entries[s] = NoEntry
                           /\ entries[s] # NoEntry =>
                                entries'[s].ip = entries[s].ip
        /\ \A r \in ReqId : /\ reqs'[r].ip = reqs[r].ip
                            /\ reqs'[r].packets = reqs[r].packets
        /\ \A t \in Thread :
              /\ DOMAIN stack'[t] = DOMAIN stack[t]
              /\ stack[t] = <<>> <=> stack'[t] = <<>>
              /\ \A i \in DOMAIN stack[t] :
                   /\ stack'[t][i].at = stack[t][i].at
                   /\ stack'[t][i].req = stack[t][i].req
                   /\ stack'[t][i].left = stack[t][i].left
                   /\ stack'[t][i].dst = stack[t][i].dst
    BY <1>1, TickLemma
  <1>3. /\ DOMAIN ASweep' = DOMAIN ASweep /\ Len(ASweep') = Len(ASweep)
        /\ \A i \in DOMAIN ASweep :
             /\ ASweep'[i].at = ASweep[i].at /\ ASweep'[i].req = ASweep[i].req
             /\ ASweep'[i].left = ASweep[i].left /\ ASweep'[i].dst = ASweep[i].dst
    <2>1. /\ DOMAIN ASweep' = DOMAIN ASweep
          /\ \A i \in DOMAIN ASweep :
               /\ ASweep'[i].at = ASweep[i].at /\ ASweep'[i].req = ASweep[i].req
               /\ ASweep'[i].left = ASweep[i].left /\ ASweep'[i].dst = ASweep[i].dst
      BY <1>2 DEF ASweep, Thread
    <2>2. ASweep \in Seq(Frame) /\ ASweep' \in Seq(Frame)
      BY <1>1, <1>2 DEF TypeOK, ASweep, Thread
    <2> QED  BY <2>1, <2>2
  <1>4. stack'["main"] = <<>>
    BY <1>1, <1>2 DEF Thread
  <1>5. \A r \in ReqId : /\ reqs'[r].times_sent = reqs[r].times_sent
                         /\ reqs[r].sent = Due => reqs'[r].sent = Due
    BY <1>1 DEF Tick, TypeOK, Request, Older, Due
  <1>6. \A i \in DOMAIN ASweep : ASweep[i].req \in ReqId
    BY <1>1, SweepTypes
  <1>7. ASSUME NEW g, NEW h, NEW ip, g.req \in ReqId, h.req = g.req, h.left = g.left,
               LeadsTo(g, ip)
        PROVE  LeadsTo(h, ip)'
    <2>1. Cached(ip)' => Cached(ip)
      BY <1>2 DEF Cached
    <2> QED  BY <1>2, <1>7, <2>1 DEF LeadsTo
  <1>8. SweepQueued'
    BY <1>1, <1>3 DEF Descent, SweepQueued, ASweep
  <1>9. SweepGivesUp'
    BY <1>1, <1>3, <1>5, <1>6 DEF Descent, SweepGivesUp, GiveUp, ASweep
  <1>10. SweepDescends'
    <2>1. ASSUME NEW i \in DOMAIN ASweep, ASweep'[i].at = "enqueue"
          PROVE  LeadsTo(ASweep[i], ASweep[i].dst)'
      <3>1. PICK h, ip : h = ASweep'[i] /\ ip = ASweep'[i].dst
        OBVIOUS
      <3>2. LeadsTo(ASweep[i], ip)
        BY <1>1, <1>3, <2>1, <3>1 DEF Descent, SweepDescends, ASweep
      <3>3. LeadsTo(h, ip)'
        BY <1>3, <1>6, <1>7, <3>1, <3>2
      <3> QED  BY <3>1, <3>3
    <2>2. ASSUME NEW i \in DOMAIN ASweep, NEW j \in DOMAIN ASweep, j = i + 1
          PROVE  /\ ASweep'[i].at = "discard"
                 /\ LeadsTo(ASweep[i], reqs[ASweep[j].req].ip)'
      <3>1. PICK h, ip : h = ASweep'[i] /\ ip = reqs'[ASweep'[j].req].ip
        OBVIOUS
      <3>2. ip = reqs[ASweep[j].req].ip
        BY <1>2, <1>3, <1>6, <3>1
      <3>3. ASweep[i].at = "discard" /\ LeadsTo(ASweep[i], ip)
        BY <1>1, <2>2, <3>2 DEF Descent, SweepDescends, ASweep
      <3>4. LeadsTo(h, ip)'
        BY <1>3, <1>6, <1>7, <3>1, <3>3
      <3> QED  BY <1>3, <3>1, <3>3, <3>4
    <2> QED  BY <1>3, <2>1, <2>2 DEF SweepDescends, ASweep
  <1>11. SweepRevisits'
    BY <1>1, <1>3 DEF Descent, SweepRevisits, ASweep
  <1> QED  BY <1>1, <1>4, <1>8, <1>9, <1>10, <1>11 DEF AloneNext, Descent

\* What main does meanwhile: no more than sending the packets of a request that is
\* its own.
LEMMA MainAlone ==
  ASSUME Alone, MainStep
  PROVE  AloneNext
  <1>1. ~LockFree("main")
    BY MarkersAssumption DEF Alone, LockFree, Thread
  <1>2. ~HandleArpreq("main")
    BY DEF Alone, HandleArpreq, Check, CheckTries, Resend, Store, Xmit,
       DiscardPacket, Enqueue, DiscardDone, Active
  <1>3. Flush
    BY <1>1, <1>2 DEF MainStep, Submit, Reply, MainQueue, FlushDone
  <1>4. UNCHANGED <<entries, requests, reqs, stack, fault>>
    BY <1>3 DEF Flush
  <1>5. Descent'
    <2>1. UNCHANGED SweepQueued /\ UNCHANGED SweepGivesUp
      BY <1>4 DEF SweepQueued, SweepGivesUp, GiveUp
    <2>2. UNCHANGED SweepDescends
      BY <1>4 DEF SweepDescends, LeadsTo, Cached
    <2>3. UNCHANGED SweepRevisits
      BY <1>4 DEF SweepRevisits
    <2> QED  BY <2>1, <2>2, <2>3, Zenon DEF Alone, Descent
  <1> QED  BY <1>4, <1>5 DEF Alone, AloneNext

\* Every step of a lone sweep but the last keeps it one.
LEMMA StepAlone ==
  ASSUME Alone, Inv', Next, lock' = "timeout"
  PROVE  AloneNext
  <1>1. fault = "none" /\ lock # NULL
    BY MarkersAssumption DEF Alone, Thread
  <1>2. CASE HandleArpreq("timeout")
    BY <1>2, CheckAlone, CheckTriesAlone, ResendAlone, StoreAlone, XmitAlone,
       DiscardPacketAlone, EnqueueAlone, DiscardDoneAlone DEF HandleArpreq
  <1>3. ~Wake /\ ~Rest /\ ~Crashed
    BY <1>1, MarkersAssumption DEF Wake, Rest, Crashed, Thread
  <1> QED  BY <1>2, <1>3, MainAlone, TickAlone, VisitAlone DEF Next, TimeoutStep

\* Nothing changes once the program has failed.
LEMMA FailedStays ==
  ASSUME Next, fault # "none"
  PROVE  UNCHANGED vars
  BY DEF Next, MainStep, TimeoutStep, Submit, Reply, MainQueue, Flush, FlushDone,
     HandleArpreq, Check, CheckTries, Resend, Store, Xmit, DiscardPacket, Enqueue,
     DiscardDone, Active, MainIdle, Wake, Visit, Rest, Tick, Crashed

\* Only an activation of the timeout thread makes it the one that fails.
LEMMA IdleNeverFails ==
  ASSUME Next, fault # "timeout", stack["timeout"] = <<>>
  PROVE  fault' # "timeout"
  <1>1. ~HandleArpreq("timeout")
    BY DEF HandleArpreq, Check, CheckTries, Resend, Store, Xmit,
       DiscardPacket, Enqueue, DiscardDone, Active
  <1>2. HandleArpreq("main") => fault' # "timeout"
    BY DEF HandleArpreq, Check, CheckTries, Resend, Store, Xmit,
       DiscardPacket, Enqueue, DiscardDone, Active, Dangling
  <1> QED  BY <1>1, <1>2 DEF Next, MainStep, TimeoutStep, Submit, Reply, MainQueue,
              Flush, FlushDone, Wake, Visit, Rest, Tick, Crashed, vars

\* The lock changes hands only where a sweep starts and ends.
LEMMA LockSteps ==
  ASSUME Next
  PROVE  UNCHANGED lock \/ Wake \/ Rest
  <1>1. \A t : HandleArpreq(t) => UNCHANGED lock
    BY DEF HandleArpreq, Check, CheckTries, Resend, Store, Xmit, DiscardPacket,
       Enqueue, DiscardDone, Dangling
  <1>2. MainStep => UNCHANGED lock
    BY <1>1 DEF MainStep, Submit, Reply, MainQueue, Flush, FlushDone
  <1> QED  BY <1>1, <1>2 DEF Next, TimeoutStep, Visit, Tick, Crashed, vars

\* A sweep that starts has no activations yet.
LEMMA WakeAlone ==
  ASSUME Inv, Wake
  PROVE  Descent' /\ stack' = stack
  <1>1. stack["timeout"] = <<>> /\ stack' = stack
    BY DEF Inv, LockCoversSweep, Wake
  <1>2. DOMAIN stack'["timeout"] = {}
    BY <1>1
  <1> QED  BY <1>1, <1>2 DEF Descent, SweepQueued, SweepGivesUp, SweepDescends,
              SweepRevisits

\* Every step keeps LoneSweep.
LEMMA NextLone ==
  ASSUME Inv, LoneSweep, [SweepNext]_sweepVars
  PROVE  Inv' /\ LoneSweep'
  <1>1. Inv'
    BY NextInv DEF SweepNext, sweepVars, vars
  <1>2. CASE UNCHANGED sweepVars
    <2>1. UNCHANGED <<entries, requests, reqs, lock, stack, fault, alone>>
      BY <1>2 DEF sweepVars, vars
    <2>2. UNCHANGED Descent
      BY <2>1 DEF Descent, SweepQueued, SweepGivesUp, SweepDescends, SweepRevisits,
         LeadsTo, Cached, GiveUp
    <2> QED  BY <1>1, <2>1, <2>2, Zenon DEF LoneSweep, Descent
  <1>3. CASE SweepNext
    <2>0. Next /\ lock \in {NULL, "timeout"} /\ NULL # "timeout"
      BY <1>3, MarkersAssumption DEF SweepNext, Inv, TypeOK, Thread
    <2> SUFFICES ASSUME alone'
                 PROVE  /\ fault' # "timeout"
                        /\ lock' = "timeout" /\ fault' = "none" =>
                             stack'["main"] = <<>> /\ Descent'
      BY <1>1, Zenon DEF LoneSweep, Descent
    <2>1. CASE fault # "none"
      <3>1. UNCHANGED <<fault, lock>>
        BY <2>0, <2>1, FailedStays DEF vars
      <3>2. alone
        BY <1>3, <2>0, <3>1 DEF SweepNext
      <3> QED  BY <2>1, <3>1, <3>2 DEF LoneSweep
    <2>2. CASE fault = "none" /\ lock = NULL
      <3>1. fault' # "timeout"
        BY <2>0, <2>2, IdleNeverFails DEF Inv, LockCoversSweep
      <3>2. ASSUME lock' = "timeout"
            PROVE  Wake /\ stack["main"] = <<>>
        <4>1. stack["main"] = <<>>
          BY <1>3, <2>2, <3>2 DEF SweepNext
        <4>2. lock' # lock
          BY <2>0, <2>2, <3>2
        <4>3. Wake
          BY <2>0, <2>2, <4>2, LockSteps DEF Rest
        <4> QED  BY <4>1, <4>3
      <3> QED  BY <3>1, <3>2, WakeAlone
    <2>3. CASE fault = "none" /\ lock = "timeout"
      <3>1. alone
        BY <1>3, <2>0, <2>3 DEF SweepNext
      <3>2. Alone
        BY <2>3, <3>1 DEF LoneSweep, Alone, Descent
      <3>3. CASE lock' = "timeout"
        BY <1>1, <2>0, <3>2, <3>3, StepAlone DEF AloneNext
      <3>4. CASE lock' # "timeout"
        <4>1. Rest
          BY <2>0, <2>3, <3>4, LockSteps DEF Wake
        <4> QED  BY <2>3, <3>4, <4>1 DEF Rest
      <3> QED  BY <3>3, <3>4
    <2> QED  BY <2>0, <2>1, <2>2, <2>3
  <1> QED  BY <1>1, <1>2, <1>3

\* The invariants of the two threads, and what a sweep relies on while main is
\* outside of handle_arpreq: its activations form a chain of requests given up,
\* each called for a packet of the one before.
THEOREM LoneSweepHolds == SweepSpec => [](Inv /\ LoneSweep)
  <1>1. SweepInit => Inv /\ LoneSweep
    <2>1. Init => lock # "timeout" /\ fault # "timeout"
      BY MarkersAssumption DEF Init, Thread
    <2> QED  BY <2>1, InitInv DEF SweepInit, LoneSweep
  <1>2. Inv /\ LoneSweep /\ [SweepNext]_sweepVars => (Inv /\ LoneSweep)'
    BY NextLone
  <1> QED  BY <1>1, <1>2, PTL DEF SweepSpec

\* However deep sr_arpcache_handle_arpreq calls itself, a sweep alone never uses a
\* request it has freed: it takes an activation of main that was under way when the
\* sweep started.
THEOREM LoneSweepSafe == SweepSpec => []LoneSweepKeepsRequests
  <1>1. Inv /\ LoneSweep => LoneSweepKeepsRequests
    BY DEF LoneSweep, LoneSweepKeepsRequests
  <1> QED  BY <1>1, LoneSweepHolds, PTL

=============================================================================
