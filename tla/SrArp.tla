------------------------------- MODULE SrArp -------------------------------
(***************************************************************************)
(* The ARP cache of the router and the two threads that share it.          *)
(*                                                                         *)
(* "main" runs sr_handlepacket for one packet after another: it looks a    *)
(* next hop up, queues the packet on an ARP request when there is no       *)
(* mapping, and serves ARP replies.  "timeout" runs sr_arpcache_timeout:   *)
(* every second it takes the lock, expires mappings and walks the queue of *)
(* requests.  Both call sr_arpcache_handle_arpreq; the timeout thread      *)
(* holds the (recursive) lock while it does, the main thread does not.     *)
(*                                                                         *)
(* A step is a critical section of sr_arpcache.c, or one access to a       *)
(* shared request outside of any.  The first undefined behaviour (a freed  *)
(* request, a null route, an exhausted stack) sets "fault" and ends the    *)
(* execution: nothing is claimed of what a build does after it.            *)
(*                                                                         *)
(* Time is kept as ages: seconds since the stored time_t, saturated where  *)
(* the code stops telling them apart.                                      *)
(***************************************************************************)
EXTENDS Naturals, Sequences, FiniteSets, SequencesExt

CONSTANTS
  IP,         \* addresses: hosts, and the router's own interfaces
  Mac,        \* hardware addresses
  Pkt,        \* packets to be sent, each handed over once
  ReqId,      \* addresses of struct sr_arpreq on the heap
  NULL,       \* the null pointer; also marks a packet that is an ICMP error
  NoEntry,    \* a cache slot whose valid flag is 0
  RouterIp,   \* own address on the interface the route to an IP names, or NULL
  Traffic,    \* [src, hop] of the packets sr_handlepacket may hand over
  Repliers,   \* addresses for which an ARP reply may reach the router
  CacheSz,    \* SR_ARPCACHE_SZ
  CacheTO,    \* SR_ARPCACHE_TO
  Tries,      \* ARP requests sent before giving up (5 in the code)
  MaxDepth    \* calls of sr_arpcache_handle_arpreq the C stack can hold

Slot == 1..CacheSz

Thread == {"main", "timeout"}

\* A request is due when difftime(now, sent) > 1.0, i.e. 2 whole seconds.
Due == 2

Entry == [ip : IP, mac : Mac, added : 0..(CacheTO + 1)]

Packet == [pkt : Pkt \cup {NULL}, src : IP]

\* "packets" is kept oldest first: the head of the C list is the last element.
\* "arps" counts the frames really sent for the request (not in the code).
Request == [ip : IP, sent : 0..Due, times_sent : Nat,
            packets : Seq(Packet), arps : Nat]

FrameAt == {"check", "tries", "resend", "store", "xmit", "discard", "enqueue"}

\* An activation of sr_arpcache_handle_arpreq: where it is, its argument, the
\* age of its curtime while it is needed, the times_sent it loaded, how many
\* packets its discard loop has left, and the destination of the ICMP error it
\* is about to queue.
Frame == [at : FrameAt, req : ReqId, cur : 0..Due, seen : Nat,
          left : Nat, dst : IP \cup {NULL}]

Fault == {"none", "main", "timeout", "visit", "route", "stack"}

ASSUME ConstantsAssumption ==
  /\ CacheSz \in Nat \ {0} /\ CacheTO \in Nat
  /\ Tries \in Nat \ {0} /\ MaxDepth \in Nat \ {0}

ASSUME RouterIpAssumption == RouterIp \in [IP -> IP \cup {NULL}]

ASSUME TrafficAssumption ==
  Traffic \subseteq [src : IP, hop : IP] /\ Repliers \subseteq IP

ASSUME MarkersAssumption ==
  /\ IP # {}
  /\ NULL \notin IP \cup Pkt \cup ReqId \cup Thread
  /\ NoEntry \notin Entry

VARIABLES
  entries,    \* cache->entries: slot -> mapping or NoEntry
  requests,   \* cache->requests, head first
  heap,       \* the allocated requests
  reqs,       \* contents of the allocated requests
  lock,       \* cache->lock as seen between steps: NULL or "timeout"
  job,        \* what main is doing outside of handle_arpreq
  stack,      \* thread -> activations of handle_arpreq, innermost last
  cursor,     \* req of sr_arpcache_sweepreqs, NULL at the end of the list
  slept,      \* the timeout thread's sleep(1.0) is over
  arrived,    \* packets handed over so far
  fwd,        \* packet -> how often it was sent towards its next hop
  settled,    \* packets a discard loop has dealt with
  fault       \* the first undefined behaviour

vars == <<entries, requests, heap, reqs, lock, job, stack, cursor, slept,
          arrived, fwd, settled, fault>>

Idle == [at |-> "idle"]

Job == {Idle}
       \cup [at : {"queue"}, pkt : Pkt, src : IP, hop : IP]
       \cup [at : {"flush"}, req : ReqId, left : Nat]

\* Mutant of Blank: allocated with malloc, the time of the last send is junk.
BlankUninitialised(ip) == [ip |-> ip, sent |-> Due + 1, times_sent |-> 0,
                           packets |-> <<>>, arps |-> 0]

\* A request as calloc leaves it: never sent, so due at once.
Blank(ip) == [ip |-> ip, sent |-> Due, times_sent |-> 0,
              packets |-> <<>>, arps |-> 0]

\* What a freed request holds is never read.
AnyIp == CHOOSE ip \in IP : TRUE

\* Every variable holds a value of its kind.
TypeOK ==
  /\ entries \in [Slot -> Entry \cup {NoEntry}]
  /\ requests \in Seq(ReqId)
  /\ heap \subseteq ReqId
  /\ reqs \in [ReqId -> Request]
  /\ lock \in {NULL, "timeout"}
  /\ job \in Job
  /\ stack \in [Thread -> Seq(Frame)]
  /\ cursor \in ReqId \cup {NULL}
  /\ slept \in BOOLEAN
  /\ arrived \subseteq Pkt
  /\ fwd \in [Pkt -> Nat]
  /\ settled \subseteq Pkt
  /\ fault \in Fault

-----------------------------------------------------------------------------
(* The cache and the queue of requests. *)

\* Mutant of Cached: the lookup has an opinion of its own on old mappings.
CachedUnexpired(ip) ==
  \E i \in Slot : /\ entries[i] # NoEntry /\ entries[i].ip = ip
                  /\ entries[i].added <= CacheTO

\* sr_arpcache_lookup finds a mapping.  It returns the one in the last slot that
\* matches; which hardware address that is makes no difference here.
Cached(ip) == \E i \in Slot : entries[i] # NoEntry /\ entries[i].ip = ip

\* Mutant of LockFree: the functions of sr_arpcache.c do not lock.
LockFreeAlways(t) == TRUE

\* Pthread mutexes are recursive here: the holder may lock again.
LockFree(t) == lock \in {NULL, t}

\* An address is handed out again only when no thread still points to it, so
\* that every use of a stale pointer shows up as a fault.
Referenced(r) ==
  \/ cursor = r
  \/ \E t \in Thread : \E i \in DOMAIN stack[t] : stack[t][i].req = r

Fresh == {r \in ReqId \ heap : ~Referenced(r)}

\* Mutant of Destroy: freed while still on the queue.
DestroyQueued(r) ==
  /\ heap' = heap \ {r}
  /\ reqs' = [reqs EXCEPT ![r] = Blank(AnyIp)]
  /\ UNCHANGED requests

\* sr_arpreq_destroy: off the queue if it is on it, then freed.
Destroy(r) ==
  /\ heap' = heap \ {r}
  /\ reqs' = [reqs EXCEPT ![r] = Blank(AnyIp)]
  /\ \/ /\ \A i \in DOMAIN requests : requests[i] # r
        /\ UNCHANGED requests
     \/ \E i \in DOMAIN requests :
          /\ requests[i] = r
          /\ \A j \in 1..(i - 1) : requests[j] # r
          /\ requests' = RemoveAt(requests, i)

-----------------------------------------------------------------------------
(* Activations of handle_arpreq. *)

\* Mutant of GiveUp: one request too early.
GiveUpEarly(r) == reqs[r].times_sent >= Tries - 1

\* req->times_sent >= 5
GiveUp(r) == reqs[r].times_sent >= Tries

\* Mutant of Waiting: the loop starts behind the head of the list.
WaitingButHead(r) == IF reqs[r].packets = <<>> THEN 0
                     ELSE Len(reqs[r].packets) - 1

\* The packets a loop that starts at req->packets will visit.
Waiting(r) == Len(reqs[r].packets)

Active(t, at) ==
  /\ fault = "none"
  /\ stack[t] # <<>>
  /\ stack[t][Len(stack[t])].at = at

Top(t) == stack[t][Len(stack[t])]

\* An activation that has read the time, cur seconds ago.
Timed(at, r, cur) == [at |-> at, req |-> r, cur |-> cur, seen |-> 0,
                      left |-> 0, dst |-> NULL]

\* An activation that adds one to the times_sent it has loaded.
Counting(at, r, seen) == [at |-> at, req |-> r, cur |-> 0, seen |-> seen,
                          left |-> 0, dst |-> NULL]

\* An activation that discards the packets 1..left, with an ICMP error for dst
\* in hand or none.
Discarding(at, r, left, dst) == [at |-> at, req |-> r, cur |-> 0, seen |-> 0,
                                 left |-> left, dst |-> dst]

\* An activation at the entry of the function.
Call(r) == Timed("check", r, 0)

SetTop(t, f) == stack' = [stack EXCEPT ![t][Len(stack[t])] = f]

Return(t) == stack' = [stack EXCEPT ![t] = Front(@)]

\* sr_arpcache_queuereq: find the request for ip or append a new one, add the
\* packet, and return the request, r.
QueueReq(ip, pk, r) ==
  \/ /\ \E i \in DOMAIN requests :
          /\ requests[i] = r /\ reqs[r].ip = ip
          /\ \A j \in 1..(i - 1) : reqs[requests[j]].ip # ip
     /\ reqs' = [reqs EXCEPT ![r].packets = Append(@, pk)]
     /\ UNCHANGED <<requests, heap>>
  \/ /\ \A i \in DOMAIN requests : reqs[requests[i]].ip # ip
     /\ Fresh # {} /\ r = CHOOSE x \in Fresh : TRUE
     /\ heap' = heap \cup {r}
     /\ requests' = Append(requests, r)
     /\ reqs' = [reqs EXCEPT ![r] = [Blank(ip) EXCEPT !.packets = <<pk>>]]

\* Using a request that has been freed.
Dangling(t, r) ==
  /\ r \notin heap
  /\ fault' = t
  /\ UNCHANGED <<entries, requests, heap, reqs, lock, job, stack, cursor,
                 slept, arrived, fwd, settled>>

\* time(NULL) and req->sent: not due yet, or go on.
Check(t) ==
  /\ Active(t, "check")
  /\ \/ Dangling(t, Top(t).req)
     \/ /\ Top(t).req \in heap
        /\ IF reqs[Top(t).req].sent < Due
           THEN Return(t)
           ELSE SetTop(t, Timed("tries", Top(t).req, 0))
        /\ UNCHANGED <<entries, requests, heap, reqs, lock, job, cursor,
                       slept, arrived, fwd, settled, fault>>

\* req->times_sent >= 5: give up, starting at the head of the packet list.
CheckTries(t) ==
  /\ Active(t, "tries")
  /\ \/ Dangling(t, Top(t).req)
     \/ LET r == Top(t).req IN
        /\ r \in heap
        /\ SetTop(t, IF GiveUp(r)
                     THEN Discarding("discard", r, Waiting(r), NULL)
                     ELSE Timed("resend", r, Top(t).cur))
        /\ UNCHANGED <<entries, requests, heap, reqs, lock, job, cursor,
                       slept, arrived, fwd, settled, fault>>

\* Route of the requested address, used without a null check; req->sent is
\* written and req->times_sent loaded.
Resend(t) ==
  /\ Active(t, "resend")
  /\ LET r == Top(t).req IN
     \/ Dangling(t, r)
     \/ /\ r \in heap
        /\ RouterIp[reqs[r].ip] = NULL
        /\ fault' = "route"
        /\ UNCHANGED <<reqs, stack>>
        /\ UNCHANGED <<entries, requests, heap, lock, job, cursor, slept,
                       arrived, fwd, settled>>
     \/ /\ r \in heap
        /\ RouterIp[reqs[r].ip] # NULL
        /\ reqs' = [reqs EXCEPT ![r].sent = Top(t).cur]
        /\ SetTop(t, Counting("store", r, reqs[r].times_sent))
        /\ UNCHANGED <<entries, requests, heap, lock, job, cursor, slept,
                       arrived, fwd, settled, fault>>

\* The second half of req->times_sent++.
Store(t) ==
  /\ Active(t, "store")
  /\ LET r == Top(t).req IN
     \/ Dangling(t, r)
     \/ /\ r \in heap
        /\ reqs' = [reqs EXCEPT ![r].times_sent = Top(t).seen + 1]
        /\ SetTop(t, Counting("xmit", r, 0))
        /\ UNCHANGED <<entries, requests, heap, lock, job, cursor, slept,
                       arrived, fwd, settled, fault>>

\* sr_send_packet of the ARP request; the request itself is not used.
Xmit(t) ==
  /\ Active(t, "xmit")
  /\ LET r == Top(t).req IN
     reqs' = IF r \in heap THEN [reqs EXCEPT ![r].arps = @ + 1] ELSE reqs
  /\ Return(t)
  /\ UNCHANGED <<entries, requests, heap, lock, job, cursor, slept, arrived,
                 fwd, settled, fault>>

\* Mutant of DiscardPacket: the loop unlinks the packets it deals with, and
\* makes no error about an error.
DiscardPacketUnlinks(t) ==
  /\ Active(t, "discard") /\ Top(t).left > 0
  /\ LET r == Top(t).req
         pk == reqs[r].packets[Top(t).left]
         rest == Top(t).left - 1
     IN
     \/ Dangling(t, r)
     \/ /\ r \in heap
        /\ LockFree(t)
        /\ settled' = settled \cup ({pk.pkt} \ {NULL})
        /\ reqs' = [reqs EXCEPT ![r].packets = SubSeq(@, 1, rest)]
        /\ SetTop(t, IF pk.pkt = NULL \/ RouterIp[pk.src] = NULL
                        \/ Cached(pk.src)
                     THEN Discarding("discard", r, rest, NULL)
                     ELSE Discarding("enqueue", r, rest, pk.src))
        /\ UNCHANGED <<entries, requests, heap, lock, job, cursor,
                       slept, arrived, fwd, fault>>

\* One turn of the loop over the packets of a request that is given up: no
\* route back to the source, source cached (the ICMP error is sent), or not
\* (it has to be queued).
DiscardPacket(t) ==
  /\ Active(t, "discard") /\ Top(t).left > 0
  /\ LET r == Top(t).req
         pk == reqs[r].packets[Top(t).left]
         rest == Top(t).left - 1
     IN
     \/ Dangling(t, r)
     \/ /\ r \in heap
        /\ settled' = settled \cup ({pk.pkt} \ {NULL})
        /\ \/ /\ RouterIp[pk.src] = NULL
              /\ SetTop(t, Discarding("discard", r, rest, NULL))
           \/ /\ RouterIp[pk.src] # NULL
              /\ LockFree(t)
              /\ SetTop(t, IF Cached(pk.src)
                           THEN Discarding("discard", r, rest, NULL)
                           ELSE Discarding("enqueue", r, rest, pk.src))
        /\ UNCHANGED <<entries, requests, heap, reqs, lock, job, cursor,
                       slept, arrived, fwd, fault>>

\* The ICMP error is queued for the source of the packet, and the request it
\* waits on handled at once: the recursive call.
Enqueue(t) ==
  /\ Active(t, "enqueue")
  /\ LockFree(t)
  /\ \E r \in ReqId :
       /\ QueueReq(Top(t).dst, [pkt |-> NULL, src |-> RouterIp[Top(t).dst]], r)
       /\ IF Len(stack[t]) = MaxDepth
          THEN fault' = "stack" /\ UNCHANGED stack
          ELSE /\ stack' = [stack EXCEPT ![t] =
                     Append([@ EXCEPT ![Len(stack[t])] =
                               Discarding("discard", Top(t).req, Top(t).left,
                                          NULL)],
                            Call(r))]
               /\ UNCHANGED fault
  /\ UNCHANGED <<entries, lock, job, cursor, slept, arrived, fwd, settled>>

\* The loop is over: sr_arpreq_destroy.
DiscardDone(t) ==
  /\ Active(t, "discard") /\ Top(t).left = 0
  /\ \/ Dangling(t, Top(t).req)
     \/ /\ Top(t).req \in heap
        /\ LockFree(t)
        /\ Destroy(Top(t).req)
        /\ Return(t)
        /\ UNCHANGED <<entries, lock, job, cursor, slept, arrived, fwd,
                       settled, fault>>

HandleArpreq(t) ==
  Check(t) \/ CheckTries(t) \/ Resend(t) \/ Store(t) \/ Xmit(t)
    \/ DiscardPacket(t) \/ Enqueue(t) \/ DiscardDone(t)

-----------------------------------------------------------------------------
(* The main thread: sr_handlepacket as far as it uses the cache. *)

MainIdle == fault = "none" /\ job = Idle /\ stack["main"] = <<>>

\* Mutant of Submit: sent whether there is a mapping or not.
SubmitBlind(p, flow) ==
  /\ MainIdle
  /\ p \notin arrived
  /\ LockFree("main")
  /\ arrived' = arrived \cup {p}
  /\ fwd' = [fwd EXCEPT ![p] = @ + 1]
  /\ UNCHANGED <<entries, requests, heap, reqs, lock, job, stack, cursor, slept,
                 settled, fault>>

\* A packet is to be sent to its next hop: sent with the copy of the mapping
\* if there is one, else to be queued.
Submit(p, flow) ==
  /\ MainIdle
  /\ p \notin arrived
  /\ LockFree("main")
  /\ arrived' = arrived \cup {p}
  /\ IF Cached(flow.hop)
     THEN fwd' = [fwd EXCEPT ![p] = @ + 1] /\ UNCHANGED job
     ELSE /\ job' = [at |-> "queue", pkt |-> p,
                     src |-> flow.src, hop |-> flow.hop]
          /\ UNCHANGED fwd
  /\ UNCHANGED <<entries, requests, heap, reqs, lock, stack, cursor, slept,
                 settled, fault>>

\* sr_arpcache_queuereq, then handle_arpreq outside of the lock.
MainQueue ==
  /\ fault = "none" /\ job.at = "queue"
  /\ LockFree("main")
  /\ \E r \in ReqId :
       /\ QueueReq(job.hop, [pkt |-> job.pkt, src |-> job.src], r)
       /\ stack' = [stack EXCEPT !["main"] = <<Call(r)>>]
  /\ job' = Idle
  /\ UNCHANGED <<entries, lock, cursor, slept, arrived, fwd, settled, fault>>

\* Mutant of Reply: the answered request stays on the queue.
ReplyKeepsQueued(ip, mac) ==
  /\ MainIdle
  /\ LockFree("main")
  /\ \/ /\ \A i \in DOMAIN requests : reqs[requests[i]].ip # ip
        /\ UNCHANGED job
     \/ \E i \in DOMAIN requests :
          /\ reqs[requests[i]].ip = ip
          /\ job' = [at |-> "flush", req |-> requests[i],
                     left |-> Waiting(requests[i])]
  /\ UNCHANGED <<entries, requests, heap, reqs, lock, stack, cursor, slept,
                 arrived, fwd, settled, fault>>

\* An ARP reply: sr_arpcache_insert takes the request for ip off the queue and
\* writes the mapping to the first free slot, or nowhere when there is none.
Reply(ip, mac) ==
  /\ MainIdle
  /\ LockFree("main")
  /\ \/ /\ \A i \in DOMAIN requests : reqs[requests[i]].ip # ip
        /\ UNCHANGED <<requests, job>>
     \/ \E i \in DOMAIN requests :
          LET r == requests[i] IN
          /\ reqs[r].ip = ip
          /\ \A j \in 1..(i - 1) : reqs[requests[j]].ip # ip
          /\ requests' = RemoveAt(requests, i)
          /\ job' = [at |-> "flush", req |-> r, left |-> Waiting(r)]
  /\ \/ /\ \A s \in Slot : entries[s] # NoEntry
        /\ UNCHANGED entries
     \/ \E s \in Slot :
          /\ entries[s] = NoEntry
          /\ \A j \in 1..(s - 1) : entries[j] # NoEntry
          /\ entries' = [entries EXCEPT ![s] =
                           [ip |-> ip, mac |-> mac, added |-> 0]]
  /\ UNCHANGED <<heap, reqs, lock, stack, cursor, slept, arrived, fwd,
                 settled, fault>>

\* Mutant of Flush: the loop does not move on.
FlushStuck ==
  /\ fault = "none" /\ job.at = "flush" /\ job.left > 0
  /\ UNCHANGED vars

\* One turn of the loop that sends the packets of the answered request, which
\* FlushOwns shows to be allocated.
Flush ==
  /\ fault = "none" /\ job.at = "flush" /\ job.left > 0
  /\ LET p == reqs[job.req].packets[job.left].pkt IN
     fwd' = IF p = NULL THEN fwd ELSE [fwd EXCEPT ![p] = @ + 1]
  /\ job' = [job EXCEPT !.left = @ - 1]
  /\ UNCHANGED <<entries, requests, heap, reqs, lock, stack, cursor, slept,
                 arrived, settled, fault>>

\* The loop is over: sr_arpreq_destroy.
FlushDone ==
  /\ fault = "none" /\ job.at = "flush" /\ job.left = 0
  /\ LockFree("main")
  /\ Destroy(job.req)
  /\ job' = Idle
  /\ UNCHANGED <<entries, lock, stack, cursor, slept, arrived, fwd, settled,
                 fault>>

-----------------------------------------------------------------------------
(* The timeout thread: sr_arpcache_timeout and sr_arpcache_sweepreqs. *)

\* Mutant of Wake: the difference of the times is taken the wrong way round.
WakeKeeps ==
  /\ fault = "none" /\ slept /\ lock = NULL
  /\ lock' = "timeout"
  /\ slept' = FALSE
  /\ cursor' = IF requests = <<>> THEN NULL ELSE Head(requests)
  /\ UNCHANGED <<entries, requests, heap, reqs, job, stack, arrived, fwd,
                 settled, fault>>

\* The sleep is over: lock, expire old mappings, start at the head.
Wake ==
  /\ fault = "none" /\ slept /\ lock = NULL
  /\ lock' = "timeout"
  /\ slept' = FALSE
  /\ entries' = [i \in Slot |-> IF entries[i] # NoEntry
                                   /\ entries[i].added > CacheTO
                                THEN NoEntry ELSE entries[i]]
  /\ cursor' = IF requests = <<>> THEN NULL ELSE Head(requests)
  /\ UNCHANGED <<requests, heap, reqs, job, stack, arrived, fwd, settled,
                 fault>>

\* req->next of a request on the queue.
NextReq(r) ==
  LET i == CHOOSE i \in DOMAIN requests : requests[i] = r
  IN IF i < Len(requests) THEN requests[i + 1] ELSE NULL

\* The loop of sr_arpcache_sweepreqs: save req->next, call handle_arpreq.
Visit ==
  /\ fault = "none" /\ lock = "timeout" /\ stack["timeout"] = <<>>
  /\ cursor # NULL
  /\ \/ /\ cursor \notin heap
        /\ fault' = "visit"
        /\ UNCHANGED <<stack, cursor>>
     \/ /\ cursor \in heap
        /\ stack' = [stack EXCEPT !["timeout"] = <<Call(cursor)>>]
        /\ cursor' = NextReq(cursor)
        /\ UNCHANGED fault
  /\ UNCHANGED <<entries, requests, heap, reqs, lock, job, slept, arrived,
                 fwd, settled>>

\* Mutant of Rest: no unlock before the sleep.
RestLocked ==
  /\ fault = "none" /\ lock = "timeout" /\ stack["timeout"] = <<>>
  /\ cursor = NULL
  /\ UNCHANGED vars

\* The end of the queue: unlock and sleep.
Rest ==
  /\ fault = "none" /\ lock = "timeout" /\ stack["timeout"] = <<>>
  /\ cursor = NULL
  /\ lock' = NULL
  /\ UNCHANGED <<entries, requests, heap, reqs, job, stack, cursor, slept,
                 arrived, fwd, settled, fault>>

-----------------------------------------------------------------------------
(* The clock. *)

Older(age, limit) == IF age < limit THEN age + 1 ELSE age

\* A second passes.
Tick ==
  /\ fault = "none"
  /\ slept' = (slept \/ lock = NULL)
  /\ entries' = [i \in Slot |->
                   IF entries[i] = NoEntry THEN NoEntry
                   ELSE [entries[i] EXCEPT !.added = Older(@, CacheTO + 1)]]
  /\ reqs' = [r \in ReqId |-> [reqs[r] EXCEPT !.sent = Older(@, Due)]]
  /\ stack' = [t \in Thread |->
                 [i \in DOMAIN stack[t] |->
                    IF stack[t][i].at \in {"tries", "resend"}
                    THEN [stack[t][i] EXCEPT !.cur = Older(@, Due)]
                    ELSE stack[t][i]]]
  /\ UNCHANGED <<requests, heap, lock, job, cursor, arrived, fwd, settled,
                 fault>>

\* After an undefined behaviour nothing is said of the program.
Crashed == fault # "none" /\ UNCHANGED vars

-----------------------------------------------------------------------------
Init ==
  /\ entries = [i \in Slot |-> NoEntry]
  /\ requests = <<>>
  /\ heap = {}
  /\ reqs = [r \in ReqId |-> Blank(AnyIp)]
  /\ lock = NULL
  /\ job = Idle
  /\ stack = [t \in Thread |-> <<>>]
  /\ cursor = NULL
  /\ slept = FALSE
  /\ arrived = {}
  /\ fwd = [p \in Pkt |-> 0]
  /\ settled = {}
  /\ fault = "none"

MainStep ==
  \/ \E p \in Pkt, flow \in Traffic : Submit(p, flow)
  \/ \E ip \in Repliers, mac \in Mac : Reply(ip, mac)
  \/ MainQueue \/ Flush \/ FlushDone \/ HandleArpreq("main")

TimeoutStep == Wake \/ Visit \/ Rest \/ HandleArpreq("timeout")

Next == MainStep \/ TimeoutStep \/ Tick \/ Crashed

Spec == Init /\ [][Next]_vars

\* What main does once it has a packet in hand.
MainProgress == MainQueue \/ Flush \/ FlushDone \/ HandleArpreq("main")

\* Both threads are scheduled and seconds pass.  Main may find the lock taken
\* again and again, but the timeout thread sleeps a second between any two
\* sweeps without holding it: main gets it if it keeps trying.
Fairness ==
  /\ WF_vars(Tick)
  /\ WF_vars(TimeoutStep)
  /\ SF_vars(MainProgress)

LiveSpec == Spec /\ Fairness

-----------------------------------------------------------------------------
(* Safety. *)

\* The queue of requests (sr_arpcache_queuereq, _insert, sr_arpreq_destroy)
\* holds allocated requests, none twice, and at most one for an address, in
\* spite of requests created inside of the sweep over it and of requests
\* destroyed by a nested call.
QueueSound ==
  /\ \A i \in DOMAIN requests : requests[i] \in heap
  /\ \A i, j \in DOMAIN requests :
       i # j => /\ requests[i] # requests[j]
                /\ reqs[requests[i]].ip # reqs[requests[j]].ip

\* No packet waits for an address the cache has a mapping of: the miss that
\* makes sr_handlepacket or the discard loop call sr_arpcache_queuereq is
\* still a miss when the request is queued, although the lock is released in
\* between (sr_router.c:363 to 372, sr_arpcache.c:100 to 109).
CachedXorPending ==
  \A s \in Slot, i \in DOMAIN requests :
    entries[s] # NoEntry => entries[s].ip # reqs[requests[i]].ip

\* The request sr_arpcache_insert hands to main is main's alone while its
\* packets are sent without the lock (sr_router.c:472): allocated, off the
\* queue, and neither the sweep nor an activation of handle_arpreq points to
\* it.
FlushOwns ==
  job.at = "flush" =>
    /\ job.req \in heap
    /\ job.left <= Len(reqs[job.req].packets)
    /\ \A i \in DOMAIN requests : requests[i] # job.req
    /\ ~Referenced(job.req)

\* What keeps QueueSound, CachedXorPending and FlushOwns true from step to
\* step: the timeout thread sweeps under the lock, main does one thing at a
\* time, the saved cursor is on the queue as long as it is allocated, a packet
\* loop stays inside of its list, and an address that a thread is about to
\* queue a packet for is still not cached.
LockCoversSweep == lock = NULL => stack["timeout"] = <<>> /\ cursor = NULL

MainDoesOneThing == job # Idle => stack["main"] = <<>>

CursorQueued ==
  cursor \in heap => \E i \in DOMAIN requests : requests[i] = cursor

ActivationOK(f) ==
  /\ f.at \in {"discard", "enqueue"} /\ f.req \in heap =>
       f.left <= Len(reqs[f.req].packets)
  /\ f.at = "enqueue" =>
       f.dst \in IP /\ RouterIp[f.dst] # NULL /\ ~Cached(f.dst)

ActivationsOK ==
  \A t \in Thread : \A i \in DOMAIN stack[t] : ActivationOK(stack[t][i])

QueueJobMisses == job.at = "queue" => ~Cached(job.hop)

Inv ==
  /\ TypeOK
  /\ QueueSound /\ CachedXorPending /\ FlushOwns
  /\ LockCoversSweep /\ MainDoesOneThing /\ CursorQueued
  /\ ActivationsOK /\ QueueJobMisses

\* Frames for request r that handle_arpreq has counted but not sent yet.
InFlight(r) ==
  {at \in Thread \X (1..MaxDepth) :
     /\ at[2] \in DOMAIN stack[at[1]]
     /\ stack[at[1]][at[2]].at = "xmit" /\ stack[at[1]][at[2]].req = r}

\* Nobody gives an address up before the ARP requests counted in times_sent
\* were sent, up to those a thread is about to send: whatever increments the
\* two threads lose against each other, the count never runs ahead.
TriesBeforeGivingUp ==
  \A t \in Thread : \A i \in DOMAIN stack[t] :
    LET f == stack[t][i] IN
    f.at \in {"discard", "enqueue"} /\ f.req \in heap =>
      reqs[f.req].arps + Cardinality(InFlight(f.req)) >= Tries

\* What keeps TriesBeforeGivingUp true from step to step: the count of a
\* request, and a count an activation has loaded and not yet written back, are
\* covered by what was sent or is about to be.
TriesCovered ==
  /\ TriesBeforeGivingUp
  /\ \A t \in Thread : Len(stack[t]) <= MaxDepth
  /\ \A r \in heap :
       reqs[r].times_sent <= reqs[r].arps + Cardinality(InFlight(r))
  /\ \A t \in Thread : \A i \in DOMAIN stack[t] :
       LET f == stack[t][i] IN
       f.at = "store" /\ f.req \in heap =>
         f.seen <= reqs[f.req].arps + Cardinality(InFlight(f.req))

\* The packet waits in a request, or is on its way into one.
Pending(p) ==
  \/ \E r \in heap : \E i \in DOMAIN reqs[r].packets :
       reqs[r].packets[i].pkt = p
  \/ job.at = "queue" /\ job.pkt = p

\* No packet is lost and none is sent twice: a packet handed over is waiting,
\* was sent to its next hop, or was dealt with by a discard loop; it is sent
\* at most once, and never both sent and discarded.
PacketAccounted ==
  \A p \in arrived :
    /\ fwd[p] = 0 => p \in settled \/ Pending(p)
    /\ fwd[p] <= 1
    /\ fwd[p] = 1 => p \notin settled

-----------------------------------------------------------------------------
(* Liveness. *)

\* A packet handed over is sent or dealt with by a discard loop, unless the
\* program has failed before: requests are resent and given up in time, even
\* though main and the sweep both count the attempts.
PacketSettles ==
  \A p \in Pkt :
    p \in arrived ~> fwd[p] > 0 \/ p \in settled \/ fault # "none"

\* The sweep ends and gives the lock back, although handle_arpreq may append
\* to the queue that is swept.
SweepEnds == lock = "timeout" ~> lock = NULL \/ fault # "none"

\* A slot of the cache that is taken becomes free again, so that a full cache,
\* in which sr_arpcache_insert remembers nothing, does not stay full: expiry
\* reaches every mapping although replies keep coming.
SlotFreed ==
  \A s \in Slot : entries[s] # NoEntry ~> entries[s] = NoEntry \/ fault # "none"

\* Main returns to the socket after every packet.
MainReturns == ~MainIdle ~> MainIdle \/ fault # "none"

-----------------------------------------------------------------------------
(* What the comments of sr_arpcache.[ch] say and the code does not do. *)

\* sr_arpcache_queuereq returns "a pointer to the ARP request" for the caller
\* to use and to destroy: main finds it allocated when handle_arpreq uses it.
ReturnedRequestUsable == fault # "main"

\* Saving the next pointer before calling handle_arpreq is enough to walk the
\* queue while handle_arpreq destroys requests.
SavedNextUsable == fault # "visit"

\* Giving a request up is: send an ICMP host unreachable for every packet,
\* destroy the request, return.
GivingUpReturns == fault # "stack"

=============================================================================
