----------------------------- MODULE SrArpSweep -----------------------------
(***************************************************************************)
(* SrArp with a history variable: whether main was outside of              *)
(* sr_arpcache_handle_arpreq when the timeout thread started its sweep.    *)
(* Main cannot enter it while the sweep holds the lock, since queueing a   *)
(* packet takes the lock, but it may still be inside from before.          *)
(***************************************************************************)
EXTENDS SrArp

VARIABLE alone

sweepVars == <<vars, alone>>

SweepInit == Init /\ alone = TRUE

SweepNext ==
  /\ Next
  /\ alone' = IF lock = NULL /\ lock' = "timeout" THEN stack["main"] = <<>>
              ELSE alone

SweepSpec == SweepInit /\ [][SweepNext]_sweepVars

-----------------------------------------------------------------------------
(* The activations of a lone sweep, from the outermost to the innermost. *)

\* The packet the discard loop f has taken last comes from ip, to which the
\* error about it has to be queued.
LeadsTo(f, ip) ==
  /\ f.left < Len(reqs[f.req].packets)
  /\ reqs[f.req].packets[f.left + 1].src = ip
  /\ RouterIp[ip] # NULL /\ ~Cached(ip)

\* The sweep works on requests of the queue.
SweepQueued ==
  \A i \in DOMAIN stack["timeout"] :
    \E k \in DOMAIN requests : requests[k] = stack["timeout"][i].req

\* A discard loop works on a request that is due and past its tries, and stays so.
SweepGivesUp ==
  \A i \in DOMAIN stack["timeout"] :
    LET f == stack["timeout"][i] IN
    /\ f.at \in {"tries", "discard", "enqueue"} => reqs[f.req].sent = Due
    /\ f.at \in {"discard", "enqueue"} => GiveUp(f.req)

\* All activations but the innermost are discard loops, each of which has called
\* the next one for the packet it took last.
SweepDescends ==
  /\ \A i \in DOMAIN stack["timeout"] :
       LET f == stack["timeout"][i] IN
       f.at = "enqueue" => LeadsTo(f, f.dst)
  /\ \A i, j \in DOMAIN stack["timeout"] :
       j = i + 1 =>
         /\ stack["timeout"][i].at = "discard"
         /\ LeadsTo(stack["timeout"][i], reqs[stack["timeout"][j].req].ip)

\* An activation for a request that one further out works on gives it up as well,
\* and does not get past the packet that the outer one took last, which leads down
\* again.
SweepRevisits ==
  \A i, j \in DOMAIN stack["timeout"] :
    LET f == stack["timeout"][i]
        g == stack["timeout"][j]
    IN
    i < j /\ f.req = g.req =>
      /\ g.at \in {"check", "tries", "discard", "enqueue"}
      /\ g.at \in {"discard", "enqueue"} => f.left <= g.left
      /\ g.at = "discard" /\ j = Len(stack["timeout"]) => f.left < g.left

\* What keeps LoneSweepKeepsRequests true from step to step.
LoneSweep ==
  alone =>
    /\ fault # "timeout"
    /\ lock = "timeout" /\ fault = "none" =>
         /\ stack["main"] = <<>>
         /\ SweepQueued /\ SweepGivesUp /\ SweepDescends /\ SweepRevisits

\* A sweep during which main is not in handle_arpreq never frees a request
\* that one of its own activations is still working on, however deep the calls
\* nest (sr_arpcache.c:115): a request that is met again on the way down is
\* past its tries and leads further down, not back.  Only a resend by main in
\* between breaks the chain and lets a nested call destroy what an outer one
\* uses.
LoneSweepKeepsRequests == alone => fault # "timeout"

=============================================================================
