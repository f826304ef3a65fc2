----------------------------- MODULE SrResolve -----------------------------
(***************************************************************************)
(* What address resolution promises to the rest of the router, without the *)
(* threads, the lock, the queue and the pointers of sr_arpcache.c: a packet *)
(* handed over for a next hop is sent at once when the hop is known, else  *)
(* waits until the hop answers and is then sent, or is reported            *)
(* unreachable.  An answer frees all packets that wait for the hop at one  *)
(* moment.  SrArpResolve shows that SrArp implements it.                   *)
(***************************************************************************)
EXTENDS Naturals

CONSTANTS
  Pkt,   \* packets, each handed over once
  IP     \* next hops

VARIABLES
  state,   \* packet -> what has become of it
  known,   \* next hops with a mapping
  failed   \* the program has met undefined behaviour

vars == <<state, known, failed>>

Waiting(ip) == [waits |-> ip]

Fate == {"new", "answered", "sent", "unreachable"}

\* Every variable holds a value of its kind.
TypeOK ==
  /\ state \in [Pkt -> {[is |-> f] : f \in Fate} \cup {Waiting(ip) : ip \in IP}]
  /\ known \subseteq IP
  /\ failed \in BOOLEAN

Is(f) == [is |-> f]

Become(p, f) == state' = [state EXCEPT ![p] = f]

Init ==
  /\ state = [p \in Pkt |-> Is("new")]
  /\ known = {}
  /\ failed = FALSE

\* A packet for a known hop is sent, one for an unknown hop waits.
Offer(p, ip) ==
  /\ ~failed /\ state[p] = Is("new")
  /\ Become(p, IF ip \in known THEN Is("sent") ELSE Waiting(ip))
  /\ UNCHANGED <<known, failed>>

\* The hop answers: every packet that waits for it will be sent, whether the
\* mapping can be remembered or not.
Answer(ip) ==
  /\ ~failed
  /\ state' = [p \in Pkt |-> IF state[p] = Waiting(ip) THEN Is("answered")
                             ELSE state[p]]
  /\ known' \in {known, known \cup {ip}}
  /\ UNCHANGED failed

Deliver(p) ==
  /\ ~failed /\ state[p] = Is("answered")
  /\ Become(p, Is("sent"))
  /\ UNCHANGED <<known, failed>>

\* Only a packet whose hop is still unknown is given up.
GiveUp(p) ==
  /\ ~failed
  /\ \E ip \in IP \ known : state[p] = Waiting(ip)
  /\ Become(p, Is("unreachable"))
  /\ UNCHANGED <<known, failed>>

\* Mappings time out.
Expire ==
  /\ ~failed
  /\ known' \in SUBSET known
  /\ UNCHANGED <<state, failed>>

Fail == failed' = TRUE /\ UNCHANGED <<state, known>>

Next ==
  \/ Expire \/ Fail
  \/ \E p \in Pkt : Deliver(p) \/ GiveUp(p) \/ \E ip \in IP : Offer(p, ip)
  \/ \E ip \in IP : Answer(ip)

Spec == Init /\ [][Next]_vars

\* No packet waits for a hop that is known: a packet that was handed over too
\* late for the answer is sent, one that was handed over before it is freed by
\* it.
NoneWaitsForKnown == \A p \in Pkt, ip \in known : state[p] # Waiting(ip)

=============================================================================
