------------------------------ MODULE MCSrArp ------------------------------
(* Instances of SrArp for TLC. *)
EXTENDS SrArpResolve

CONSTANTS
  a, b,     \* two hosts on attached subnets
  c,        \* an address no route leads to
  own       \* the router's address towards the hosts

MCIP == {a, b, c, own}

\* The subnets are attached: every host and the router's own address, which
\* lies in the subnet, have a route out of the interface "own".
Attached == [ip \in MCIP |-> IF ip = c THEN NULL ELSE own]

\* Packets between the hosts, and an ICMP error for an unroutable source.
BothWays == {[src |-> a, hop |-> b], [src |-> b, hop |-> a],
             [src |-> own, hop |-> c]}

\* Packets from one host to the other.
OneWay == {[src |-> a, hop |-> b]}

\* Packets from the second host to the first, and from an address without a
\* route to the second.
FromUnrouted == {[src |-> b, hop |-> a], [src |-> c, hop |-> b]}

\* Requests differ by their address only.
ReqSymmetry == Permutations(ReqId)

=============================================================================
