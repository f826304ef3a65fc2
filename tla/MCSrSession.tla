---------------------------- MODULE MCSrSession ----------------------------
(* Instances of SrSession for TLC. *)
EXTENDS SrSession

CONSTANTS e1, e2, v1, v2, v3, v4

Entry(k, v) == [key |-> k, val |-> v]

\* Two interfaces, described as the server does, and only the first of them.
BothInterfaces ==
  <<Entry("interface", e1), Entry("speed", v1), Entry("ether", v1),
    Entry("ethip", v2), Entry("interface", e2), Entry("ether", v3),
    Entry("ethip", v4)>>

OneInterface == <<Entry("interface", e1), Entry("ethip", v2), Entry("ether", v1)>>

\* Commands of every kind, of two sizes, and one that is too long.
MCMessage ==
  {[cmd |-> "auth_request", body |-> 1],
   [cmd |-> "auth_status", body |-> 2, auth_ok |-> TRUE],
   [cmd |-> "auth_status", body |-> 2, auth_ok |-> FALSE],
   [cmd |-> "rtable", body |-> 2, table |-> <<e1>>],
   [cmd |-> "rtable", body |-> 2, table |-> <<e1, BadLine>>],
   [cmd |-> "hwinfo", body |-> 2, entries |-> BothInterfaces],
   [cmd |-> "hwinfo", body |-> 2, entries |-> OneInterface],
   [cmd |-> "hwinfo", body |-> 1, entries |-> <<Entry("ethip", v2)>>],
   [cmd |-> "packet", body |-> 2, iface |-> e1, long |-> TRUE,
    not_for_us |-> FALSE],
   [cmd |-> "packet", body |-> 2, iface |-> e2, long |-> TRUE,
    not_for_us |-> TRUE],
   [cmd |-> "packet", body |-> 1, iface |-> e2, long |-> FALSE,
    not_for_us |-> FALSE],
   [cmd |-> "banner", body |-> 1],
   [cmd |-> "unknown", body |-> 3],
   [cmd |-> "close", body |-> 1]}

MCTables == {<<e1>>, <<e1, e2>>, <<e1, BadLine>>, <<>>, NoFile}

=============================================================================
