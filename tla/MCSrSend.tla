------------------------------ MODULE MCSrSend ------------------------------
(* Instances of SrSend for TLC. *)
EXTENDS SrSend

\* Both threads send; one frame of main's is refused, and those of the timeout
\* thread make commands longer than the send buffer.
MCCalls ==
  {[by |-> "main", len |-> 1, match |-> TRUE],
   [by |-> "main", len |-> 1, match |-> FALSE],
   [by |-> "timeout", len |-> 2, match |-> TRUE]}

=============================================================================
