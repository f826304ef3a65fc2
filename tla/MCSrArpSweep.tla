---------------------------- MODULE MCSrArpSweep ----------------------------
(* Instances of SrArpSweep for TLC. *)
EXTENDS MCSrArp, SrArpSweep

=============================================================================
