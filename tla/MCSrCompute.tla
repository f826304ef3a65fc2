----------------------------- MODULE MCSrCompute ----------------------------
(***************************************************************************)
(* The instance of SrSha1, SrCksum and SrLpm, the computations of the      *)
(* router.  They have nothing in common: in a behaviour one of them goes   *)
(* on and the other two rest.                                              *)
(***************************************************************************)
EXTENDS SrSha1, SrCksum, SrLpm

MCPieces == 0..3
MCLens == {4, 5}

\* The routing tables of at most three entries.
UpToThree == UNION {[1..n -> Route] : n \in 0..3}

computeVars == <<shaVars, cksumVars, vars>>

\* A message whose checksum is not looked at: no action of SrCksum is enabled.
CksumRests ==
  /\ at = "in" /\ kind = "icmp" /\ relayed = FALSE
  /\ data = <<0, 0, 0, 0>> /\ received = data

\* A search through an empty table, which is over.
LpmRests ==
  rtable = <<>> /\ ip_dst = {} /\ entry = 1 /\ lpmentry = 0 /\ lpmmask = {}

ComputeInit ==
  /\ ShaInit
  /\ (CksumInit /\ LpmRests) \/ (CksumRests /\ Init)

ComputeNext ==
  \/ CksumRests /\ LpmRests /\ ShaNext /\ UNCHANGED <<cksumVars, vars>>
  \/ CksumNext /\ UNCHANGED <<shaVars, vars>>
  \/ Next /\ UNCHANGED <<shaVars, cksumVars>>

ComputeSpec == ComputeInit /\ [][ComputeNext]_computeVars

=============================================================================
