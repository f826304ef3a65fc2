------------------------------- MODULE SrCksum ------------------------------
(***************************************************************************)
(* cksum of sr_utils.c and the router's two uses of it: to check an IP     *)
(* header or an echo request that arrived (the field is saved, zeroed and  *)
(* compared with what cksum returns), and to fill in the field of what it  *)
(* sends (the header of a packet it forwards or answers, an echo reply).   *)
(*                                                                         *)
(* An octet has Byte values instead of 256 and a word is two octets; the   *)
(* accumulator of cksum is two words wide.  What the router sent may       *)
(* arrive at a router that runs the same code.                             *)
(***************************************************************************)
EXTENDS Integers, Sequences

CONSTANTS
  Byte,         \* number of values of an octet (256)
  Lens,         \* lengths of the ICMP messages
  IpLen,        \* length of an IP header (20)
  TtlAt,        \* the octet of an IP header that holds ip_ttl (9)
  SrcAt,        \* its first octet of ip_src (13)
  DstAt,        \* its first octet of ip_dst (17)
  AddrLen,      \* octets of an address (4)
  InitTtl,      \* INIT_TTL (255)
  EchoRequest   \* icmp_type of an echo request (8)

\* The number of values of a word.
WordMod == Byte * Byte

Octets == 0..(Byte - 1)

\* The octets of an address that starts at octet n.
Address(n) == n..(n + AddrLen - 1)

ASSUME LengthsAssumption ==
  /\ Byte \in Nat /\ Byte > 1 /\ EchoRequest \in 1..(Byte - 1)
  /\ IpLen \in Nat /\ IpLen % 2 = 0 /\ TtlAt \in (1..IpLen) \ {3, 4}
  /\ \A n \in Lens \cup {IpLen} : n \in 4..(WordMod - 1)   \* 16-bit lengths
  /\ InitTtl \in Octets /\ SrcAt \in Nat /\ DstAt \in Nat /\ AddrLen \in Nat
  /\ Address(SrcAt) \cup Address(DstAt) \subseteq (1..IpLen) \ {3, 4, TtlAt}

VARIABLES
  at,        \* "in", "accepted", "dropped" or "out"
  kind,      \* "ip" or "icmp"
  data,      \* the octets of the header or message
  received,  \* data as it arrived
  relayed    \* the data was sent by a router that runs this code

cksumVars == <<at, kind, data, received, relayed>>

-----------------------------------------------------------------------------
(* cksum *)

\* data[0] << 8 | data[1], or data[0] << 8 where only one octet is left.
WordAt(d, i) == d[i] * Byte + (IF i = Len(d) THEN 0 ELSE d[i + 1])

\* sum after the words are added.
Added(d) ==
  LET words == (Len(d) + 1) \div 2
      sum[k \in 0..words] ==
        IF k = 0 THEN 0 ELSE (sum[k - 1] + WordAt(d, 2 * k - 1)) % (WordMod * WordMod)
  IN sum[words]

\* while (sum > 0xffff) sum = (sum >> 16) + (sum & 0xffff)
Folded[sum \in 0..(WordMod * WordMod - 1)] ==
  IF sum < WordMod THEN sum ELSE Folded[(sum \div WordMod) + (sum % WordMod)]

\* Mutant of cksum: the carries are added once, not until there are none.
cksumCarryOnce(d) ==
  LET sum == WordMod - 1 - ((Added(d) \div WordMod) + (Added(d) % WordMod))
  IN IF sum = 0 THEN WordMod - 1 ELSE sum

\* Mutant of cksum: the complement is returned as it is.
cksumPlain(d) == WordMod - 1 - Folded[Added(d)]

\* sum = htons(~sum); return sum ? sum : 0xffff
cksum(d) ==
  LET sum == WordMod - 1 - Folded[Added(d)] IN IF sum = 0 THEN WordMod - 1 ELSE sum

-----------------------------------------------------------------------------
(* The callers. *)

\* The field is the second word (of an IP header it is the sixth, which makes
\* no difference to a sum).
Field(d) == WordAt(d, 3)
WithField(d, word) == [d EXCEPT ![3] = word \div Byte, ![4] = word % Byte]

\* ip_sum = 0; ip_sum = cksum(...), and the same of icmp_sum.
Fill(d) == WithField(d, cksum(WithField(d, 0)))

\* The check of a header, or of an echo request, that arrived.  The field is
\* put back only in what is accepted.
Check ==
  /\ at = "in" /\ (kind = "icmp" => data[1] = EchoRequest)
  /\ IF Field(data) = cksum(WithField(data, 0))
     THEN at' = "accepted" /\ UNCHANGED data
     ELSE at' = "dropped" /\ data' = WithField(data, 0)
  /\ UNCHANGED <<kind, received, relayed>>

\* ip_ttl-- of a packet that is forwarded (0 wraps).
Forwarded(d) == [d EXCEPT ![TtlAt] = (@ + Byte - 1) % Byte]

\* The header of an echo reply: ip_ttl = INIT_TTL, ip_src and ip_dst change
\* places.
Answered(d) ==
  [i \in DOMAIN d |->
     IF i = TtlAt THEN InitTtl
     ELSE IF i \in Address(SrcAt) THEN d[DstAt + (i - SrcAt)]
     ELSE IF i \in Address(DstAt) THEN d[SrcAt + (i - DstAt)]
     ELSE d[i]]

\* What the router makes of a header, which is forwarded unless its TTL is 1 or
\* answered, and of an echo request (icmp_type = 0).
Changed(d) ==
  IF kind = "icmp" THEN {[d EXCEPT ![1] = 0]}
  ELSE {Answered(d)} \cup (IF d[TtlAt] # 1 THEN {Forwarded(d)} ELSE {})

\* Mutant of Rewrite: the field is not zeroed before it is computed.
RewriteStale ==
  /\ at = "accepted"
  /\ \E d \in Changed(data) : data' = WithField(d, cksum(d))
  /\ at' = "out" /\ UNCHANGED <<kind, received, relayed>>

\* A packet is forwarded or answered, with a new checksum.
Rewrite ==
  /\ at = "accepted"
  /\ \E d \in Changed(data) : data' = Fill(d)
  /\ at' = "out" /\ UNCHANGED <<kind, received, relayed>>

\* What was sent arrives at the next router.
Arrives ==
  /\ at = "out"
  /\ at' = "in" /\ received' = data /\ relayed' = TRUE
  /\ UNCHANGED <<kind, data>>

CksumInit ==
  /\ at = "in" /\ relayed = FALSE
  /\ \/ kind = "ip" /\ data \in [1..IpLen -> Octets]
     \/ kind = "icmp" /\ \E n \in Lens : data \in [1..n -> Octets]
  /\ received = data

CksumNext == Check \/ Rewrite \/ Arrives

CksumSpec == CksumInit /\ [][CksumNext]_cksumVars

-----------------------------------------------------------------------------
(* Properties. *)

\* Every variable holds a value of its kind: the complement of a sum whose
\* carries are not all folded would not be a word.
CksumTypeOK ==
  /\ at \in {"in", "accepted", "dropped", "out"} /\ kind \in {"ip", "icmp"}
  /\ Len(data) \in Lens \cup {IpLen} /\ DOMAIN received = DOMAIN data
  /\ \A i \in DOMAIN data : data[i] \in Octets /\ received[i] \in Octets
  /\ relayed \in BOOLEAN

\* What octet i adds to the sum of the words, and that sum.
OctetValue(d, i) == IF i % 2 = 1 THEN d[i] * Byte ELSE d[i]
Total(d) ==
  LET total[i \in 0..Len(d)] ==
        IF i = 0 THEN 0 ELSE total[i - 1] + OctetValue(d, i)
  IN total[Len(d)]

\* What the standard asks of a receiver: the ones' complement sum of all the
\* octets, field included, is all ones.
Valid(d) == Total(d) > 0 /\ Total(d) % (WordMod - 1) = 0

\* What is accepted is valid and unchanged by the check, and what is dropped
\* is not valid, save one case: a field of 0, which other hosts send where
\* cksum returns all ones, is always refused (sr_utils.c:19).
CheckExact ==
  /\ at = "accepted" => Valid(received) /\ data = received
  /\ at = "dropped" => ~Valid(received) \/ Field(received) = 0

\* A header the router filled in is valid for every receiver, and the next
\* router that runs this code accepts it.
SentAccepted ==
  /\ at = "out" => Valid(data)
  /\ relayed => at # "dropped"

=============================================================================
