--------------------------- MODULE SrDigest_proofs ---------------------------
(***************************************************************************)
(* Proofs about the two digests.                                           *)
(*                                                                         *)
(* The SHA-1 context: for blocks, length words and messages of any size    *)
(* the accesses stay in the block, a result is the digest of the padded    *)
(* message, and a context is corrupted only for cause.                     *)
(*                                                                         *)
(* cksum: for octets of any size and data of any length that fits in a     *)
(* word, the accumulator does not overflow, two turns of the loop fold the *)
(* carries, the check is that of the standard save for a field of 0, and   *)
(* what the router fills in passes it.  What the loop over the words adds  *)
(* up is shown by induction, which is stated with sets of numbers and      *)
(* rests on their least elements.                                          *)
(***************************************************************************)
EXTENDS SrSha1, SrCksum, WellFoundedInduction, TLAPS

-----------------------------------------------------------------------------
(* Arithmetic. *)

\* Quotient and remainder are determined by the sum they make up.
LEMMA Division ==
  ASSUME NEW B \in Nat \ {0}, NEW q \in Nat, NEW r \in 0..(B - 1)
  PROVE  (q * B + r) \div B = q /\ (q * B + r) % B = r
  BY SMTT(30)

\* A number without remainder is a multiple.
LEMMA Multiple ==
  ASSUME NEW B \in Nat \ {0}, NEW m \in Nat, m % B = 0
  PROVE  \E q \in Nat : m = q * B
  <1>1. m \div B \in Nat
    OBVIOUS
  <1>2. m = (m \div B) * B + (m % B)
    OBVIOUS
  <1> QED  BY <1>1, <1>2

\* The order of multiples is that of the factors.
LEMMA MultipleOrder ==
  ASSUME NEW B \in Nat \ {0}, NEW u \in Nat, NEW w \in Nat
  PROVE  u * B < w * B <=> u < w
  <1>1. ASSUME u < w PROVE u * B < w * B
    BY <1>1
  <1>2. ASSUME w <= u PROVE w * B <= u * B
    BY <1>2
  <1>3. u * B \in Nat /\ w * B \in Nat
    OBVIOUS
  <1> QED  BY <1>1, <1>2, <1>3

\* Among as many consecutive numbers as a block has octets one is a multiple.
LEMMA OneMultiple ==
  ASSUME NEW B \in Nat \ {0}, NEW u \in Nat, NEW w \in Nat, NEW a \in Nat,
         u * B \in a..(a + B - 1), w * B \in a..(a + B - 1)
  PROVE  u = w
  <1>1. PICK x \in Nat, y \in Nat : x = u * B /\ y = w * B
    OBVIOUS
  <1>2. x < y + B /\ y < x + B
    BY <1>1
  <1>3. (w + 1) * B = y + B /\ (u + 1) * B = x + B
    BY <1>1
  <1>4. u < w + 1
    BY <1>1, <1>2, <1>3, MultipleOrder
  <1>5. w < u + 1
    BY <1>1, <1>2, <1>3, MultipleOrder
  <1> QED  BY <1>4, <1>5

\* An octet that fills a block makes it whole.
LEMMA FullBlock ==
  ASSUME NEW B \in Nat, NEW base \in Nat, NEW z \in Nat, z + 1 = B
  PROVE  base + z + 1 = base + B + 0
  OBVIOUS

\* Octet i of a block that ends at base or before is one of the first base + z.
LEMMA InBlock ==
  ASSUME NEW B \in Nat, NEW base \in Nat, NEW z \in Nat, NEW o \in Nat,
         NEW i \in Nat, i < B, o + B <= base
  PROVE  o + i + 1 <= base + z
  OBVIOUS

-----------------------------------------------------------------------------
(* The padded message. *)

\* Its length is the multiple of the block length that leaves room for 0x80 and
\* the length and no whole block more.
LEMMA PaddedLenIs ==
  ASSUME NEW n \in Nat, NEW q \in Nat,
         q * BlockLen \in (n + 1 + LenLen)..(n + LenLen + BlockLen)
  PROVE  PaddedLen(n) = q * BlockLen
  <1>1. BlockLen \in Nat \ {0} /\ LenLen \in Nat
    BY SizesAssumption
  <1> DEFINE R == (n + 1 + LenLen)..(n + LenLen + BlockLen)
             P(m) == m % BlockLen = 0
  <1>2. (q * BlockLen) % BlockLen = 0
    <2>1. (q * BlockLen + 0) % BlockLen = 0
      BY <1>1, Division
    <2>2. q * BlockLen + 0 = q * BlockLen
      BY <1>1
    <2> QED  BY <2>1, <2>2
  <1>3. \A m \in R : P(m) => m = q * BlockLen
    <2> SUFFICES ASSUME NEW m \in R, m % BlockLen = 0 PROVE m = q * BlockLen
      OBVIOUS
    <2>0. m \in Nat
      BY <1>1
    <2>1. PICK w \in Nat : m = w * BlockLen
      BY <1>1, <2>0, Multiple
    <2>2. PICK a \in Nat : a = n + 1 + LenLen
      BY <1>1
    <2>3. m \in a..(a + BlockLen - 1) /\ q * BlockLen \in a..(a + BlockLen - 1)
      BY <1>1, <2>2
    <2>4. w = q
      BY <1>1, <2>1, <2>3, OneMultiple
    <2> QED  BY <2>1, <2>4
  <1>4. PaddedLen(n) = CHOOSE m \in R : P(m)
    BY DEF PaddedLen
  <1>5. q * BlockLen \in R /\ P(q * BlockLen)
    BY <1>2
  <1>6. (CHOOSE m \in R : P(m)) \in R /\ P(CHOOSE m \in R : P(m))
    BY <1>5
  <1> HIDE DEF R, P
  <1> QED  BY <1>3, <1>4, <1>6

\* Its octets, when it takes L octets in all.
LEMMA PaddedOctetIs ==
  ASSUME NEW n \in Nat, NEW L \in Nat, L = PaddedLen(n), L >= n + 1 + LenLen,
         NEW k \in Nat \ {0}
  PROVE  /\ k <= n => PaddedOctet(n, k) = Message(k)
         /\ k = n + 1 => PaddedOctet(n, k) = Padding(128)
         /\ k > n + 1 /\ k <= L - LenLen => PaddedOctet(n, k) = Padding(0)
         /\ \A j \in 1..LenLen : k = L - LenLen + j =>
              PaddedOctet(n, k) =
                IF j <= LenLen \div 2 THEN High((n * Bits) \div LenMod, j)
                ELSE Low((n * Bits) % LenMod, j - LenLen \div 2)
  <1>1. LenLen \in Nat /\ LenLen \div 2 \in Nat
    BY SizesAssumption
  <1>2. PICK j \in Int : j = k - (L - LenLen)
    BY <1>1
  <1>3. PaddedOctet(n, k) =
          CASE k <= n                    -> Message(k)
            [] k = n + 1                 -> Padding(128)
            [] k > n + 1 /\ j <= 0       -> Padding(0)
            [] j > 0 /\ j <= LenLen \div 2 -> High((n * Bits) \div LenMod, j)
            [] OTHER -> Low((n * Bits) % LenMod, j - LenLen \div 2)
    BY <1>2 DEF PaddedOctet
  <1>4. /\ k <= n => ~(k = n + 1) /\ ~(k > n + 1) /\ j <= 0
        /\ k = n + 1 => ~(k <= n) /\ ~(k > n + 1) /\ j <= 0
        /\ k > n + 1 => ~(k <= n) /\ ~(k = n + 1)
        /\ k <= L - LenLen <=> j <= 0
    BY <1>1, <1>2
  <1>5. ASSUME NEW i \in 1..LenLen, k = L - LenLen + i
        PROVE  i = j /\ j > 0 /\ k > n + 1 /\ ~(j <= 0)
    BY <1>1, <1>2, <1>5
  <1>6. k <= n => PaddedOctet(n, k) = Message(k)
    BY <1>1, <1>3, <1>4
  <1>7. k = n + 1 => PaddedOctet(n, k) = Padding(128)
    BY <1>1, <1>3, <1>4
  <1>8. k > n + 1 /\ k <= L - LenLen => PaddedOctet(n, k) = Padding(0)
    BY <1>1, <1>3, <1>4
  <1>9. ASSUME NEW i \in 1..LenLen, k = L - LenLen + i
        PROVE  PaddedOctet(n, k) =
                 IF i <= LenLen \div 2 THEN High((n * Bits) \div LenMod, i)
                 ELSE Low((n * Bits) % LenMod, i - LenLen \div 2)
    BY <1>1, <1>3, <1>4, <1>5, <1>9
  <1> QED  BY <1>6, <1>7, <1>8, <1>9

-----------------------------------------------------------------------------
(* The operations on a context. *)

\* A context whose index is one of I.  Inside of a call the index may have
\* reached the end of the block.
Contexts(I) ==
  [Length_Low : 0..(LenMod - 1), Length_High : 0..(LenMod - 1),
   index : I, block : [Index -> Octet], digest : Seq([Index -> Octet]),
   Computed : BOOLEAN, Corrupted : BOOLEAN]

\* The fields that neither padding nor the loop of SHA1Input touch directly.
SameLength(c, d) ==
  d.Length_Low = c.Length_Low /\ d.Length_High = c.Length_High

SameFlags(c, d) == d.Computed = c.Computed /\ d.Corrupted = c.Corrupted

\* The kinds of octets.
LEMMA OctetKinds ==
  /\ \A k \in 1..MaxOctets : Message(k) \in Octet
  /\ Padding(0) \in Octet /\ Padding(128) \in Octet
  /\ \A v \in 0..(LenMod - 1), j \in 1..(LenLen \div 2) :
       High(v, j) \in Octet /\ Low(v, j) \in Octet
  BY DEF Octet, Message, Padding, High, Low

\* Putting an octet into the block.
LEMMA PutIs ==
  ASSUME NEW c \in Contexts(Index), NEW x \in Octet, NEW d, d = Put(c, x)
  PROVE  /\ d \in Contexts(1..BlockLen) /\ d.index = c.index + 1
         /\ d.block[c.index] = x
         /\ \A i \in Index : i # c.index => d.block[i] = c.block[i]
         /\ d.digest = c.digest /\ SameLength(c, d) /\ SameFlags(c, d)
  <1>1. BlockLen \in Nat
    BY SizesAssumption
  <1>2. c.index + 1 \in 1..BlockLen
    BY <1>1 DEF Contexts, Index
  <1>3. [c.block EXCEPT ![c.index] = x] \in [Index -> Octet]
    BY DEF Contexts
  <1>4. d = [c EXCEPT !.block = [c.block EXCEPT ![c.index] = x],
                      !.index = c.index + 1]
    BY DEF Put, Contexts
  <1>5. d \in Contexts(1..BlockLen)
    BY <1>2, <1>3, <1>4 DEF Contexts
  <1>6. d.index = c.index + 1 /\ d.block = [c.block EXCEPT ![c.index] = x]
    BY <1>4 DEF Contexts
  <1>7. d.digest = c.digest /\ SameLength(c, d) /\ SameFlags(c, d)
    BY <1>4 DEF Contexts, SameLength, SameFlags
  <1>8. c.index \in Index /\ c.block \in [Index -> Octet]
    BY DEF Contexts
  <1> QED  BY <1>5, <1>6, <1>7, <1>8

\* Processing a block: it becomes the last of the digest.
LEMMA ProcessIs ==
  ASSUME NEW I, NEW c \in Contexts(I), NEW d, d = ProcessMessageBlock(c)
  PROVE  /\ d \in Contexts(Index) /\ d.index = 0 /\ d.block = c.block
         /\ Len(d.digest) = Len(c.digest) + 1
         /\ \A b \in 1..Len(c.digest) : d.digest[b] = c.digest[b]
         /\ d.digest[Len(c.digest) + 1] = c.block
         /\ SameLength(c, d) /\ SameFlags(c, d)
  <1>1. 0 \in Index
    BY SizesAssumption DEF Index
  <1>2. c.digest \in Seq([Index -> Octet]) /\ c.block \in [Index -> Octet]
    BY DEF Contexts
  <1>3. d = [c EXCEPT !.digest = Append(c.digest, c.block), !.index = 0]
    BY DEF ProcessMessageBlock, Contexts
  <1>4. d.digest = Append(c.digest, c.block)
    BY <1>3 DEF Contexts
  <1>5. d.index = 0 /\ d.block = c.block /\ SameLength(c, d) /\ SameFlags(c, d)
    BY <1>3 DEF Contexts, SameLength, SameFlags
  <1>6. Append(c.digest, c.block) \in Seq([Index -> Octet])
    BY <1>2
  <1>7. d \in Contexts(Index)
    BY <1>1, <1>3, <1>6 DEF Contexts
  <1>8. /\ Len(d.digest) = Len(c.digest) + 1
        /\ \A b \in 1..Len(c.digest) : d.digest[b] = c.digest[b]
        /\ d.digest[Len(c.digest) + 1] = c.block
    BY <1>2, <1>4
  <1> QED  BY <1>5, <1>7, <1>8

\* Filling the block with zeros up to a limit.
LEMMA FillToIs ==
  ASSUME NEW c \in Contexts(0..BlockLen), NEW limit \in 0..BlockLen,
         NEW d, d = FillTo(c, limit)
  PROVE  /\ d \in Contexts(0..BlockLen)
         /\ \A i \in Index : d.block[i] =
              IF c.index <= i /\ i < limit THEN Padding(0) ELSE c.block[i]
         /\ d.digest = c.digest /\ SameLength(c, d) /\ SameFlags(c, d)
  <1> DEFINE filled == [i \in Index |->
               IF c.index <= i /\ i < limit THEN Padding(0) ELSE c.block[i]]
             upto == IF c.index < limit THEN limit ELSE c.index
  <1>1. d = [c EXCEPT !.block = filled, !.index = upto]
    BY DEF FillTo, Contexts
  <1>2. filled \in [Index -> Octet]
    BY OctetKinds DEF Contexts
  <1>3. upto \in 0..BlockLen
    BY DEF Contexts
  <1> HIDE DEF filled, upto
  <1>4. d \in Contexts(0..BlockLen) /\ d.block = filled
    BY <1>1, <1>2, <1>3 DEF Contexts
  <1>5. d.digest = c.digest /\ SameLength(c, d) /\ SameFlags(c, d)
    BY <1>1 DEF Contexts, SameLength, SameFlags
  <1> QED  BY <1>4, <1>5 DEF filled

\* Putting the length at the end of the block.
LEMMA PutLengthIs ==
  ASSUME NEW c \in Contexts(0..BlockLen), NEW d, d = PutLength(c)
  PROVE  /\ d \in Contexts(0..BlockLen)
         /\ \A i \in Index : i < BlockLen - LenLen => d.block[i] = c.block[i]
         /\ \A i \in Index, j \in 1..LenLen : i = BlockLen - LenLen + j - 1 =>
              d.block[i] = IF j <= LenLen \div 2 THEN High(c.Length_High, j)
                           ELSE Low(c.Length_Low, j - LenLen \div 2)
         /\ d.digest = c.digest /\ SameLength(c, d) /\ SameFlags(c, d)
  <1>1. /\ BlockLen \in Nat /\ LenLen \in Nat /\ LenLen < BlockLen
        /\ LenLen \div 2 \in Nat /\ LenLen = 2 * (LenLen \div 2)
    BY SizesAssumption
  <1> DEFINE octet(i) ==
               LET j == i - (BlockLen - LenLen) + 1 IN
               CASE i < BlockLen - LenLen   -> c.block[i]
                 [] i >= BlockLen - LenLen /\ j <= LenLen \div 2
                                            -> High(c.Length_High, j)
                 [] OTHER                   -> Low(c.Length_Low, j - LenLen \div 2)
             ended == [i \in Index |-> octet(i)]
  <1>2. d = [c EXCEPT !.block = ended]
    BY DEF PutLength
  <1>3. \A i \in Index : i < BlockLen - LenLen => octet(i) = c.block[i]
    BY <1>1 DEF Index
  <1>4. ASSUME NEW i \in Index, NEW j \in 1..LenLen, i = BlockLen - LenLen + j - 1
        PROVE  octet(i) = IF j <= LenLen \div 2 THEN High(c.Length_High, j)
                          ELSE Low(c.Length_Low, j - LenLen \div 2)
    <2>1. ~(i < BlockLen - LenLen) /\ i >= BlockLen - LenLen
      BY <1>1, <1>4
    <2>2. i - (BlockLen - LenLen) + 1 = j
      BY <1>1, <1>4
    <2> QED  BY <2>1, <2>2
  <1>5. ASSUME NEW i \in Index PROVE octet(i) \in Octet
    <2>1. CASE i < BlockLen - LenLen
      BY <1>3, <2>1 DEF Contexts
    <2>2. CASE ~(i < BlockLen - LenLen)
      <3>1. PICK j \in 1..LenLen : i = BlockLen - LenLen + j - 1
        <4>1. i - (BlockLen - LenLen) + 1 \in 1..LenLen
          BY <1>1, <2>2 DEF Index
        <4>2. i = BlockLen - LenLen + (i - (BlockLen - LenLen) + 1) - 1
          BY <1>1 DEF Index
        <4> QED  BY <4>1, <4>2
      <3>2. c.Length_High \in 0..(LenMod - 1) /\ c.Length_Low \in 0..(LenMod - 1)
        BY DEF Contexts
      <3>3. CASE j <= LenLen \div 2
        <4>1. octet(i) = High(c.Length_High, j)
          BY <1>4, <3>1, <3>3
        <4>2. j \in 1..(LenLen \div 2)
          BY <1>1, <3>3
        <4> HIDE DEF octet
        <4> QED  BY <3>2, <4>1, <4>2, OctetKinds
      <3>4. CASE ~(j <= LenLen \div 2)
        <4>1. octet(i) = Low(c.Length_Low, j - LenLen \div 2)
          BY <1>4, <3>1, <3>4
        <4>2. j - LenLen \div 2 \in 1..(LenLen \div 2)
          BY <1>1, <3>4
        <4> HIDE DEF octet
        <4> QED  BY <3>2, <4>1, <4>2, OctetKinds
      <3> QED  BY <3>3, <3>4
    <2> QED  BY <2>1, <2>2
  <1> HIDE DEF octet
  <1>6. ended \in [Index -> Octet]
    BY <1>5
  <1>7. \A i \in Index : ended[i] = octet(i)
    OBVIOUS
  <1> HIDE DEF ended
  <1>8. d \in Contexts(0..BlockLen) /\ d.block = ended
    BY <1>2, <1>6 DEF Contexts
  <1>9. d.digest = c.digest /\ SameLength(c, d) /\ SameFlags(c, d)
    BY <1>2 DEF Contexts, SameLength, SameFlags
  <1> QED  BY <1>3, <1>4, <1>7, <1>8, <1>9

\* Counting an octet, after m of them: the two words go on holding the bits
\* counted, unless these need a third.
LEMMA CountedIs ==
  ASSUME NEW c \in Contexts(1..BlockLen), c.Length_Low % Bits = 0, NEW m \in Nat,
         m * Bits = c.Length_High * LenMod + c.Length_Low, NEW d, d = Counted(c)
  PROVE  /\ d \in Contexts(1..BlockLen) /\ d.index = c.index
         /\ d.block = c.block /\ d.digest = c.digest /\ d.Computed = c.Computed
         /\ c.Corrupted => d.Corrupted
         /\ d.Length_Low % Bits = 0
         /\ d.Corrupted /\ ~c.Corrupted => (m + 1) * Bits >= LenMod * LenMod
         /\ ~d.Corrupted =>
              (m + 1) * Bits = d.Length_High * LenMod + d.Length_Low
  <1> DEFINE low  == (c.Length_Low + Bits) % LenMod
             high == IF low = 0 THEN (c.Length_High + 1) % LenMod ELSE c.Length_High
  <1>1. Bits \in Nat \ {0} /\ LenMod \in Nat \ {0} /\ LenMod % Bits = 0
    BY SizesAssumption
  <1>2. c.Length_Low \in 0..(LenMod - 1) /\ c.Length_High \in 0..(LenMod - 1)
    BY DEF Contexts
  <1>3. PICK H \in Nat, W \in Nat : H = c.Length_High /\ W = c.Length_Low
    BY <1>1, <1>2
  <1>4. H < LenMod /\ W < LenMod /\ m * Bits = H * LenMod + W
    BY <1>1, <1>2, <1>3
  <1>5. PICK u \in Nat : W = u * Bits
    BY <1>1, <1>3, Multiple
  <1>6. PICK w \in Nat : LenMod = w * Bits
    BY <1>1, Multiple
  <1>7. u < w
    BY <1>1, <1>4, <1>5, <1>6, MultipleOrder
  <1>8. W + Bits = (u + 1) * Bits /\ W + Bits <= LenMod
    <2>1. W + Bits = (u + 1) * Bits
      BY <1>1, <1>5
    <2>2. u + 1 <= w => (u + 1) * Bits <= w * Bits
      BY <1>1
    <2> QED  BY <1>6, <1>7, <2>1, <2>2
  <1>9. (m + 1) * Bits = H * LenMod + W + Bits
    BY <1>1, <1>4
  <1>10. d = [c EXCEPT !.Length_Low = low, !.Length_High = high,
                       !.Corrupted = c.Corrupted \/ (low = 0 /\ high = 0)]
    BY DEF Counted, Contexts
  <1>11. low = IF W + Bits = LenMod THEN 0 ELSE W + Bits
    <2>1. (1 * LenMod + 0) % LenMod = 0
      BY <1>1, Division
    <2>2. LenMod % LenMod = 0
      BY <1>1, <2>1
    <2>3. CASE W + Bits = LenMod
      BY <1>3, <2>2, <2>3
    <2>4. CASE W + Bits # LenMod
      <3>1. W + Bits \in 0..(LenMod - 1)
        BY <1>1, <1>8, <2>4
      <3>2. (0 * LenMod + (W + Bits)) % LenMod = W + Bits
        BY <1>1, <3>1, Division
      <3>3. 0 * LenMod + (W + Bits) = W + Bits
        BY <1>1
      <3> QED  BY <1>3, <2>4, <3>2, <3>3
    <2> QED  BY <2>3, <2>4
  <1>12. low = 0 <=> W + Bits = LenMod
    BY <1>1, <1>11
  <1>13. low \in 0..(LenMod - 1)
    BY <1>1, <1>8, <1>11
  <1>14. low % Bits = 0
    <2>1. (0 * Bits + 0) % Bits = 0 /\ ((u + 1) * Bits + 0) % Bits = 0
      <3>1. u + 1 \in Nat /\ 0 \in 0..(Bits - 1)
        BY <1>1
      <3> QED  BY <1>1, <3>1, Division
    <2>2. 0 * Bits + 0 = 0 /\ (u + 1) * Bits + 0 = W + Bits
      BY <1>1, <1>8
    <2> QED  BY <1>11, <2>1, <2>2
  <1>15. high = IF W + Bits = LenMod
                THEN IF H + 1 = LenMod THEN 0 ELSE H + 1 ELSE H
    <2>1. (1 * LenMod + 0) % LenMod = 0
      BY <1>1, Division
    <2>2. LenMod % LenMod = 0
      BY <1>1, <2>1
    <2>3. CASE H + 1 = LenMod
      BY <1>3, <1>12, <2>2, <2>3
    <2>4. CASE H + 1 # LenMod
      <3>1. H + 1 \in 0..(LenMod - 1)
        BY <1>1, <1>4, <2>4
      <3>2. (0 * LenMod + (H + 1)) % LenMod = H + 1
        BY <1>1, <3>1, Division
      <3>3. 0 * LenMod + (H + 1) = H + 1
        BY <1>1
      <3> QED  BY <1>3, <1>12, <2>4, <3>2, <3>3
    <2> QED  BY <2>3, <2>4
  <1>16. high \in 0..(LenMod - 1)
    BY <1>1, <1>4, <1>15
  <1> HIDE DEF low, high
  <1>17. d \in Contexts(1..BlockLen)
    BY <1>10, <1>13, <1>16 DEF Contexts
  <1>18. /\ d.Length_Low = low /\ d.Length_High = high /\ d.index = c.index
         /\ d.block = c.block /\ d.digest = c.digest /\ d.Computed = c.Computed
         /\ d.Corrupted = (c.Corrupted \/ (low = 0 /\ high = 0))
    BY <1>10 DEF Contexts
  <1>19. low = 0 /\ high = 0 => (m + 1) * Bits = LenMod * LenMod
    <2> SUFFICES ASSUME low = 0, high = 0 PROVE (m + 1) * Bits = LenMod * LenMod
      OBVIOUS
    <2>1. W + Bits = LenMod /\ H + 1 = LenMod
      BY <1>12, <1>15
    <2>2. (m + 1) * Bits = H * LenMod + LenMod
      BY <1>1, <1>9, <2>1
    <2>3. H * LenMod + LenMod = (H + 1) * LenMod
      BY <1>1
    <2> QED  BY <2>1, <2>2, <2>3
  <1>20. ~(low = 0 /\ high = 0) => (m + 1) * Bits = high * LenMod + low
    <2>1. CASE W + Bits = LenMod
      <3>1. low = 0 /\ (H + 1 # LenMod => high = H + 1) /\ (H + 1 = LenMod => high = 0)
        BY <1>12, <1>15, <2>1
      <3>2. (m + 1) * Bits = (H + 1) * LenMod + 0
        BY <1>1, <1>9, <2>1
      <3> QED  BY <3>1, <3>2
    <2>2. CASE W + Bits # LenMod
      <3>1. low = W + Bits /\ high = H
        BY <1>11, <1>15, <2>2
      <3>2. (m + 1) * Bits = H * LenMod + (W + Bits)
        BY <1>1, <1>9
      <3> QED  BY <3>1, <3>2
    <2> QED  BY <2>1, <2>2
  <1>21. d.Corrupted /\ ~c.Corrupted => (m + 1) * Bits >= LenMod * LenMod
    <2>1. LenMod * LenMod \in Nat
      BY <1>1
    <2>2. d.Corrupted /\ ~c.Corrupted => low = 0 /\ high = 0
      BY <1>18, Zenon
    <2>3. (m + 1) * Bits = LenMod * LenMod => (m + 1) * Bits >= LenMod * LenMod
      BY <2>1
    <2> QED  BY <1>19, <2>2, <2>3
  <1> QED  BY <1>14, <1>17, <1>18, <1>20, <1>21

-----------------------------------------------------------------------------
(* The calls. *)

\* The type invariant in terms of contexts.
LEMMA TypeIs ==
  ShaTypeOK <=> /\ context \in Contexts(Index) /\ length \in Nat
                /\ offered \in 0..MaxOctets /\ result \in {"none", "ok", "failed"}
  BY DEF ShaTypeOK, Contexts

\* One turn of the loop of SHA1Input: the octet taken is the next one, the
\* block is processed when it is full, and the length is counted on.
LEMMA InputOctetIs ==
  ASSUME NEW c \in Contexts(Index), NEW m \in Nat, m + 1 \in 1..MaxOctets,
         m = Len(c.digest) * BlockLen + c.index,
         m * Bits = c.Length_High * LenMod + c.Length_Low,
         c.Length_Low % Bits = 0, BlocksHold(c), ~c.Corrupted,
         NEW d, d = InputOctet(c, Message(m + 1))
  PROVE  /\ d \in Contexts(Index) /\ d.Computed = c.Computed
         /\ m + 1 = Len(d.digest) * BlockLen + d.index
         /\ d.Length_Low % Bits = 0 /\ BlocksHold(d)
         /\ d.Corrupted => (m + 1) * Bits >= LenMod * LenMod
         /\ ~d.Corrupted =>
              (m + 1) * Bits = d.Length_High * LenMod + d.Length_Low
  <1>1. BlockLen \in Nat \ {0}
    BY SizesAssumption
  <1>2. PICK x : x = Message(m + 1)
    OBVIOUS
  <1>3. PICK p : p = Put(c, x)
    OBVIOUS
  <1>4. PICK e : e = Counted(p)
    OBVIOUS
  <1>5. x \in Octet
    BY <1>2, OctetKinds
  <1>6. /\ p \in Contexts(1..BlockLen) /\ p.index = c.index + 1
        /\ p.block[c.index] = x
        /\ \A i \in Index : i # c.index => p.block[i] = c.block[i]
        /\ p.digest = c.digest /\ SameLength(c, p) /\ SameFlags(c, p)
    BY <1>3, <1>5, PutIs
  <1>7. /\ e \in Contexts(1..BlockLen) /\ e.index = p.index
        /\ e.block = p.block /\ e.digest = p.digest /\ e.Computed = p.Computed
        /\ e.Length_Low % Bits = 0
        /\ e.Corrupted /\ ~p.Corrupted => (m + 1) * Bits >= LenMod * LenMod
        /\ ~e.Corrupted => (m + 1) * Bits = e.Length_High * LenMod + e.Length_Low
    <2>1. p.Length_Low % Bits = 0 /\ m * Bits = p.Length_High * LenMod + p.Length_Low
      BY <1>6 DEF SameLength
    <2> QED  BY <1>4, <1>6, <2>1, CountedIs
  <1>8. ~p.Corrupted /\ p.Computed = c.Computed
    BY <1>6 DEF SameFlags
  <1>9. d = IF e.index = BlockLen THEN ProcessMessageBlock(e) ELSE e
    BY <1>2, <1>3, <1>4 DEF InputOctet
  <1>10. PICK Q \in Nat, z \in Nat : Q = Len(c.digest) /\ z = c.index
    <2>1. c.digest \in Seq([Index -> Octet]) /\ c.index \in Index
      BY DEF Contexts
    <2> QED  BY <2>1, <1>1 DEF Index
  <1>11. z \in Index /\ e.index = z + 1 /\ e.digest = c.digest /\ DOMAIN c.digest = 1..Q
    <2>1. c.digest \in Seq([Index -> Octet]) /\ c.index \in Index
      BY DEF Contexts
    <2> QED  BY <1>6, <1>7, <1>10, <2>1
  <1>12. PICK base \in Nat : base = Q * BlockLen
    BY <1>1
  <1>13. m = base + z
    BY <1>10, <1>12
  <1>14. \A i \in Index : i < z + 1 => e.block[i] = Message(base + i + 1)
    <2> SUFFICES ASSUME NEW i \in Index, i < z + 1 PROVE e.block[i] = Message(base + i + 1)
      OBVIOUS
    <2>1. CASE i = z
      <3>1. e.block[i] = Message(m + 1)
        BY <1>2, <1>6, <1>7, <1>10, <2>1
      <3> QED  BY <1>13, <2>1, <3>1
    <2>2. CASE i # z
      <3>1. i < z
        BY <1>1, <2>2 DEF Index
      <3>2. c.block[i] = Message(base + i + 1)
        BY <1>10, <1>12, <3>1 DEF BlocksHold
      <3> QED  BY <1>6, <1>7, <1>10, <2>2, <3>2
    <2> QED  BY <2>1, <2>2
  <1>15. \A b \in 1..Q : \A i \in Index :
           c.digest[b][i] = Message((b - 1) * BlockLen + i + 1)
    BY <1>11 DEF BlocksHold
  <1>16. CASE z + 1 = BlockLen
    <2>1. d = ProcessMessageBlock(e)
      BY <1>9, <1>11, <1>16
    <2>2. /\ d \in Contexts(Index) /\ d.index = 0
          /\ Len(d.digest) = Q + 1
          /\ \A b \in 1..Q : d.digest[b] = c.digest[b]
          /\ d.digest[Q + 1] = e.block
          /\ SameLength(e, d) /\ SameFlags(e, d)
      <3>1. /\ d \in Contexts(Index) /\ d.index = 0
            /\ Len(d.digest) = Len(e.digest) + 1
            /\ \A b \in 1..Len(e.digest) : d.digest[b] = e.digest[b]
            /\ d.digest[Len(e.digest) + 1] = e.block
            /\ SameLength(e, d) /\ SameFlags(e, d)
        BY <1>7, <2>1, ProcessIs, ZenonT(30)
      <3>2. Len(e.digest) = Q
        BY <1>10, <1>11
      <3> QED  BY <1>11, <3>1, <3>2
    <2>3. (Q + 1) * BlockLen = base + BlockLen
      BY <1>1, <1>12
    <2>4. m + 1 = Len(d.digest) * BlockLen + d.index
      <3>1. base + z + 1 = base + BlockLen + 0
        BY <1>1, <1>16, FullBlock
      <3>2. m + 1 = base + BlockLen + 0
        BY <1>13, <3>1
      <3>3. Len(d.digest) * BlockLen + d.index = base + BlockLen + 0
        BY <2>2, <2>3
      <3> QED  BY <3>2, <3>3
    <2>5. DOMAIN d.digest = 1..(Q + 1)
      BY <2>2 DEF Contexts
    <2>6. ASSUME NEW b \in 1..(Q + 1), NEW i \in Index
          PROVE  d.digest[b][i] = Message((b - 1) * BlockLen + i + 1)
      <3>1. CASE b = Q + 1
        <4>1. (b - 1) * BlockLen = base /\ i < z + 1
          BY <1>1, <1>12, <1>16, <3>1 DEF Index
        <4>2. d.digest[b] = e.block
          BY <2>2, <3>1
        <4> QED  BY <1>14, <4>1, <4>2
      <3>2. CASE b # Q + 1
        <4>1. b \in 1..Q
          BY <3>2
        <4> QED  BY <1>15, <2>2, <4>1
      <3> QED  BY <3>1, <3>2
    <2>7. \A i \in Index : ~(i < d.index)
      BY <1>1, <2>2 DEF Index
    <2>8. BlocksHold(d)
      BY <2>5, <2>6, <2>7 DEF BlocksHold
    <2> QED  BY <1>7, <1>8, <2>2, <2>4, <2>8 DEF SameLength, SameFlags
  <1>17. CASE z + 1 # BlockLen
    <2>1. d = e
      BY <1>9, <1>11, <1>17
    <2>2. z + 1 \in Index
      BY <1>1, <1>11, <1>17 DEF Index
    <2>3. d \in Contexts(Index)
      BY <1>7, <1>11, <2>1, <2>2 DEF Contexts
    <2>4. m + 1 = Len(d.digest) * BlockLen + d.index
      BY <1>10, <1>11, <1>12, <1>13, <2>1
    <2>5. BlocksHold(d)
      <3>1. /\ DOMAIN d.digest = 1..Q /\ d.digest = c.digest
            /\ d.index = z + 1 /\ Len(d.digest) * BlockLen = base
        BY <1>10, <1>11, <1>12, <2>1
      <3>2. \A i \in Index : i < d.index => d.block[i] = Message(base + i + 1)
        BY <1>14, <2>1, <3>1
      <3> QED  BY <1>15, <3>1, <3>2 DEF BlocksHold
    <2> QED  BY <1>7, <1>8, <2>1, <2>3, <2>4, <2>5
  <1> QED  BY <1>16, <1>17

\* SHA1PadMessage: 0x80 behind the message, zeros, the length, in one block or
\* in two.
LEMMA PadMessageIs ==
  ASSUME NEW c \in Contexts(Index), NEW n \in Nat,
         n = Len(c.digest) * BlockLen + c.index,
         n * Bits = c.Length_High * LenMod + c.Length_Low, BlocksHold(c),
         NEW d, d = PadMessage(c)
  PROVE  d \in Contexts(Index) /\ DigestOf(d, n) /\ SameFlags(c, d)
  <1>1. /\ BlockLen \in Nat \ {0} /\ LenLen \in Nat /\ LenLen < BlockLen
        /\ LenMod \in Nat \ {0} /\ Bits \in Nat
    BY SizesAssumption
  <1>2. /\ c.digest \in Seq([Index -> Octet]) /\ c.index \in Index
        /\ c.Length_Low \in 0..(LenMod - 1) /\ c.Length_High \in 0..(LenMod - 1)
    BY DEF Contexts
  <1>3. PICK Q \in Nat, z \in Nat, base \in Nat, room \in Nat :
          /\ Q = Len(c.digest) /\ z = c.index /\ base = Q * BlockLen
          /\ room = BlockLen - LenLen
    <2>1. Len(c.digest) \in Nat /\ c.index \in Nat
      BY <1>1, <1>2 DEF Index
    <2>2. Len(c.digest) * BlockLen \in Nat /\ BlockLen - LenLen \in Nat
      BY <1>1, <2>1
    <2> QED  BY <2>1, <2>2
  <1>4. /\ n = base + z /\ z < BlockLen /\ DOMAIN c.digest = 1..Q
        /\ room \in 0..BlockLen /\ room + LenLen = BlockLen /\ z \in Index
    <2>1. n = base + z /\ DOMAIN c.digest = 1..Q /\ z \in Index
      BY <1>2, <1>3
    <2>2. z < BlockLen
      BY <1>1, <2>1 DEF Index
    <2>3. room \in 0..BlockLen /\ room + LenLen = BlockLen
      BY <1>1, <1>3
    <2> QED  BY <2>1, <2>2, <2>3
  <1>5. /\ (n * Bits) \div LenMod = c.Length_High
        /\ (n * Bits) % LenMod = c.Length_Low
    <2>1. PICK H \in Nat, W \in 0..(LenMod - 1) : H = c.Length_High /\ W = c.Length_Low
      BY <1>1, <1>2
    <2>2. n * Bits = H * LenMod + W
      BY <2>1
    <2>3. (H * LenMod + W) \div LenMod = H /\ (H * LenMod + W) % LenMod = W
      BY <1>1, Division
    <2> QED  BY <2>1, <2>2, <2>3
  <1>6. PICK s : s = Put(c, Padding(128))
    OBVIOUS
  <1>7. /\ s \in Contexts(0..BlockLen) /\ s.index = z + 1
        /\ s.block[z] = Padding(128)
        /\ \A i \in Index : i # z => s.block[i] = c.block[i]
        /\ s.digest = c.digest /\ SameLength(c, s) /\ SameFlags(c, s)
    <2>1. /\ s \in Contexts(1..BlockLen) /\ s.index = c.index + 1
          /\ s.block[c.index] = Padding(128)
          /\ \A i \in Index : i # c.index => s.block[i] = c.block[i]
          /\ s.digest = c.digest /\ SameLength(c, s) /\ SameFlags(c, s)
      BY <1>6, OctetKinds, PutIs
    <2>2. s \in Contexts(0..BlockLen)
      <3>1. s.index \in 1..BlockLen => s.index \in 0..BlockLen
        BY <1>1
      <3> QED  BY <2>1, <3>1 DEF Contexts
    <2> QED  BY <1>3, <2>1, <2>2
  <1>8. \A i \in Index : i < z => s.block[i] = Message(base + i + 1)
    <2>1. \A i \in Index : i < z => c.block[i] = Message(base + i + 1)
      BY <1>3 DEF BlocksHold
    <2>2. \A i \in Index : i < z => i # z
      BY <1>1 DEF Index
    <2> QED  BY <1>7, <2>1, <2>2
  <1>9. \A b \in 1..Q : \A i \in Index :
          c.digest[b][i] = Message((b - 1) * BlockLen + i + 1)
    BY <1>4 DEF BlocksHold
  \* The octets of the standard, by block and place.
  <1>10. ASSUME NEW T \in Nat, T * BlockLen \in (n + 1 + LenLen)..(n + LenLen + BlockLen),
                NEW b \in 1..T, NEW i \in Index, NEW o \in Nat, o = (b - 1) * BlockLen
         PROVE  /\ PaddedLen(n) = T * BlockLen
                /\ o + i + 1 <= n => PaddedOctet(n, o + i + 1) = Message(o + i + 1)
                /\ o + i = n => PaddedOctet(n, o + i + 1) = Padding(128)
                /\ o + i > n /\ (b < T \/ i < room) =>
                     PaddedOctet(n, o + i + 1) = Padding(0)
                /\ \A j \in 1..LenLen : b = T /\ i = room + j - 1 =>
                     PaddedOctet(n, o + i + 1) =
                       IF j <= LenLen \div 2 THEN High(c.Length_High, j)
                       ELSE Low(c.Length_Low, j - LenLen \div 2)
    <2>1. PICK L \in Nat : L = T * BlockLen
      BY <1>1
    <2>2. L = PaddedLen(n) /\ L >= n + 1 + LenLen
      BY <1>1, <1>10, <2>1, PaddedLenIs
    <2>3. PICK k \in Nat \ {0} : k = o + i + 1
      <3>1. o + i + 1 \in Nat \ {0}
        BY <1>1 DEF Index
      <3> QED  BY <3>1
    <2>4. /\ k <= n => PaddedOctet(n, k) = Message(k)
          /\ k = n + 1 => PaddedOctet(n, k) = Padding(128)
          /\ k > n + 1 /\ k <= L - LenLen => PaddedOctet(n, k) = Padding(0)
          /\ \A j \in 1..LenLen : k = L - LenLen + j =>
               PaddedOctet(n, k) =
                 IF j <= LenLen \div 2 THEN High((n * Bits) \div LenMod, j)
                 ELSE Low((n * Bits) % LenMod, j - LenLen \div 2)
      BY <2>2, PaddedOctetIs
    <2>5. b = T => o + BlockLen = L
      BY <1>1, <1>10, <2>1
    <2>6. b < T => o + BlockLen + BlockLen <= L
      <3> SUFFICES ASSUME b < T PROVE o + BlockLen + BlockLen <= L
        OBVIOUS
      <3>1. (b + 1) * BlockLen <= T * BlockLen
        BY <1>1
      <3>2. (b + 1) * BlockLen = (b - 1) * BlockLen + BlockLen + BlockLen
        BY <1>1
      <3> QED  BY <1>1, <1>10, <2>1, <3>1, <3>2
    <2>7. i < BlockLen /\ i \in Nat
      BY <1>1 DEF Index
    <2>8. o + i = n => k = n + 1
      BY <2>3, <2>7
    <2>9. o + i > n /\ (b < T \/ i < room) => k > n + 1 /\ k <= L - LenLen
      BY <1>1, <1>4, <2>3, <2>5, <2>6, <2>7
    <2>10. ASSUME NEW j \in 1..LenLen, b = T, i = room + j - 1
           PROVE  k = L - LenLen + j
      BY <1>1, <1>4, <2>3, <2>5, <2>7, <2>10
    <2> QED  BY <1>5, <2>1, <2>2, <2>3, <2>4, <2>8, <2>9, <2>10
  \* What the last block holds, made of context e.
  <1>11. ASSUME NEW e \in Contexts(0..BlockLen), SameLength(c, e), SameFlags(c, e),
                d = ProcessMessageBlock(PutLength(FillTo(e, room)))
         PROVE  /\ d \in Contexts(Index) /\ SameFlags(c, d)
                /\ Len(d.digest) = Len(e.digest) + 1
                /\ \A b \in 1..Len(e.digest) : d.digest[b] = e.digest[b]
                /\ \A i \in Index : i < room =>
                     d.digest[Len(e.digest) + 1][i] =
                       IF e.index <= i THEN Padding(0) ELSE e.block[i]
                /\ \A i \in Index, j \in 1..LenLen : i = room + j - 1 =>
                     d.digest[Len(e.digest) + 1][i] =
                       IF j <= LenLen \div 2 THEN High(c.Length_High, j)
                       ELSE Low(c.Length_Low, j - LenLen \div 2)
    <2>1. PICK f : f = FillTo(e, room)
      OBVIOUS
    <2>2. PICK g : g = PutLength(f)
      OBVIOUS
    <2>3. /\ f \in Contexts(0..BlockLen)
          /\ \A i \in Index : f.block[i] =
               IF e.index <= i /\ i < room THEN Padding(0) ELSE e.block[i]
          /\ f.digest = e.digest /\ SameLength(e, f) /\ SameFlags(e, f)
      <3>1. room \in 0..BlockLen
        BY <1>4
      <3> QED  BY <2>1, <3>1, FillToIs, Zenon
    <2>4. /\ g \in Contexts(0..BlockLen)
          /\ \A i \in Index : i < BlockLen - LenLen => g.block[i] = f.block[i]
          /\ \A i \in Index, j \in 1..LenLen : i = BlockLen - LenLen + j - 1 =>
               g.block[i] = IF j <= LenLen \div 2 THEN High(f.Length_High, j)
                            ELSE Low(f.Length_Low, j - LenLen \div 2)
          /\ g.digest = f.digest /\ SameLength(f, g) /\ SameFlags(f, g)
      BY <2>2, <2>3, PutLengthIs
    <2>5. d = ProcessMessageBlock(g)
      BY <1>11, <2>1, <2>2
    <2>6. /\ d \in Contexts(Index)
          /\ Len(d.digest) = Len(g.digest) + 1
          /\ \A b \in 1..Len(g.digest) : d.digest[b] = g.digest[b]
          /\ d.digest[Len(g.digest) + 1] = g.block
          /\ SameFlags(g, d)
      BY <2>4, <2>5, ProcessIs
    <2>7. g.digest = e.digest /\ d.digest[Len(e.digest) + 1] = g.block
      BY <2>3, <2>4, <2>6
    <2>8. SameFlags(c, d) /\ f.Length_High = c.Length_High /\ f.Length_Low = c.Length_Low
      BY <1>11, <2>3, <2>4, <2>6 DEF SameFlags, SameLength
    <2>9. \A i \in Index : i < room =>
            g.block[i] = IF e.index <= i THEN Padding(0) ELSE e.block[i]
      BY <1>3, <2>3, <2>4
    <2>10. \A i \in Index, j \in 1..LenLen : i = room + j - 1 =>
             g.block[i] = IF j <= LenLen \div 2 THEN High(c.Length_High, j)
                          ELSE Low(c.Length_Low, j - LenLen \div 2)
      BY <1>3, <2>4, <2>8
    <2> QED  BY <2>6, <2>7, <2>8, <2>9, <2>10
  <1>12. \A i \in Index : i < room \/ \E j \in 1..LenLen : i = room + j - 1
    <2> SUFFICES ASSUME NEW i \in Index, ~(i < room)
                 PROVE  \E j \in 1..LenLen : i = room + j - 1
      OBVIOUS
    <2>1. i - room + 1 \in 1..LenLen /\ i = room + (i - room + 1) - 1
      BY <1>1, <1>4 DEF Index
    <2> QED  BY <2>1
  <1>13. PadMessage(c) =
           IF z > room - 1
           THEN ProcessMessageBlock(PutLength(FillTo(
                  ProcessMessageBlock(FillTo(s, BlockLen)), room)))
           ELSE ProcessMessageBlock(PutLength(FillTo(s, room)))
    BY <1>3, <1>6 DEF PadMessage
  \* The octets taken are the same in both cases.
  <1>14. \A b \in 1..Q : \A o \in Nat : o = (b - 1) * BlockLen => o + BlockLen <= base
    <2> SUFFICES ASSUME NEW b \in 1..Q PROVE (b - 1) * BlockLen + BlockLen <= base
      OBVIOUS
    <2>1. (b - 1) * BlockLen + BlockLen = b * BlockLen /\ b * BlockLen <= Q * BlockLen
      BY <1>1
    <2> QED  BY <1>3, <2>1
  <1>15. CASE z <= room - 1
    <2>1. d = ProcessMessageBlock(PutLength(FillTo(s, room)))
      BY <1>4, <1>13, <1>15
    <2>2. /\ d \in Contexts(Index) /\ SameFlags(c, d)
          /\ Len(d.digest) = Q + 1
          /\ \A b \in 1..Q : d.digest[b] = c.digest[b]
          /\ \A i \in Index : i < room =>
               d.digest[Q + 1][i] = IF z + 1 <= i THEN Padding(0) ELSE s.block[i]
          /\ \A i \in Index, j \in 1..LenLen : i = room + j - 1 =>
               d.digest[Q + 1][i] =
                 IF j <= LenLen \div 2 THEN High(c.Length_High, j)
                 ELSE Low(c.Length_Low, j - LenLen \div 2)
      <3>1. Len(s.digest) = Q
        BY <1>3, <1>7
      <3>2. /\ d \in Contexts(Index) /\ SameFlags(c, d)
            /\ Len(d.digest) = Len(s.digest) + 1
            /\ \A b \in 1..Len(s.digest) : d.digest[b] = s.digest[b]
            /\ \A i \in Index : i < room =>
                 d.digest[Len(s.digest) + 1][i] =
                   IF s.index <= i THEN Padding(0) ELSE s.block[i]
            /\ \A i \in Index, j \in 1..LenLen : i = room + j - 1 =>
                 d.digest[Len(s.digest) + 1][i] =
                   IF j <= LenLen \div 2 THEN High(c.Length_High, j)
                   ELSE Low(c.Length_Low, j - LenLen \div 2)
        BY <1>7, <1>11, <2>1, Zenon
      <3> QED  BY <1>7, <3>1, <3>2
    <2>3. (Q + 1) * BlockLen \in (n + 1 + LenLen)..(n + LenLen + BlockLen)
      <3>1. PICK X \in Nat : X = (Q + 1) * BlockLen
        BY <1>1
      <3>2. X = base + BlockLen
        BY <1>1, <1>3, <3>1
      <3>3. X >= n + 1 + LenLen
        BY <1>1, <1>4, <1>15, <3>2
      <3>4. X <= n + LenLen + BlockLen
        BY <1>1, <1>4, <1>15, <3>2
      <3> QED  BY <1>1, <3>1, <3>3, <3>4
    <2>4. ASSUME NEW b \in 1..(Q + 1), NEW i \in Index
          PROVE  d.digest[b][i] = PaddedOctet(n, (b - 1) * BlockLen + i + 1)
      <3>1. PICK o \in Nat : o = (b - 1) * BlockLen
        BY <1>1
      <3>2. /\ o + i + 1 <= n => PaddedOctet(n, o + i + 1) = Message(o + i + 1)
            /\ o + i = n => PaddedOctet(n, o + i + 1) = Padding(128)
            /\ o + i > n /\ (b < Q + 1 \/ i < room) =>
                 PaddedOctet(n, o + i + 1) = Padding(0)
            /\ \A j \in 1..LenLen : b = Q + 1 /\ i = room + j - 1 =>
                 PaddedOctet(n, o + i + 1) =
                   IF j <= LenLen \div 2 THEN High(c.Length_High, j)
                   ELSE Low(c.Length_Low, j - LenLen \div 2)
        BY <1>10, <2>3, <3>1
      <3>3. i \in Nat /\ i < BlockLen
        BY <1>1 DEF Index
      <3>4. CASE b \in 1..Q
        <4>0. o + BlockLen <= base
          BY <1>14, <3>1, <3>4
        <4>1. o + i + 1 <= n
          <5>1. o + i + 1 <= base + z
            BY <1>1, <3>3, <4>0, InBlock
          <5> QED  BY <1>4, <5>1, Zenon
        <4> QED  BY <1>9, <2>2, <3>1, <3>2, <3>4, <4>1
      <3>5. CASE b = Q + 1
        <4>1. o = base
          BY <1>1, <1>3, <3>1, <3>5
        <4>2. CASE i < z
          <5>1. i < room /\ ~(z + 1 <= i) /\ o + i + 1 <= n
            BY <1>4, <1>15, <3>3, <4>1, <4>2
          <5> QED  BY <1>8, <2>2, <3>1, <3>2, <3>5, <4>1, <4>2, <5>1
        <4>3. CASE i = z
          <5>1. i < room /\ ~(z + 1 <= i) /\ o + i = n
            BY <1>4, <1>15, <3>3, <4>1, <4>3
          <5> QED  BY <1>7, <2>2, <3>1, <3>2, <3>5, <4>1, <4>3, <5>1
        <4>4. CASE z < i /\ i < room
          <5>1. z + 1 <= i /\ o + i > n
            BY <1>4, <3>3, <4>1, <4>4
          <5> QED  BY <2>2, <3>1, <3>2, <3>5, <4>4, <5>1
        <4>5. CASE ~(i < room)
          <5>1. PICK j \in 1..LenLen : i = room + j - 1
            BY <1>12, <4>5
          <5> QED  BY <2>2, <3>1, <3>2, <3>5, <5>1
        <4> QED  BY <3>3, <4>2, <4>3, <4>4, <4>5
      <3>6. b \in 1..Q \/ b = Q + 1
        OBVIOUS
      <3> QED  BY <3>4, <3>5, <3>6
    <2>5. PaddedLen(n) = (Q + 1) * BlockLen
      BY <2>3, PaddedLenIs
    <2>6. DOMAIN d.digest = 1..(Q + 1)
      BY <2>2 DEF Contexts
    <2> QED  BY <2>2, <2>4, <2>5, <2>6 DEF DigestOf
  <1>16. CASE ~(z <= room - 1)
    <2>1. PICK f : f = FillTo(s, BlockLen)
      OBVIOUS
    <2>2. PICK p : p = ProcessMessageBlock(f)
      OBVIOUS
    <2>3. d = ProcessMessageBlock(PutLength(FillTo(p, room)))
      BY <1>4, <1>13, <1>16, <2>1, <2>2
    <2>4. /\ f \in Contexts(0..BlockLen)
          /\ \A i \in Index : f.block[i] =
               IF z + 1 <= i /\ i < BlockLen THEN Padding(0) ELSE s.block[i]
          /\ f.digest = c.digest /\ SameLength(c, f) /\ SameFlags(c, f)
      <3>1. /\ f \in Contexts(0..BlockLen)
            /\ \A i \in Index : f.block[i] =
                 IF s.index <= i /\ i < BlockLen THEN Padding(0) ELSE s.block[i]
            /\ f.digest = s.digest /\ SameLength(s, f) /\ SameFlags(s, f)
        <4>1. BlockLen \in 0..BlockLen
          BY <1>1
        <4> QED  BY <1>7, <2>1, <4>1, FillToIs
      <3> QED  BY <1>7, <3>1 DEF SameLength, SameFlags
    <2>5. /\ p \in Contexts(0..BlockLen) /\ p.index = 0 /\ Len(p.digest) = Q + 1
          /\ \A b \in 1..Q : p.digest[b] = c.digest[b]
          /\ p.digest[Q + 1] = f.block
          /\ SameLength(c, p) /\ SameFlags(c, p)
      <3>1. /\ p \in Contexts(Index) /\ p.index = 0
            /\ Len(p.digest) = Len(f.digest) + 1
            /\ \A b \in 1..Len(f.digest) : p.digest[b] = f.digest[b]
            /\ p.digest[Len(f.digest) + 1] = f.block
            /\ SameLength(f, p) /\ SameFlags(f, p)
        BY <2>2, <2>4, ProcessIs
      <3>2. 0 \in 0..BlockLen
        BY <1>1
      <3>3. p \in Contexts(0..BlockLen)
        BY <3>1, <3>2 DEF Contexts
      <3>4. SameLength(c, p) /\ SameFlags(c, p)
        BY <2>4, <3>1 DEF SameLength, SameFlags
      <3> QED  BY <1>3, <2>4, <3>1, <3>3, <3>4
    <2>6. /\ d \in Contexts(Index) /\ SameFlags(c, d)
          /\ Len(d.digest) = Q + 2
          /\ \A b \in 1..(Q + 1) : d.digest[b] = p.digest[b]
          /\ \A i \in Index : i < room => d.digest[Q + 2][i] = Padding(0)
          /\ \A i \in Index, j \in 1..LenLen : i = room + j - 1 =>
               d.digest[Q + 2][i] =
                 IF j <= LenLen \div 2 THEN High(c.Length_High, j)
                 ELSE Low(c.Length_Low, j - LenLen \div 2)
      <3>1. /\ d \in Contexts(Index) /\ SameFlags(c, d)
            /\ Len(d.digest) = Len(p.digest) + 1
            /\ \A b \in 1..Len(p.digest) : d.digest[b] = p.digest[b]
            /\ \A i \in Index : i < room =>
                 d.digest[Len(p.digest) + 1][i] =
                   IF p.index <= i THEN Padding(0) ELSE p.block[i]
            /\ \A i \in Index, j \in 1..LenLen : i = room + j - 1 =>
                 d.digest[Len(p.digest) + 1][i] =
                   IF j <= LenLen \div 2 THEN High(c.Length_High, j)
                   ELSE Low(c.Length_Low, j - LenLen \div 2)
        BY <1>11, <2>3, <2>5
      <3>2. Len(p.digest) = Q + 1 /\ Len(p.digest) + 1 = Q + 2
        BY <2>5
      <3>3. \A i \in Index : p.index <= i
        BY <1>1, <2>5 DEF Index
      <3> QED  BY <3>1, <3>2, <3>3
    <2>7. (Q + 2) * BlockLen \in (n + 1 + LenLen)..(n + LenLen + BlockLen)
      <3>1. PICK X \in Nat : X = (Q + 2) * BlockLen
        BY <1>1
      <3>2. X = base + BlockLen + BlockLen
        BY <1>1, <1>3, <3>1
      <3>3. X >= n + 1 + LenLen
        BY <1>1, <1>4, <1>16, <3>2
      <3>4. X <= n + LenLen + BlockLen
        BY <1>1, <1>4, <1>16, <3>2
      <3> QED  BY <1>1, <3>1, <3>3, <3>4
    <2>8. ASSUME NEW b \in 1..(Q + 2), NEW i \in Index
          PROVE  d.digest[b][i] = PaddedOctet(n, (b - 1) * BlockLen + i + 1)
      <3>1. PICK o \in Nat : o = (b - 1) * BlockLen
        BY <1>1
      <3>2. /\ o + i + 1 <= n => PaddedOctet(n, o + i + 1) = Message(o + i + 1)
            /\ o + i = n => PaddedOctet(n, o + i + 1) = Padding(128)
            /\ o + i > n /\ (b < Q + 2 \/ i < room) =>
                 PaddedOctet(n, o + i + 1) = Padding(0)
            /\ \A j \in 1..LenLen : b = Q + 2 /\ i = room + j - 1 =>
                 PaddedOctet(n, o + i + 1) =
                   IF j <= LenLen \div 2 THEN High(c.Length_High, j)
                   ELSE Low(c.Length_Low, j - LenLen \div 2)
        BY <1>10, <2>7, <3>1
      <3>3. i \in Nat /\ i < BlockLen
        BY <1>1 DEF Index
      <3>4. CASE b \in 1..Q
        <4>0. o + BlockLen <= base
          BY <1>14, <3>1, <3>4
        <4>1. o + i + 1 <= n
          <5>1. o + i + 1 <= base + z
            BY <1>1, <3>3, <4>0, InBlock
          <5> QED  BY <1>4, <5>1, Zenon
        <4>2. d.digest[b] = c.digest[b]
          <5>1. b \in 1..(Q + 1)
            BY <3>4
          <5>2. d.digest[b] = p.digest[b]
            BY <2>6, <5>1
          <5>3. p.digest[b] = c.digest[b]
            BY <2>5, <3>4
          <5> QED  BY <5>2, <5>3
        <4> QED  BY <1>9, <3>1, <3>2, <3>4, <4>1, <4>2
      <3>5. CASE b = Q + 1
        <4>1. o = base
          BY <1>1, <1>3, <3>1, <3>5
        <4>2. d.digest[b][i] = IF z + 1 <= i THEN Padding(0) ELSE s.block[i]
          <5>1. d.digest[b] = f.block
            BY <2>5, <2>6, <3>5
          <5> QED  BY <2>4, <3>3, <5>1
        <4>3. CASE i < z
          <5>1. ~(z + 1 <= i) /\ o + i + 1 <= n
            BY <1>4, <3>3, <4>1, <4>3
          <5> QED  BY <1>8, <3>1, <3>2, <4>1, <4>2, <4>3, <5>1
        <4>4. CASE i = z
          <5>1. ~(z + 1 <= i) /\ o + i = n
            BY <1>4, <3>3, <4>1, <4>4
          <5> QED  BY <1>7, <3>1, <3>2, <4>1, <4>2, <4>4, <5>1
        <4>5. CASE z < i
          <5>1. z + 1 <= i /\ o + i > n /\ b < Q + 2
            BY <1>4, <3>3, <3>5, <4>1, <4>5
          <5> QED  BY <3>1, <3>2, <4>2, <5>1
        <4> QED  BY <3>3, <4>3, <4>4, <4>5
      <3>6. CASE b = Q + 2
        <4>0. o = base + BlockLen
          BY <1>1, <1>3, <3>1, <3>6
        <4>1. o + i > n
          BY <1>1, <1>4, <3>3, <4>0
        <4>2. CASE i < room
          BY <2>6, <3>1, <3>2, <3>6, <4>1, <4>2
        <4>3. CASE ~(i < room)
          <5>1. PICK j \in 1..LenLen : i = room + j - 1
            BY <1>12, <4>3
          <5> QED  BY <2>6, <3>1, <3>2, <3>6, <5>1
        <4> QED  BY <4>2, <4>3
      <3>7. b \in 1..Q \/ b = Q + 1 \/ b = Q + 2
        OBVIOUS
      <3> QED  BY <3>4, <3>5, <3>6, <3>7
    <2>9. PaddedLen(n) = (Q + 2) * BlockLen
      BY <2>7, PaddedLenIs
    <2>10. DOMAIN d.digest = 1..(Q + 2)
      BY <2>6 DEF Contexts
    <2> QED  BY <2>6, <2>8, <2>9, <2>10 DEF DigestOf
  <1> QED  BY <1>15, <1>16

-----------------------------------------------------------------------------
(* The theorems. *)

\* The context after SHA1Reset, whatever the block still holds.
LEMMA ResetIs ==
  ASSUME NEW c, c.block \in [Index -> Octet], NEW d, d = Reset(c)
  PROVE  /\ d \in Contexts(Index) /\ d.index = 0 /\ Len(d.digest) = 0
         /\ d.Length_Low = 0 /\ d.Length_High = 0 /\ ~d.Computed /\ ~d.Corrupted
         /\ BlocksHold(d)
  <1>1. 0 \in Index /\ 0 \in 0..(LenMod - 1) /\ BlockLen \in Nat
    BY SizesAssumption DEF Index
  <1>2. <<>> \in Seq([Index -> Octet])
    OBVIOUS
  <1>3. d \in Contexts(Index)
    BY <1>1, <1>2 DEF Reset, Contexts
  <1>4. /\ d.index = 0 /\ d.digest = <<>> /\ d.Length_Low = 0 /\ d.Length_High = 0
        /\ ~d.Computed /\ ~d.Corrupted
    BY DEF Reset
  <1>5. DOMAIN d.digest = {} /\ Len(d.digest) = 0
    BY <1>4
  <1>6. \A i \in Index : ~(i < d.index)
    BY <1>1, <1>4 DEF Index
  <1>7. BlocksHold(d)
    BY <1>5, <1>6 DEF BlocksHold
  <1> QED  BY <1>3, <1>4, <1>5, <1>7

\* The invariant holds when the context is new.
LEMMA ShaInitKeeps == ShaInit => ShaInv
  <1> SUFFICES ASSUME ShaInit PROVE ShaInv
    OBVIOUS
  <1> DEFINE c == [block |-> [i \in Index |-> Padding(0)]]
  <1>1. c.block \in [Index -> Octet]
    BY OctetKinds
  <1>2. context = Reset(c) /\ length = 0 /\ offered = 0 /\ result = "none"
    BY DEF ShaInit
  <1> HIDE DEF c
  <1>3. /\ context \in Contexts(Index) /\ context.index = 0
        /\ Len(context.digest) = 0 /\ context.Length_Low = 0
        /\ context.Length_High = 0 /\ ~context.Computed /\ ~context.Corrupted
        /\ BlocksHold(context)
    BY <1>1, <1>2, ResetIs
  <1>4. ShaTypeOK
    <2>1. 0 \in 0..MaxOctets
      BY SizesAssumption
    <2> QED  BY <1>2, <1>3, <2>1, TypeIs
  <1>5. Taken = 0 /\ length <= offered
    BY <1>2 DEF Taken
  <1>6. 0 = 0 * BlockLen + 0 /\ 0 * Bits = 0 * LenMod + 0 /\ 0 % Bits = 0
    BY SizesAssumption
  <1>7. Collecting
    BY <1>3, <1>5, <1>6 DEF Collecting
  <1> QED  BY <1>2, <1>3, <1>4, <1>5, <1>7 DEF ShaInv, Concluded, CorruptedForCause

\* SHA1Reset starts over.
LEMMA ResetKeeps ==
  ASSUME ShaInv, SHA1Reset
  PROVE  ShaInv'
  <1>1. context \in Contexts(Index)
    BY TypeIs DEF ShaInv
  <1>2. context' = Reset(context) /\ length' = 0 /\ offered' = 0 /\ result' = "none"
    BY DEF SHA1Reset
  <1>3. /\ context' \in Contexts(Index) /\ context'.index = 0
        /\ Len(context'.digest) = 0 /\ context'.Length_Low = 0
        /\ context'.Length_High = 0 /\ ~context'.Computed /\ ~context'.Corrupted
        /\ BlocksHold(context')
    <2>1. context.block \in [Index -> Octet]
      BY <1>1 DEF Contexts
    <2> QED  BY <1>2, <2>1, ResetIs
  <1>4. ShaTypeOK'
    <2>1. 0 \in 0..MaxOctets
      BY SizesAssumption
    <2> QED  BY <1>2, <1>3, <2>1 DEF ShaTypeOK, Contexts
  <1>5. Taken' = 0 /\ length' <= offered'
    BY <1>2 DEF Taken
  <1>6. 0 = 0 * BlockLen + 0 /\ 0 * Bits = 0 * LenMod + 0 /\ 0 % Bits = 0
    BY SizesAssumption
  <1>7. Collecting'
    BY <1>3, <1>5, <1>6 DEF Collecting, BlocksHold
  <1> QED  BY <1>2, <1>3, <1>4, <1>5, <1>7 DEF ShaInv, Concluded, CorruptedForCause

\* SHA1Input begins, or refuses input that comes too late.
LEMMA InputKeeps ==
  ASSUME ShaInv, NEW n \in Pieces, SHA1Input(n)
  PROVE  ShaInv'
  <1>1. /\ context \in Contexts(Index) /\ length = 0 /\ offered \in 0..MaxOctets
        /\ offered + n <= MaxOctets /\ offered' = offered + n /\ result' = "none"
    BY TypeIs DEF ShaInv, SHA1Input
  <1>2. n \in Nat /\ MaxOctets \in Nat /\ Bits \in Nat /\ LenMod \in Nat
    BY SizesAssumption
  <1>3. offered' \in 0..MaxOctets /\ offered' >= offered
    BY <1>1, <1>2
  <1>4. offered' * Bits >= offered * Bits
    BY <1>1, <1>2, <1>3
  <1>5. CASE n > 0 /\ (context.Computed \/ context.Corrupted)
    <2>1. context' = [context EXCEPT !.Corrupted = TRUE] /\ length' = 0
      BY <1>1, <1>5 DEF SHA1Input
    <2>2. /\ context' \in Contexts(Index) /\ context'.Corrupted
          /\ context'.Computed = context.Computed
      BY <1>1, <2>1 DEF Contexts
    <2>3. ShaTypeOK'
      BY <1>1, <1>3, <2>1, <2>2 DEF ShaTypeOK, Contexts
    <2>4. length' <= offered'
      BY <1>3, <2>1
    <2>5. CorruptedForCause'
      <3>1. CASE context.Computed
        BY <2>2, <3>1 DEF CorruptedForCause
      <3>2. CASE context.Corrupted /\ ~context.Computed
        <4>1. offered * Bits >= LenMod * LenMod
          BY <3>2 DEF ShaInv, CorruptedForCause
        <4>2. offered * Bits \in Nat /\ offered' * Bits \in Nat /\ LenMod * LenMod \in Nat
          BY <1>1, <1>2, <1>3
        <4>3. offered' * Bits >= LenMod * LenMod
          BY <1>4, <4>1, <4>2
        <4> QED  BY <4>3 DEF CorruptedForCause
      <3> QED  BY <1>5, <3>1, <3>2
    <2>6. Collecting' /\ Concluded'
      BY <2>1, <2>2 DEF Collecting, Concluded
    <2> QED  BY <1>1, <2>3, <2>4, <2>5, <2>6 DEF ShaInv
  <1>6. CASE ~(n > 0 /\ (context.Computed \/ context.Corrupted))
    <2>1. context' = context /\ length' = n
      BY <1>6 DEF SHA1Input
    <2>2. ShaTypeOK'
      BY <1>1, <1>2, <1>3, <2>1 DEF ShaTypeOK, Contexts
    <2>3. length' <= offered' /\ Taken' = Taken
      BY <1>1, <1>2, <2>1 DEF Taken
    <2>4. Collecting'
      BY <2>1, <2>3 DEF ShaInv, Collecting, BlocksHold
    <2>5. Concluded' /\ CorruptedForCause'
      <3>1. CASE n > 0
        BY <1>6, <2>1, <3>1 DEF Concluded, CorruptedForCause
      <3>2. CASE ~(n > 0)
        <4>1. n = 0 /\ offered' = offered /\ length' = length
          BY <1>1, <1>2, <2>1, <3>2
        <4> QED  BY <2>1, <4>1
                 DEF ShaInv, Concluded, CorruptedForCause, DigestOf
      <3> QED  BY <3>1, <3>2
    <2> QED  BY <1>1, <2>2, <2>3, <2>4, <2>5 DEF ShaInv
  <1> QED  BY <1>5, <1>6

\* A turn of its loop.
LEMMA LoopKeeps ==
  ASSUME ShaInv, InputLoop
  PROVE  ShaInv'
  <1>1. /\ context \in Contexts(Index) /\ length \in Nat /\ length > 0
        /\ offered \in 0..MaxOctets /\ length <= offered
        /\ offered' = offered /\ result' = result
    BY TypeIs DEF ShaInv, InputLoop
  <1>2. ~context.Computed /\ result # "ok" /\ result \in {"none", "ok", "failed"}
    BY <1>1 DEF ShaInv, Concluded, ShaTypeOK
  <1>3. MaxOctets \in Nat /\ Bits \in Nat /\ LenMod \in Nat
    BY SizesAssumption
  <1>4. CASE context.Corrupted
    <2>1. context' = context /\ length' = 0
      BY <1>4 DEF InputLoop
    <2>2. ShaTypeOK' /\ length' <= offered'
      BY <1>1, <1>2, <2>1 DEF ShaTypeOK, Contexts
    <2> QED  BY <1>1, <1>2, <1>4, <2>1, <2>2
             DEF ShaInv, Collecting, Concluded, CorruptedForCause
  <1>5. CASE ~context.Corrupted
    <2>1. /\ context' = InputOctet(context, Message(offered - length + 1))
          /\ length' = length - 1
      BY <1>5 DEF InputLoop
    <2>2. PICK m \in Nat : m = offered - length
      BY <1>1
    <2>3. /\ m = Len(context.digest) * BlockLen + context.index
          /\ m * Bits = context.Length_High * LenMod + context.Length_Low
          /\ context.Length_Low % Bits = 0 /\ BlocksHold(context)
      BY <1>2, <1>5, <2>2 DEF ShaInv, Collecting, Taken
    <2>4. m + 1 \in 1..MaxOctets /\ context' = InputOctet(context, Message(m + 1))
      BY <1>1, <1>3, <2>1, <2>2
    <2>5. PICK d : d = context'
      OBVIOUS
    <2>6. /\ d \in Contexts(Index) /\ d.Computed = context.Computed
          /\ m + 1 = Len(d.digest) * BlockLen + d.index
          /\ d.Length_Low % Bits = 0 /\ BlocksHold(d)
          /\ d.Corrupted => (m + 1) * Bits >= LenMod * LenMod
          /\ ~d.Corrupted =>
               (m + 1) * Bits = d.Length_High * LenMod + d.Length_Low
      BY <1>1, <1>5, <2>3, <2>4, <2>5, InputOctetIs
    <2>7. Taken' = m + 1 /\ length' \in Nat /\ length' <= offered' /\ m + 1 <= offered'
      BY <1>1, <2>1, <2>2 DEF Taken
    <2>8. ShaTypeOK'
      BY <1>1, <1>2, <2>5, <2>6, <2>7 DEF ShaTypeOK, Contexts
    <2>9. Collecting'
      BY <2>5, <2>6, <2>7 DEF Collecting, BlocksHold
    <2>10. ~context'.Computed
      BY <1>2, <2>5, <2>6
    <2>11. context'.Corrupted => offered' * Bits >= LenMod * LenMod
      <3> SUFFICES ASSUME context'.Corrupted PROVE offered' * Bits >= LenMod * LenMod
        OBVIOUS
      <3>1. (m + 1) * Bits >= LenMod * LenMod
        BY <2>5, <2>6
      <3>2. (m + 1) * Bits <= offered' * Bits
        BY <1>1, <1>3, <2>7
      <3>3. /\ (m + 1) * Bits \in Nat /\ offered' * Bits \in Nat
            /\ LenMod * LenMod \in Nat
        BY <1>1, <1>3
      <3> QED  BY <3>1, <3>2, <3>3
    <2> QED  BY <1>1, <1>2, <2>7, <2>8, <2>9, <2>10, <2>11
             DEF ShaInv, Concluded, CorruptedForCause
  <1> QED  BY <1>4, <1>5

\* SHA1Result pads the message once.
LEMMA ResultKeeps ==
  ASSUME ShaInv, SHA1Result
  PROVE  ShaInv'
  <1>1. /\ context \in Contexts(Index) /\ length = 0 /\ offered \in 0..MaxOctets
        /\ offered' = offered /\ length' = 0
        /\ result' = IF context.Corrupted THEN "failed" ELSE "ok"
    BY TypeIs DEF ShaInv, SHA1Result
  <1>2. result' \in {"none", "ok", "failed"} /\ length' <= offered'
    BY <1>1
  <1>3. CASE context.Corrupted \/ context.Computed
    <2>1. context' = context
      BY <1>3 DEF SHA1Result
    <2>2. ShaTypeOK'
      BY <1>1, <1>2, <2>1 DEF ShaTypeOK, Contexts
    <2>3. Collecting' /\ Concluded' /\ CorruptedForCause'
      BY <1>1, <1>3, <2>1
         DEF ShaInv, Collecting, Concluded, CorruptedForCause, DigestOf
    <2>4. result' = "ok" => context'.Computed /\ ~context'.Corrupted
      BY <1>1, <1>3, <2>1
    <2> QED  BY <1>2, <2>2, <2>3, <2>4 DEF ShaInv
  <1>4. CASE ~context.Corrupted /\ ~context.Computed
    <2>1. PICK p : p = PadMessage(context)
      OBVIOUS
    <2>2. context' = [p EXCEPT !.Computed = TRUE]
      BY <1>4, <2>1 DEF SHA1Result
    <2>3. PICK n \in Nat : n = offered
      BY <1>1
    <2>4. /\ n = Len(context.digest) * BlockLen + context.index
          /\ n * Bits = context.Length_High * LenMod + context.Length_Low
          /\ BlocksHold(context)
      <3>1. Taken = n
        BY <1>1, <2>3 DEF Taken
      <3> QED  BY <1>4, <3>1 DEF ShaInv, Collecting
    <2>5. p \in Contexts(Index) /\ DigestOf(p, n) /\ SameFlags(context, p)
      BY <1>1, <2>1, <2>4, PadMessageIs
    <2>6. /\ context' \in Contexts(Index) /\ context'.digest = p.digest
          /\ context'.Computed /\ ~context'.Corrupted
      BY <1>4, <2>2, <2>5 DEF Contexts, SameFlags
    <2>7. ShaTypeOK'
      BY <1>1, <1>2, <2>6 DEF ShaTypeOK, Contexts
    <2>8. DigestOf(context, offered)'
      BY <1>1, <2>3, <2>5, <2>6 DEF DigestOf
    <2> QED  BY <1>1, <1>2, <2>6, <2>7, <2>8
             DEF ShaInv, Collecting, Concluded, CorruptedForCause
  <1> QED  BY <1>3, <1>4

\* The context is at every call what the calls so far make of it.
THEOREM ShaInvHolds == ShaSpec => []ShaInv
  <1>1. ShaInit => ShaInv
    BY ShaInitKeeps
  <1>2. ShaInv /\ [ShaNext]_shaVars => ShaInv'
    <2> SUFFICES ASSUME ShaInv, [ShaNext]_shaVars PROVE ShaInv'
      OBVIOUS
    <2>1. CASE SHA1Reset
      BY <2>1, ResetKeeps
    <2>2. CASE \E n \in Pieces : SHA1Input(n)
      BY <2>2, InputKeeps
    <2>3. CASE InputLoop
      BY <2>3, LoopKeeps
    <2>4. CASE SHA1Result
      BY <2>4, ResultKeeps
    <2>5. CASE UNCHANGED shaVars
      BY <2>5 DEF shaVars, ShaInv, ShaTypeOK, Collecting, Concluded, Taken,
                  CorruptedForCause, BlocksHold, DigestOf
    <2> QED  BY <2>1, <2>2, <2>3, <2>4, <2>5 DEF ShaNext
  <1> QED  BY <1>1, <1>2, PTL DEF ShaSpec

\* Every access to Message_Block is inside of it, for blocks of any length and
\* messages of any number of octets.
THEOREM ShaTypeCorrect == ShaSpec => []ShaTypeOK
  <1>1. ShaInv => ShaTypeOK
    BY DEF ShaInv
  <1> QED  BY <1>1, ShaInvHolds, PTL

\* When SHA1Result returns 1 the digest is that of the padded message, however
\* it was cut into calls of SHA1Input.
THEOREM DigestIsOfMessage == ShaSpec => []DigestOfMessage
  <1>1. ShaInv => DigestOfMessage
    BY DEF ShaInv, Concluded, DigestOfMessage
  <1> QED  BY <1>1, ShaInvHolds, PTL

\* A context is corrupted only by a message too long for its length words, or
\* by input after a result.
THEOREM OnlyCorruptedForCause == ShaSpec => []CorruptedForCause
  <1>1. ShaInv => CorruptedForCause
    BY DEF ShaInv
  <1> QED  BY <1>1, ShaInvHolds, PTL

-----------------------------------------------------------------------------
(* Induction over the octets that are summed. *)

\* Every non-empty set of numbers has a least one.
LEMMA LeastNumber ==
  ASSUME NEW T, T \subseteq Nat, T # {}
  PROVE  \E m \in T : \A k \in T : m <= k
  <1>1. IsWellFoundedOn(OpToRel(<, Nat), Nat)
    BY NatLessThanWellFounded, Zenon
  <1>2. PICK m \in T : \A k \in T : ~(<<k, m>> \in OpToRel(<, Nat))
    BY <1>1, WFMin, Zenon
  <1>3. \A k \in T : ~(k < m)
    <2> TAKE k \in T
    <2>1. k \in Nat /\ m \in Nat
      OBVIOUS
    <2> QED  BY <1>2, <2>1 DEF OpToRel
  <1> QED  BY <1>3

\* A set with 0 that has the successor of each of its numbers up to N has them all.
LEMMA UpTo ==
  ASSUME NEW N \in Nat, NEW S, 0 \in S, \A n \in 1..N : n - 1 \in S => n \in S
  PROVE  \A n \in 0..N : n \in S
  <1> SUFFICES ASSUME NEW x \in 0..N, x \notin S PROVE FALSE
    OBVIOUS
  <1> DEFINE T == {n \in 0..N : n \notin S}
  <1>1. PICK m \in T : \A k \in T : m <= k
    <2>1. T \subseteq Nat /\ x \in T
      OBVIOUS
    <2> HIDE DEF T
    <2> QED  BY <2>1, LeastNumber
  <1>2. m \in 1..N /\ m \notin S
    OBVIOUS
  <1>3. m - 1 \in 0..N /\ ~(m <= m - 1)
    BY <1>2
  <1>4. m - 1 \in S
    BY <1>1, <1>3
  <1> QED  BY <1>2, <1>4

\* t is the sequence of the partial sums of v.
Partial(t, v, N) ==
  /\ t \in [0..N -> Nat] /\ t[0] = 0
  /\ \A n \in 1..N : t[n] = t[n - 1] + v[n]

\* Numbers have partial sums.
LEMMA PartialSums ==
  ASSUME NEW N \in Nat, NEW v \in [1..N -> Nat]
  PROVE  \E t : Partial(t, v, N)
  <1> DEFINE S == {k \in 0..N : \E t : Partial(t, v, k)}
  <1>1. 0 \in S
    <2>1. Partial([n \in 0..0 |-> 0], v, 0)
      BY DEF Partial
    <2>2. 0 \in 0..N
      OBVIOUS
    <2> QED  BY <2>1, <2>2
  <1>2. ASSUME NEW n \in 1..N, n - 1 \in S
        PROVE  n \in S
    <2>1. PICK t : Partial(t, v, n - 1)
      BY <1>2
    <2> DEFINE g == [k \in 0..n |-> IF k = n THEN t[n - 1] + v[n] ELSE t[k]]
    <2>2. n \in Nat /\ n - 1 \in 0..(n - 1) /\ t[n - 1] \in Nat /\ v[n] \in Nat
      BY <2>1 DEF Partial
    <2>3. t[n - 1] + v[n] \in Nat
      BY <2>2
    <2>4. \A k \in 0..n : k # n => k \in 0..(n - 1)
      BY <2>2
    <2>5. g \in [0..n -> Nat] /\ g[0] = 0
      BY <2>1, <2>2, <2>3, <2>4 DEF Partial
    <2>6. \A k \in 1..n : g[k] = g[k - 1] + v[k]
      <3> TAKE k \in 1..n
      <3>1. k - 1 \in 0..n /\ k - 1 # n /\ g[k - 1] = t[k - 1]
        BY <2>2
      <3>2. CASE k = n
        BY <3>1, <3>2, <2>2
      <3>3. CASE k # n
        <4>1. k \in 1..(n - 1) /\ k \in 0..n
          BY <2>2, <3>3
        <4> QED  BY <2>1, <3>1, <3>3, <4>1 DEF Partial
      <3> QED  BY <3>2, <3>3
    <2> HIDE DEF g
    <2>7. Partial(g, v, n)
      BY <2>5, <2>6 DEF Partial
    <2>8. n \in 0..N
      OBVIOUS
    <2> QED  BY <2>7, <2>8
  <1>3. N \in S
    <2> HIDE DEF S
    <2>1. \A n \in 1..N : n - 1 \in S => n \in S
      BY <1>2
    <2>2. \A n \in 0..N : n \in S
      BY <1>1, <2>1, UpTo
    <2> QED  BY <2>2
  <1> QED  BY <1>3

\* Sums of the same numbers are the same.
LEMMA SumsAgree ==
  ASSUME NEW N \in Nat, NEW v, NEW t, Partial(t, v, N),
         NEW g, g[0] = 0, \A n \in 1..N : g[n] = g[n - 1] + v[n]
  PROVE  \A n \in 0..N : g[n] = t[n]
  <1> DEFINE S == {n \in 0..N : g[n] = t[n]}
  <1>1. 0 \in S
    BY DEF Partial
  <1>2. ASSUME NEW n \in 1..N, n - 1 \in S
        PROVE  n \in S
    BY <1>2 DEF Partial
  <1>3. \A n \in 0..N : n \in S
    <2> HIDE DEF S
    <2>1. \A n \in 1..N : n - 1 \in S => n \in S
      BY <1>2
    <2> QED  BY <1>1, <2>1, UpTo
  <1> QED  BY <1>3

-----------------------------------------------------------------------------
(* Words and the sum of the octets. *)

\* Octets make up words, and a word is at least as large as its octets.
LEMMA WordFacts ==
  /\ Byte \in Nat /\ Byte >= 2 /\ WordMod \in Nat /\ WordMod >= 4 /\ WordMod >= Byte
  /\ \A x \in Octets, y \in Octets : x * Byte + y \in 0..(WordMod - 1)
  /\ \A x \in Octets : x \in Nat /\ x * Byte \in 0..(WordMod - 1) /\ x \in 0..(WordMod - 1)
  /\ \A w \in 0..(WordMod - 1) :
       /\ w \div Byte \in Octets /\ w % Byte \in Octets
       /\ (w \div Byte) * Byte + (w % Byte) = w
  <1>1. Byte \in Nat /\ Byte >= 2
    BY LengthsAssumption
  <1>2. WordMod \in Nat /\ WordMod >= 4 /\ WordMod >= Byte
    BY <1>1 DEF WordMod
  <1>3. ASSUME NEW x \in Octets, NEW y \in Octets
        PROVE  x * Byte + y \in 0..(WordMod - 1)
    <2>1. x \in Nat /\ y \in Nat /\ x <= Byte - 1 /\ y <= Byte - 1
      BY <1>1 DEF Octets
    <2>2. x * Byte <= (Byte - 1) * Byte
      BY <1>1, <2>1
    <2>3. (Byte - 1) * Byte = WordMod - Byte
      BY <1>1 DEF WordMod
    <2>4. x * Byte \in Nat
      BY <1>1, <2>1
    <2> QED  BY <1>1, <1>2, <2>1, <2>2, <2>3, <2>4
  <1>4. ASSUME NEW x \in Octets
        PROVE  x \in Nat /\ x * Byte \in 0..(WordMod - 1) /\ x \in 0..(WordMod - 1)
    <2>1. 0 \in Octets /\ x \in Nat
      BY <1>1 DEF Octets
    <2>2. x * Byte + 0 \in 0..(WordMod - 1) /\ 0 * Byte + x \in 0..(WordMod - 1)
      BY <1>3, <2>1
    <2>3. x * Byte \in Nat
      BY <1>1, <2>1
    <2> QED  BY <1>1, <2>1, <2>2, <2>3
  <1>5. ASSUME NEW w \in 0..(WordMod - 1)
        PROVE  /\ w \div Byte \in Octets /\ w % Byte \in Octets
               /\ (w \div Byte) * Byte + (w % Byte) = w
    <2>1. w \in Nat /\ w < Byte * Byte
      BY <1>2 DEF WordMod
    <2>2. PICK q \in Int, r \in Int : q = w \div Byte /\ r = w % Byte
      BY <1>1, <2>1
    <2>3. r \in 0..(Byte - 1) /\ q * Byte + r = w
      BY <1>1, <2>1, <2>2
    <2>4. q >= 0
      BY <1>1, <2>1, <2>3
    <2>5. q < Byte
      <3>1. ASSUME q >= Byte PROVE FALSE
        <4>1. q * Byte >= Byte * Byte
          BY <1>1, <3>1
        <4>2. q * Byte \in Int /\ Byte * Byte \in Int
          BY <1>1
        <4> QED  BY <1>1, <2>1, <2>3, <4>1, <4>2
      <3> QED  BY <1>1, <3>1
    <2> QED  BY <1>1, <2>2, <2>3, <2>4, <2>5 DEF Octets
  <1> QED  BY <1>1, <1>2, <1>3, <1>4, <1>5

\* What the octets add, as a function.
Values(d) == [i \in 1..Len(d) |-> OctetValue(d, i)]

\* It is a word or less.
LEMMA ValueFacts ==
  ASSUME NEW d \in Seq(Octets)
  PROVE  /\ Values(d) \in [1..Len(d) -> Nat]
         /\ \A i \in 1..Len(d) : /\ Values(d)[i] = OctetValue(d, i)
                                 /\ OctetValue(d, i) \in 0..(WordMod - 1)
  <1>1. ASSUME NEW i \in 1..Len(d)
        PROVE  OctetValue(d, i) \in 0..(WordMod - 1) /\ OctetValue(d, i) \in Nat
    <2>1. d[i] \in Octets
      OBVIOUS
    <2>2. d[i] * Byte \in 0..(WordMod - 1) /\ d[i] \in 0..(WordMod - 1) /\ WordMod \in Nat
      BY <2>1, WordFacts
    <2>3. OctetValue(d, i) \in 0..(WordMod - 1)
      BY <2>2 DEF OctetValue
    <2> QED  BY <2>2, <2>3
  <1> QED  BY <1>1 DEF Values

\* The sum of the octets is the last of their partial sums.
LEMMA TotalIs ==
  ASSUME NEW d \in Seq(Octets)
  PROVE  \E t : Partial(t, Values(d), Len(d)) /\ Total(d) = t[Len(d)]
  <1> DEFINE N == Len(d)
             Body(f) == [i \in 0..N |-> IF i = 0 THEN 0
                                        ELSE f[i - 1] + OctetValue(d, i)]
  <1>0. N \in Nat
    OBVIOUS
  <1>1. PICK t : Partial(t, Values(d), N)
    BY <1>0, ValueFacts, PartialSums
  <1>2. \A i \in 1..N : Values(d)[i] = OctetValue(d, i)
    BY ValueFacts
  <1>3. t = Body(t)
    BY <1>0, <1>1, <1>2 DEF Partial
  <1>4. PICK g : g = Body(g) /\ Total(d) = g[N]
    BY <1>3, Zenon DEF Total
  <1>5. g[0] = 0 /\ \A n \in 1..N : g[n] = g[n - 1] + Values(d)[n]
    BY <1>0, <1>2, <1>4
  <1> HIDE DEF N, Body
  <1>6. \A n \in 0..N : g[n] = t[n]
    BY <1>0, <1>1, <1>5, SumsAgree
  <1>7. g[N] = t[N]
    BY <1>0, <1>6
  <1> USE DEF N
  <1> QED  BY <1>1, <1>4, <1>7

\* The sum does not outgrow the accumulator.
LEMMA TotalBound ==
  ASSUME NEW d \in Seq(Octets), NEW t, Partial(t, Values(d), Len(d))
  PROVE  \A n \in 0..Len(d) : t[n] \in Nat /\ t[n] <= n * (WordMod - 1)
  <1> DEFINE N == Len(d)
             S == {n \in 0..N : t[n] <= n * (WordMod - 1)}
  <1>0. N \in Nat /\ WordMod \in Nat /\ \A n \in 0..N : t[n] \in Nat
    <2>1. N \in Nat
      OBVIOUS
    <2>2. WordMod \in Nat
      BY WordFacts
    <2>3. \A n \in 0..N : t[n] \in Nat
      BY DEF Partial
    <2> QED  BY <2>1, <2>2, <2>3
  <1>1. 0 \in S
    BY <1>0 DEF Partial
  <1>2. ASSUME NEW n \in 1..N, n - 1 \in S
        PROVE  n \in S
    <2>1. PICK v : v = OctetValue(d, n) /\ v \in 0..(WordMod - 1)
      BY ValueFacts
    <2>2. t[n] = t[n - 1] + v
      BY <2>1, ValueFacts DEF Partial
    <2>3. t[n - 1] <= (n - 1) * (WordMod - 1) /\ t[n - 1] \in Nat
      BY <1>0, <1>2
    <2>4. (n - 1) * (WordMod - 1) + (WordMod - 1) = n * (WordMod - 1)
      BY <1>0
    <2>5. (n - 1) * (WordMod - 1) \in Int /\ n * (WordMod - 1) \in Int
      BY <1>0
    <2>6. t[n] <= n * (WordMod - 1)
      BY <1>0, <2>1, <2>2, <2>3, <2>4, <2>5
    <2> QED  BY <1>0, <2>6
  <1>3. \A n \in 0..N : n \in S
    <2> HIDE DEF S, N
    <2>1. \A n \in 1..N : n - 1 \in S => n \in S
      BY <1>2
    <2> QED  BY <1>0, <1>1, <2>1, UpTo
  <1> QED  BY <1>0, <1>3

-----------------------------------------------------------------------------
(* cksum adds the octets. *)

\* The number of octets in the first k words of L octets.
InWords(k, L) == IF 2 * k <= L THEN 2 * k ELSE L

\* A word adds what its octets add.
LEMMA WordAdds ==
  ASSUME NEW d \in Seq(Octets), NEW t, Partial(t, Values(d), Len(d)),
         NEW k \in 1..((Len(d) + 1) \div 2)
  PROVE  /\ InWords(k, Len(d)) \in 0..Len(d) /\ InWords(k - 1, Len(d)) \in 0..Len(d)
         /\ t[InWords(k, Len(d))] = t[InWords(k - 1, Len(d))] + WordAt(d, 2 * k - 1)
  <1>0. PICK L \in Nat : L = Len(d)
    OBVIOUS
  <1>1. k \in Nat /\ 2 * k <= L + 1 /\ k >= 1
    BY <1>0
  <1>2. PICK i \in 1..L : i = 2 * k - 1
    BY <1>1
  <1>3. i - 1 \in 0..L /\ InWords(k - 1, L) = i - 1
    BY <1>1, <1>2 DEF InWords
  <1>4. i % 2 = 1 /\ (i + 1) % 2 = 0
    BY <1>1, <1>2
  <1>5. \A n \in 1..L : t[n] = t[n - 1] + OctetValue(d, n)
    BY <1>0, ValueFacts DEF Partial
  <1>6. t[i] = t[i - 1] + d[i] * Byte
    BY <1>4, <1>5 DEF OctetValue
  <1>7. d[i] * Byte \in Nat /\ Byte \in Nat
    <2>1. d[i] \in Octets
      BY <1>0
    <2>2. d[i] * Byte \in 0..(WordMod - 1) /\ WordMod \in Nat /\ Byte \in Nat
      BY <2>1, WordFacts
    <2> QED  BY <2>2
  <1>8. t[i - 1] \in Nat
    BY <1>0, <1>3 DEF Partial
  <1>9. CASE i = L
    <2>1. InWords(k, L) = L /\ L \in 0..L
      BY <1>1, <1>2, <1>9 DEF InWords
    <2>2. WordAt(d, i) = d[i] * Byte
      BY <1>0, <1>7, <1>9 DEF WordAt
    <2> QED  BY <1>0, <1>2, <1>3, <1>6, <1>9, <2>1, <2>2
  <1>10. CASE i # L
    <2>1. InWords(k, L) = i + 1 /\ i + 1 \in 1..L /\ i + 1 \in 0..L
      BY <1>1, <1>2, <1>10 DEF InWords
    <2>2. WordAt(d, i) = d[i] * Byte + d[i + 1]
      BY <1>0, <1>10 DEF WordAt
    <2>3. PICK j \in 1..L : j = i + 1
      BY <2>1
    <2>4. t[j] = t[j - 1] + OctetValue(d, j)
      BY <1>5
    <2>5. j - 1 = i /\ OctetValue(d, j) = d[j]
      BY <1>4, <2>3 DEF OctetValue
    <2>6. d[j] \in Nat
      <3>1. d[j] \in Octets
        BY <1>0
      <3> QED  BY <3>1, WordFacts
    <2>7. t[j] = t[i - 1] + (d[i] * Byte + d[j])
      BY <1>6, <1>7, <1>8, <2>4, <2>5, <2>6
    <2>8. t[i + 1] = t[i - 1] + WordAt(d, i)
      BY <2>2, <2>3, <2>7
    <2>9. t[InWords(k, L)] = t[InWords(k - 1, L)] + WordAt(d, 2 * k - 1)
      BY <1>2, <1>3, <2>1, <2>8
    <2> QED  BY <1>0, <1>3, <2>1, <2>9
  <1> QED  BY <1>9, <1>10

\* A sum that does not exceed n words fits in two words.
LEMMA Fits ==
  ASSUME NEW W \in Nat, W >= 4, NEW L \in Nat, L < W, NEW n \in 0..L,
         NEW x \in Nat, x <= n * (W - 1)
  PROVE  x \in 0..(W * W - 1) /\ x % (W * W) = x
  <1>1. n * (W - 1) <= W * (W - 1)
    BY SMTT(30)
  <1>2. W * (W - 1) = W * W - W
    OBVIOUS
  <1>3. W * W \in Nat /\ n * (W - 1) \in Nat /\ W * (W - 1) \in Nat
    OBVIOUS
  <1>4. x < W * W
    BY <1>1, <1>2, <1>3
  <1> QED  BY <1>3, <1>4

\* What cksum adds up is the sum of the octets: nothing is lost at the end of the
\* accumulator.
LEMMA AddedIsTotal ==
  ASSUME NEW d \in Seq(Octets), Len(d) < WordMod
  PROVE  Added(d) = Total(d) /\ Total(d) \in 0..(WordMod * WordMod - 1)
  <1>0. PICK L \in Nat, w \in Nat, M \in Nat :
          L = Len(d) /\ w = (L + 1) \div 2 /\ M = WordMod * WordMod
    BY WordFacts
  <1>1. PICK t : Partial(t, Values(d), L) /\ Total(d) = t[L]
    BY <1>0, TotalIs
  <1>2. \A n \in 0..L : t[n] \in 0..(M - 1) /\ t[n] % M = t[n]
    <2>1. \A n \in 0..L : t[n] \in Nat /\ t[n] <= n * (WordMod - 1)
      BY <1>0, <1>1, TotalBound
    <2>2. WordMod \in Nat /\ WordMod >= 4 /\ L < WordMod
      BY <1>0, WordFacts
    <2>3. ASSUME NEW n \in 0..L
          PROVE  t[n] \in 0..(WordMod * WordMod - 1) /\ t[n] % (WordMod * WordMod) = t[n]
      <3>1. PICK x \in Nat : x = t[n] /\ x <= n * (WordMod - 1)
        BY <2>1
      <3>2. x \in 0..(WordMod * WordMod - 1) /\ x % (WordMod * WordMod) = x
        BY <2>2, <3>1, Fits
      <3> QED  BY <3>1, <3>2
    <2> QED  BY <1>0, <2>3
  <1> DEFINE Body(f) == [k \in 0..w |-> IF k = 0 THEN 0
                             ELSE (f[k - 1] + WordAt(d, 2 * k - 1)) % M]
             h == [k \in 0..w |-> t[InWords(k, L)]]
  <1>3. \A k \in 1..w : /\ InWords(k, L) \in 0..L
                        /\ t[InWords(k, L)] = t[InWords(k - 1, L)] + WordAt(d, 2 * k - 1)
    BY <1>0, <1>1, WordAdds
  <1>4. InWords(0, L) = 0 /\ t[0] = 0 /\ InWords(w, L) = L
    BY <1>0, <1>1 DEF InWords, Partial
  <1>5. \A k \in 1..w : (t[InWords(k - 1, L)] + WordAt(d, 2 * k - 1)) % M = t[InWords(k, L)]
    BY <1>2, <1>3
  <1>6. h = Body(h)
    <2>1. \A k \in 1..w : h[k - 1] = t[InWords(k - 1, L)]
      BY <1>0
    <2>2. \A k \in 0..w : k # 0 => k \in 1..w
      BY <1>0
    <2>3. \A k \in 0..w : h[k] = IF k = 0 THEN 0
                                 ELSE (h[k - 1] + WordAt(d, 2 * k - 1)) % M
      BY <1>4, <1>5, <2>1, <2>2
    <2> QED  BY <2>3
  <1>7. PICK g : g = Body(g) /\ Added(d) = g[w]
    <2>1. w = (Len(d) + 1) \div 2 /\ M = WordMod * WordMod
      BY <1>0
    <2> DEFINE Sums(f) == [k \in 0..((Len(d) + 1) \div 2) |->
                             IF k = 0 THEN 0
                             ELSE (f[k - 1] + WordAt(d, 2 * k - 1)) % (WordMod * WordMod)]
    <2>2. \A f : Body(f) = Sums(f)
      BY <2>1
    <2> HIDE DEF Body, h
    <2>3. h = Sums(h)
      BY <1>6, <2>2
    <2>4. PICK g : g = Sums(g) /\ Added(d) = g[(Len(d) + 1) \div 2]
      BY <2>3, Zenon DEF Added
    <2>5. g = Body(g)
      BY <2>2, <2>4
    <2> QED  BY <2>1, <2>4, <2>5
  <1>8. g[0] = 0 /\ \A k \in 1..w : g[k] = (g[k - 1] + WordAt(d, 2 * k - 1)) % M
    BY <1>0, <1>7
  <1> HIDE DEF Body, h
  <1>9. \A k \in 0..w : g[k] = t[InWords(k, L)]
    <2> DEFINE S == {k \in 0..w : g[k] = t[InWords(k, L)]}
    <2>1. 0 \in S
      BY <1>0, <1>4, <1>8
    <2>2. ASSUME NEW k \in 1..w, k - 1 \in S
          PROVE  k \in S
      <3>1. g[k - 1] = t[InWords(k - 1, L)]
        BY <2>2
      <3>2. g[k] = (g[k - 1] + WordAt(d, 2 * k - 1)) % M
        BY <1>8
      <3>3. g[k] = t[InWords(k, L)]
        BY <1>5, <3>1, <3>2
      <3> QED  BY <3>3
    <2>3. \A k \in 0..w : k \in S
      <3> HIDE DEF S
      <3>1. \A k \in 1..w : k - 1 \in S => k \in S
        BY <2>2
      <3> QED  BY <1>0, <2>1, <3>1, UpTo
    <2> QED  BY <2>3
  <1>10. g[w] = t[L]
    BY <1>0, <1>4, <1>9
  <1>11. Total(d) \in 0..(M - 1)
    BY <1>0, <1>1, <1>2
  <1> QED  BY <1>0, <1>1, <1>7, <1>10, <1>11

-----------------------------------------------------------------------------
(* The carries. *)

\* sum >> 16 and sum & 0xffff, of a sum that is more than a word.
LEMMA Carry ==
  ASSUME NEW W \in Nat, W >= 4, NEW s \in 0..(W * W - 1), s >= W
  PROVE  \E q \in 1..(W - 1), r \in 0..(W - 1) :
           s \div W = q /\ s % W = r /\ s = q * W + r
  <1>1. PICK q \in Int, r \in Int : q = s \div W /\ r = s % W
    OBVIOUS
  <1>2. r \in 0..(W - 1) /\ s = q * W + r
    BY <1>1
  <1>3. q >= 1
    BY <1>2
  <1>4. q < W
    <2>1. ASSUME q >= W PROVE FALSE
      <3>1. q * W >= W * W
        BY <2>1
      <3>2. q * W \in Int /\ W * W \in Int
        OBVIOUS
      <3> QED  BY <1>2, <3>1, <3>2
    <2> QED  BY <2>1
  <1> QED  BY <1>1, <1>2, <1>3, <1>4

\* One turn of the loop, as a function of the sum.
Fold(s) == (s \div WordMod) + (s % WordMod)

\* The sum loses a multiple of WordMod - 1 and is not zero; two turns are enough.
LEMMA FoldFacts ==
  ASSUME NEW s \in 0..(WordMod * WordMod - 1), s >= WordMod
  PROVE  /\ Fold(s) \in 1..(2 * WordMod - 2) /\ Fold(s) \in 0..(WordMod * WordMod - 1)
         /\ \E q \in Nat : s = Fold(s) + q * (WordMod - 1)
         /\ s <= 2 * WordMod - 2 => Fold(s) < WordMod
  <1>0. WordMod \in Nat /\ WordMod >= 4
    BY WordFacts
  <1>1. PICK q \in 1..(WordMod - 1), r \in 0..(WordMod - 1) :
          s \div WordMod = q /\ s % WordMod = r /\ s = q * WordMod + r
    BY <1>0, Carry
  <1>2. Fold(s) = q + r
    BY <1>1 DEF Fold
  <1>3. q + r \in 1..(2 * WordMod - 2)
    BY <1>0
  <1>4. 2 * WordMod - 2 <= WordMod * WordMod - 1
    BY <1>0
  <1>5. q + r \in 0..(WordMod * WordMod - 1)
    BY <1>0, <1>3, <1>4
  <1>6. q * WordMod = q + q * (WordMod - 1)
    BY <1>0
  <1>7. q * WordMod \in Nat /\ q * (WordMod - 1) \in Nat
    BY <1>0
  <1>8. s = (q + r) + q * (WordMod - 1)
    BY <1>0, <1>1, <1>6, <1>7
  <1>9. ASSUME s <= 2 * WordMod - 2 PROVE q + r < WordMod
    <2>1. q < 2
      <3>1. ASSUME q >= 2 PROVE q * WordMod >= 2 * WordMod
        BY <1>0, <3>1
      <3> QED  BY <1>0, <1>1, <1>7, <1>9, <3>1
    <2>2. q = 1
      BY <2>1
    <2>3. s = WordMod + r
      BY <1>0, <1>1, <2>2
    <2> QED  BY <1>0, <1>9, <2>2, <2>3
  <1>10. q \in Nat
    OBVIOUS
  <1> QED  BY <1>2, <1>3, <1>5, <1>8, <1>9, <1>10

\* The loop ends, with a word that is congruent to the sum and zero only if the
\* sum is.
LEMMA FoldedIs ==
  ASSUME NEW s \in 0..(WordMod * WordMod - 1)
  PROVE  /\ Folded[s] \in 0..(WordMod - 1)
         /\ \E m \in Nat : s = Folded[s] + m * (WordMod - 1)
         /\ Folded[s] = 0 => s = 0
  <1> DEFINE D == 0..(WordMod * WordMod - 1)
             Loop(f) == [x \in D |-> IF x < WordMod THEN x ELSE f[Fold(x)]]
             h == [x \in D |-> IF x < WordMod THEN x
                               ELSE IF Fold(x) < WordMod THEN Fold(x) ELSE Fold(Fold(x))]
  <1>0. WordMod \in Nat /\ WordMod >= 4
    BY WordFacts
  <1>1. \A x \in D : x >= WordMod =>
          /\ Fold(x) \in 1..(2 * WordMod - 2) /\ Fold(x) \in D
          /\ \E q \in Nat : x = Fold(x) + q * (WordMod - 1)
          /\ x <= 2 * WordMod - 2 => Fold(x) < WordMod
    BY FoldFacts
  <1>2. \A x \in D : x \in Nat
    BY <1>0
  <1>3. \A x \in D : x >= WordMod /\ ~(Fold(x) < WordMod) =>
          Fold(x) >= WordMod /\ Fold(Fold(x)) < WordMod /\ Fold(Fold(x)) \in D
    <2> SUFFICES ASSUME NEW x \in D, x >= WordMod, ~(Fold(x) < WordMod)
                 PROVE  Fold(x) >= WordMod /\ Fold(Fold(x)) < WordMod /\ Fold(Fold(x)) \in D
      OBVIOUS
    <2>1. PICK y \in D : y = Fold(x) /\ y \in 1..(2 * WordMod - 2)
      BY <1>1
    <2>2. y >= WordMod /\ y <= 2 * WordMod - 2
      BY <1>0, <2>1
    <2>3. Fold(y) < WordMod /\ Fold(y) \in D
      BY <1>1, <2>2
    <2> QED  BY <2>1, <2>2, <2>3
  <1>4. h = Loop(h)
    <2>1. ASSUME NEW x \in D
          PROVE  h[x] = IF x < WordMod THEN x ELSE h[Fold(x)]
      <3>1. CASE x < WordMod
        BY <3>1
      <3>2. CASE ~(x < WordMod)
        <4>1. x >= WordMod
          BY <1>0, <1>2, <3>2
        <4>2. PICK y \in D : y = Fold(x)
          BY <1>1, <4>1
        <4>3. CASE y < WordMod
          BY <3>2, <4>2, <4>3
        <4>4. CASE ~(y < WordMod)
          <5>1. Fold(y) < WordMod /\ Fold(y) \in D
            BY <1>3, <4>1, <4>2, <4>4
          <5>2. h[x] = Fold(y) /\ h[y] = Fold(y)
            BY <3>2, <4>2, <4>4, <5>1
          <5> QED  BY <3>2, <4>2, <5>2
        <4> QED  BY <4>3, <4>4
      <3> QED  BY <3>1, <3>2
    <2> HIDE DEF D
    <2> QED  BY <2>1
  <1>5. Folded = Loop(Folded)
    <2> HIDE DEF h
    <2> QED  BY <1>4, Zenon DEF Folded, Fold
  <1> HIDE DEF h
  <1>6. \A x \in D : Folded[x] = IF x < WordMod THEN x ELSE Folded[Fold(x)]
    <2> HIDE DEF D
    <2> QED  BY <1>5
  <1>7. CASE s < WordMod
    <2>1. Folded[s] = s /\ s \in 0..(WordMod - 1)
      BY <1>0, <1>6, <1>7
    <2>2. s = s + 0 * (WordMod - 1)
      BY <1>0
    <2> QED  BY <2>1, <2>2
  <1>8. CASE s >= WordMod
    <2>1. PICK y \in D : y = Fold(s) /\ y \in 1..(2 * WordMod - 2)
      BY <1>1, <1>8
    <2>2. Folded[s] = Folded[y]
      BY <1>0, <1>2, <1>6, <1>8, <2>1
    <2>3. PICK q \in Nat : s = y + q * (WordMod - 1)
      BY <1>1, <1>8, <2>1
    <2>4. CASE y < WordMod
      <3>1. Folded[y] = y
        BY <1>6, <2>4
      <3>2. y \in 0..(WordMod - 1) /\ y # 0
        BY <1>0, <2>1, <2>4
      <3> QED  BY <2>2, <2>3, <3>1, <3>2
    <2>5. CASE ~(y < WordMod)
      <3>1. y >= WordMod
        BY <1>0, <2>1, <2>5
      <3>2. PICK z \in D : z = Fold(y) /\ z < WordMod /\ z \in 1..(2 * WordMod - 2)
        BY <1>1, <1>3, <1>8, <2>1, <2>5, <3>1
      <3>3. Folded[y] = z
        BY <1>6, <2>5, <3>2
      <3>4. PICK p \in Nat : y = z + p * (WordMod - 1)
        BY <1>1, <3>1, <3>2
      <3>5. (q + p) * (WordMod - 1) = q * (WordMod - 1) + p * (WordMod - 1)
        BY <1>0
      <3>6. q * (WordMod - 1) \in Nat /\ p * (WordMod - 1) \in Nat
        BY <1>0
      <3>7. s = z + (q + p) * (WordMod - 1)
        BY <1>0, <2>3, <3>2, <3>4, <3>5, <3>6
      <3>8. q + p \in Nat /\ z \in 0..(WordMod - 1) /\ z # 0
        BY <1>0, <3>2
      <3> QED  BY <2>2, <3>3, <3>7, <3>8
    <2> QED  BY <2>4, <2>5
  <1> QED  BY <1>0, <1>2, <1>7, <1>8

-----------------------------------------------------------------------------
(* The field. *)

\* Setting the field changes its two octets, and a field that was set is read
\* back.
LEMMA FieldFacts ==
  ASSUME NEW d \in Seq(Octets), Len(d) >= 4, NEW w \in 0..(WordMod - 1)
  PROVE  /\ WithField(d, w) \in Seq(Octets) /\ Len(WithField(d, w)) = Len(d)
         /\ \A i \in 1..Len(d) :
              WithField(d, w)[i] = IF i = 3 THEN w \div Byte
                                   ELSE IF i = 4 THEN w % Byte ELSE d[i]
         /\ Field(WithField(d, w)) = w
         /\ Field(d) = d[3] * Byte + d[4] /\ Field(d) \in 0..(WordMod - 1)
  <1>1. PICK a \in Octets, b \in Octets : a = w \div Byte /\ b = w % Byte /\ a * Byte + b = w
    BY WordFacts
  <1>2. PICK e : e = [d EXCEPT ![3] = a, ![4] = b]
    OBVIOUS
  <1>3. WithField(d, w) = e
    BY <1>1, <1>2 DEF WithField
  <1>4. 3 \in 1..Len(d) /\ 4 \in 1..Len(d) /\ Len(d) \in Nat /\ 3 # Len(d)
    OBVIOUS
  <1>5. /\ e \in Seq(Octets) /\ Len(e) = Len(d)
        /\ \A i \in 1..Len(d) : e[i] = IF i = 3 THEN a ELSE IF i = 4 THEN b ELSE d[i]
    BY <1>2, <1>4
  <1>6. Field(e) = w
    BY <1>1, <1>4, <1>5 DEF Field, WordAt
  <1>7. Field(d) = d[3] * Byte + d[4] /\ d[3] \in Octets /\ d[4] \in Octets
    BY <1>4 DEF Field, WordAt
  <1>8. Field(d) \in 0..(WordMod - 1)
    BY <1>7, WordFacts
  <1> QED  BY <1>1, <1>3, <1>5, <1>6, <1>7, <1>8

\* Zero is a word, and its octets are zero.
LEMMA ZeroField ==
  0 \in 0..(WordMod - 1) /\ 0 \div Byte = 0 /\ 0 % Byte = 0
  BY WordFacts

\* The octets of data whose field is zeroed.
LEMMA ClearedOctets ==
  ASSUME NEW d \in Seq(Octets), Len(d) >= 4
  PROVE  \A i \in 1..Len(d) :
           WithField(d, 0)[i] = IF i = 3 THEN 0 ELSE IF i = 4 THEN 0 ELSE d[i]
  <1>1. PICK z \in 0..(WordMod - 1) : z = 0
    BY ZeroField
  <1>2. \A i \in 1..Len(d) :
          WithField(d, z)[i] = IF i = 3 THEN z \div Byte
                               ELSE IF i = 4 THEN z % Byte ELSE d[i]
    BY FieldFacts
  <1>3. z \div Byte = 0 /\ z % Byte = 0
    BY <1>1, ZeroField
  <1>4. \A i \in 1..Len(d) :
          WithField(d, z)[i] = IF i = 3 THEN 0 ELSE IF i = 4 THEN 0 ELSE d[i]
    BY <1>2, <1>3
  <1> QED  BY <1>1, <1>4

\* What the field held before does not matter to one who zeroes it.
LEMMA FieldCleared ==
  ASSUME NEW d \in Seq(Octets), Len(d) >= 4, NEW w \in 0..(WordMod - 1)
  PROVE  WithField(WithField(d, w), 0) = WithField(d, 0)
  <1>1. PICK e : e = WithField(d, w) /\ e \in Seq(Octets) /\ Len(e) = Len(d)
    BY FieldFacts
  <1>2. \A i \in 1..Len(d) : i # 3 /\ i # 4 => e[i] = d[i]
    BY <1>1, FieldFacts
  <1>3. PICK x : x = WithField(e, 0) /\ x \in Seq(Octets) /\ Len(x) = Len(d)
    BY <1>1, ZeroField, FieldFacts
  <1>4. PICK y : y = WithField(d, 0) /\ y \in Seq(Octets) /\ Len(y) = Len(d)
    BY ZeroField, FieldFacts
  <1>5. \A i \in 1..Len(d) : x[i] = IF i = 3 THEN 0 ELSE IF i = 4 THEN 0 ELSE e[i]
    BY <1>1, <1>3, ClearedOctets
  <1>6. \A i \in 1..Len(d) : y[i] = IF i = 3 THEN 0 ELSE IF i = 4 THEN 0 ELSE d[i]
    BY <1>4, ClearedOctets
  <1>7. \A i \in 1..Len(d) : x[i] = y[i]
    BY <1>2, <1>5, <1>6
  <1>8. x = y
    BY <1>3, <1>4, <1>7
  <1> QED  BY <1>1, <1>3, <1>4, <1>8

\* The field adds itself to the sum of the rest.
LEMMA FieldAdds ==
  ASSUME NEW d \in Seq(Octets), Len(d) >= 4
  PROVE  Total(d) = Total(WithField(d, 0)) + Field(d)
  <1>0. PICK L \in Nat : L = Len(d) /\ L >= 4
    OBVIOUS
  <1>1. PICK e : e = WithField(d, 0) /\ e \in Seq(Octets) /\ Len(e) = L
    BY <1>0, ZeroField, FieldFacts
  <1>2. \A i \in 1..L : e[i] = IF i = 3 THEN 0 ELSE IF i = 4 THEN 0 ELSE d[i]
    BY <1>0, <1>1, ClearedOctets
  <1>3. PICK t : Partial(t, Values(d), L) /\ Total(d) = t[L]
    BY <1>0, TotalIs
  <1>4. PICK u : Partial(u, Values(e), L) /\ Total(e) = u[L]
    BY <1>1, TotalIs
  <1>5. /\ t \in [0..L -> Nat] /\ t[0] = 0
        /\ \A n \in 1..L : t[n] = t[n - 1] + OctetValue(d, n)
    BY <1>0, <1>3, ValueFacts DEF Partial
  <1>6. /\ u \in [0..L -> Nat] /\ u[0] = 0
        /\ \A n \in 1..L : u[n] = u[n - 1] + OctetValue(e, n)
    BY <1>1, <1>4, ValueFacts DEF Partial
  <1>7. PICK a \in Nat, b \in Nat : a = d[3] * Byte /\ b = d[4] /\ Field(d) = a + b
    <2>1. d[3] \in Octets /\ d[4] \in Octets
      BY <1>0
    <2>2. d[3] * Byte \in 0..(WordMod - 1) /\ d[4] \in Nat /\ WordMod \in Nat
      BY <2>1, WordFacts
    <2>3. Field(d) = d[3] * Byte + d[4]
      BY ZeroField, FieldFacts
    <2> QED  BY <2>2, <2>3
  <1>8. /\ OctetValue(d, 3) = a /\ OctetValue(e, 3) = 0
        /\ OctetValue(d, 4) = b /\ OctetValue(e, 4) = 0
        /\ \A n \in 1..L : n # 3 /\ n # 4 => OctetValue(d, n) = OctetValue(e, n)
    <2>1. 3 \in 1..L /\ 4 \in 1..L /\ 3 % 2 = 1 /\ 4 % 2 = 0 /\ 0 * Byte = 0
      BY <1>0, WordFacts
    <2> QED  BY <1>2, <1>7, <2>1 DEF OctetValue
  <1> DEFINE Off(n) == IF n < 3 THEN 0 ELSE IF n = 3 THEN a ELSE a + b
             S == {n \in 0..L : t[n] = u[n] + Off(n)}
  <1>9. 0 \in S
    BY <1>0, <1>5, <1>6
  <1>10. ASSUME NEW n \in 1..L, n - 1 \in S
         PROVE  n \in S
    <2>1. n - 1 \in 0..L /\ n \in 0..L /\ t[n - 1] = u[n - 1] + Off(n - 1)
      BY <1>10
    <2>2. PICK x \in Nat, y \in Nat : x = t[n - 1] /\ y = u[n - 1]
      BY <1>5, <1>6, <2>1
    <2>3. PICK v \in Nat, z \in Nat : v = OctetValue(d, n) /\ z = OctetValue(e, n)
      <3>1. OctetValue(d, n) \in 0..(WordMod - 1)
        BY <1>0, ValueFacts
      <3>2. OctetValue(e, n) \in 0..(WordMod - 1)
        BY <1>1, ValueFacts
      <3> QED  BY <3>1, <3>2
    <2>4. t[n] = x + v /\ u[n] = y + z
      BY <1>5, <1>6, <2>2, <2>3
    <2>5. v + Off(n - 1) = z + Off(n)
      <3>1. CASE n = 3
        BY <1>8, <2>3, <3>1
      <3>2. CASE n = 4
        BY <1>8, <2>3, <3>2
      <3>3. CASE n # 3 /\ n # 4
        <4>1. v = z
          BY <1>8, <2>3, <3>3
        <4>2. Off(n) = Off(n - 1)
          BY <3>3
        <4> QED  BY <4>1, <4>2
      <3> QED  BY <3>1, <3>2, <3>3
    <2>6. Off(n) \in Nat /\ Off(n - 1) \in Nat
      OBVIOUS
    <2>7. t[n] = u[n] + Off(n)
      <3> HIDE DEF Off
      <3>1. PICK o \in Nat, p \in Nat : o = Off(n - 1) /\ p = Off(n)
        BY <2>6
      <3>2. x = y + o /\ v + o = z + p
        BY <2>1, <2>2, <2>5, <3>1
      <3>3. x + v = y + z + p
        BY <3>2
      <3> QED  BY <2>4, <3>1, <3>3
    <2> QED  BY <2>1, <2>7
  <1>11. \A n \in 0..L : n \in S
    <2> HIDE DEF S
    <2>1. \A n \in 1..L : n - 1 \in S => n \in S
      BY <1>10
    <2> QED  BY <1>9, <2>1, UpTo
  <1>12. t[L] = u[L] + Off(L) /\ Off(L) = a + b
    BY <1>0, <1>11
  <1> QED  BY <1>1, <1>3, <1>4, <1>7, <1>12

-----------------------------------------------------------------------------
(* The checksum. *)

\* c is the one word but 0 that makes of x a multiple of W - 1.
Completes(c, x, W) ==
  /\ c \in 1..(W - 1)
  /\ \E n \in Nat : n > 0 /\ x + c = n * (W - 1)
  /\ \A f \in 1..(W - 1), n \in Nat : x + f = n * (W - 1) => f = c

\* What cksum returns for a sum that folds to F.
LEMMA Complement ==
  ASSUME NEW W \in Nat, W >= 4, NEW F \in 0..(W - 1), NEW m \in Nat,
         NEW c, c = IF W - 1 - F = 0 THEN W - 1 ELSE W - 1 - F
  PROVE  Completes(c, F + m * (W - 1), W)
  <1>1. PICK V \in Nat : V = W - 1 /\ V >= 3
    OBVIOUS
  <1>2. c \in 1..V /\ c \in Nat
    BY <1>1
  <1>3. F \in 0..V /\ m * V \in Nat
    BY <1>1
  <1>4. F + c = V \/ F + c = 2 * V
    BY <1>1
  <1>5. \E n \in Nat : n > 0 /\ (F + m * V) + c = n * V
    <2>1. CASE F + c = V
      <3>1. (m + 1) * V = m * V + V /\ m + 1 \in Nat /\ m + 1 > 0
        OBVIOUS
      <3>2. (F + m * V) + c = (m + 1) * V
        BY <1>2, <1>3, <2>1, <3>1
      <3> QED  BY <3>1, <3>2
    <2>2. CASE F + c = 2 * V
      <3>1. (m + 2) * V = m * V + 2 * V /\ m + 2 \in Nat /\ m + 2 > 0
        OBVIOUS
      <3>2. (F + m * V) + c = (m + 2) * V
        BY <1>2, <1>3, <2>2, <3>1
      <3> QED  BY <3>1, <3>2
    <2> QED  BY <1>4, <2>1, <2>2
  <1>6. ASSUME NEW f \in 1..V, NEW n \in Nat, (F + m * V) + f = n * V
        PROVE  f = c
    <2>1. PICK k \in Int : k = n - m
      OBVIOUS
    <2>2. k * V = n * V - m * V /\ k * V \in Int /\ n * V \in Int
      BY <2>1
    <2>3. F + f = k * V
      BY <1>3, <1>6, <2>2
    <2>4. k * V >= 1 /\ k * V <= 2 * V
      BY <1>3, <2>3
    <2>5. k >= 1
      <3>1. ASSUME k <= 0 PROVE k * V <= 0
        BY <1>1, <3>1
      <3> QED  BY <2>2, <2>4, <3>1
    <2>6. k <= 2
      <3>1. ASSUME k >= 3 PROVE k * V >= 3 * V
        BY <1>1, <3>1
      <3> QED  BY <1>1, <2>2, <2>4, <3>1
    <2>7. F + f = V \/ F + f = 2 * V
      BY <2>3, <2>5, <2>6
    <2> QED  BY <1>1, <1>3, <2>7
  <1> QED  BY <1>1, <1>2, <1>5, <1>6 DEF Completes

\* A number is a multiple if it leaves no remainder.
LEMMA Remainder ==
  ASSUME NEW V \in Nat, V > 0, NEW x \in Nat
  PROVE  x % V = 0 <=> \E n \in Nat : x = n * V
  <1>1. ASSUME x % V = 0 PROVE \E n \in Nat : x = n * V
    BY <1>1, Multiple
  <1>2. ASSUME NEW n \in Nat, x = n * V PROVE x % V = 0
    BY <1>2, SMTT(30)
  <1> QED  BY <1>1, <1>2

\* Data the router looks at.
Short(d) == d \in Seq(Octets) /\ Len(d) >= 4 /\ Len(d) < WordMod

\* The checksum of data whose field is zeroed: with it in the field the data is
\* valid, and with no other word, save perhaps 0.
LEMMA CksumExact ==
  ASSUME NEW d, Short(d), NEW c, c = cksum(WithField(d, 0))
  PROVE  /\ c \in 1..(WordMod - 1)
         /\ Field(d) = c => Valid(d)
         /\ Field(d) # c /\ Valid(d) => Field(d) = 0
  <1>0. WordMod \in Nat /\ WordMod >= 4 /\ d \in Seq(Octets) /\ Len(d) >= 4
    BY WordFacts DEF Short
  <1>1. PICK e \in Seq(Octets) : e = WithField(d, 0) /\ Len(e) < WordMod
    BY ZeroField, FieldFacts DEF Short
  <1>2. PICK T \in 0..(WordMod * WordMod - 1) : T = Total(e) /\ T = Added(e)
    BY <1>1, AddedIsTotal
  <1>3. PICK F \in 0..(WordMod - 1), m \in Nat : F = Folded[T] /\ T = F + m * (WordMod - 1)
    BY FoldedIs
  <1>4. c = IF WordMod - 1 - F = 0 THEN WordMod - 1 ELSE WordMod - 1 - F
    BY <1>1, <1>2, <1>3 DEF cksum
  <1>5. Completes(c, T, WordMod)
    <2>1. PICK W \in Nat : W = WordMod /\ W >= 4
      BY <1>0
    <2>2. F \in 0..(W - 1) /\ c = IF W - 1 - F = 0 THEN W - 1 ELSE W - 1 - F
      BY <1>4, <2>1
    <2>3. Completes(c, F + m * (W - 1), W)
      BY <2>1, <2>2, Complement
    <2> QED  BY <1>3, <2>1, <2>3
  <1>6. PICK f \in 0..(WordMod - 1) : f = Field(d)
    BY <1>0, ZeroField, FieldFacts
  <1>7. PICK x \in Nat : x = Total(d) /\ x = T + f
    <2>1. T \in Nat /\ T + f \in Nat
      BY <1>0
    <2>2. Total(d) = T + f
      BY <1>0, <1>1, <1>2, <1>6, FieldAdds
    <2> QED  BY <2>1, <2>2
  <1>8. PICK V \in Nat : V = WordMod - 1 /\ V > 0
    BY <1>0
  <1>9. x % V = 0 <=> \E n \in Nat : x = n * V
    BY <1>8, Remainder
  <1>10. Valid(d) <=> x > 0 /\ x % V = 0
    BY <1>7, <1>8 DEF Valid
  <1>11. ASSUME Field(d) = c PROVE Valid(d)
    <2>1. f = c /\ x > 0
      <3>1. T \in Nat
        BY <1>0
      <3> QED  BY <1>0, <1>5, <1>6, <1>7, <1>11, <3>1 DEF Completes
    <2>2. \E n \in Nat : x = n * V
      BY <1>5, <1>7, <1>8, <2>1 DEF Completes
    <2> QED  BY <1>9, <1>10, <2>1, <2>2
  <1>12. ASSUME Field(d) # c, Valid(d), Field(d) # 0 PROVE FALSE
    <2>1. f \in 1..(WordMod - 1)
      BY <1>0, <1>6, <1>12
    <2>2. PICK n \in Nat : x = n * V
      BY <1>9, <1>10, <1>12
    <2>3. f = c
      BY <1>5, <1>7, <1>8, <2>1, <2>2 DEF Completes
    <2> QED  BY <1>6, <1>12, <2>3
  <1> QED  BY <1>5, <1>11, <1>12 DEF Completes

\* What the router fills in is valid, and passes the router's own check.
LEMMA FillExact ==
  ASSUME NEW d, Short(d), NEW e, e = Fill(d)
  PROVE  Short(e) /\ Len(e) = Len(d) /\ Field(e) = cksum(WithField(e, 0)) /\ Valid(e)
         /\ \A i \in 1..Len(d) : i # 3 /\ i # 4 => e[i] = d[i]
  <1>1. PICK c : c = cksum(WithField(d, 0))
    OBVIOUS
  <1>2. c \in 0..(WordMod - 1)
    <2>1. c \in 1..(WordMod - 1) /\ WordMod \in Nat
      BY <1>1, CksumExact, WordFacts
    <2> QED  BY <2>1
  <1>3. e = WithField(d, c)
    BY <1>1 DEF Fill
  <1>4. d \in Seq(Octets) /\ Len(d) >= 4
    BY DEF Short
  <1>5. e \in Seq(Octets) /\ Len(e) = Len(d) /\ Field(e) = c
    BY <1>2, <1>3, <1>4, FieldFacts
  <1>6. \A i \in 1..Len(d) : i # 3 /\ i # 4 => e[i] = d[i]
    BY <1>2, <1>3, <1>4, FieldFacts
  <1>7. WithField(e, 0) = WithField(d, 0)
    BY <1>2, <1>3, <1>4, FieldCleared
  <1>8. Short(e)
    BY <1>5 DEF Short
  <1>9. Field(e) = cksum(WithField(e, 0))
    BY <1>1, <1>5, <1>7
  <1>10. Valid(e)
    BY <1>8, <1>9, CksumExact
  <1> QED  BY <1>5, <1>6, <1>8, <1>9, <1>10

-----------------------------------------------------------------------------
(* The invariant. *)

\* Lengths, what the check left of the data, and what it decided.  What was sent
\* keeps passing the check until it is looked at.
CksumInv ==
  /\ at \in {"in", "accepted", "dropped", "out"} /\ kind \in {"ip", "icmp"}
  /\ relayed \in BOOLEAN
  /\ Short(data) /\ Len(data) \in Lens \cup {IpLen} /\ (kind = "ip" => Len(data) = IpLen)
  /\ Short(received) /\ Len(received) = Len(data)
  /\ at \in {"in", "accepted"} => data = received
  /\ at = "accepted" => Valid(received)
  /\ at = "dropped" => ~Valid(received) \/ Field(received) = 0
  /\ at = "out" => Valid(data)
  /\ at = "out" \/ (relayed /\ at = "in") => Field(data) = cksum(WithField(data, 0))
  /\ relayed => at # "dropped"

\* What arrives first has one of the lengths.
LEMMA CksumInitInv ==
  CksumInit => CksumInv
  <1> SUFFICES ASSUME CksumInit PROVE CksumInv
    OBVIOUS
  <1>1. PICK n \in Lens \cup {IpLen} :
          data \in [1..n -> Octets] /\ (kind = "ip" => n = IpLen)
    BY DEF CksumInit
  <1>2. n \in 4..(WordMod - 1) /\ n \in Nat /\ n >= 4 /\ n < WordMod
    <2>1. n \in 4..(WordMod - 1)
      BY LengthsAssumption
    <2>2. WordMod \in Nat
      BY WordFacts
    <2> QED  BY <2>1, <2>2
  <1>3. data \in Seq(Octets) /\ Len(data) = n
    BY <1>1, <1>2
  <1>4. Short(data)
    BY <1>2, <1>3 DEF Short
  <1>5. kind \in {"ip", "icmp"} /\ at = "in" /\ relayed = FALSE /\ received = data
    BY DEF CksumInit
  <1>6. /\ Short(received) /\ Len(data) \in Lens \cup {IpLen}
        /\ (kind = "ip" => Len(data) = IpLen) /\ Len(received) = Len(data)
    BY <1>1, <1>3, <1>4, <1>5
  <1>7. relayed \in BOOLEAN /\ ~relayed
    BY <1>5
  <1> QED  BY <1>4, <1>5, <1>6, <1>7 DEF CksumInv

\* The check decides as the standard asks, and drops nothing that was sent.
LEMMA CheckInv ==
  ASSUME CksumInv, Check
  PROVE  CksumInv'
  <1>1. PICK c : c = cksum(WithField(data, 0))
    OBVIOUS
  <1>2. /\ Short(data) /\ at = "in" /\ data = received /\ Len(received) = Len(data)
        /\ kind' = kind /\ received' = received /\ relayed' = relayed
        /\ kind \in {"ip", "icmp"} /\ relayed \in BOOLEAN
        /\ Len(data) \in Lens \cup {IpLen} /\ (kind = "ip" => Len(data) = IpLen)
        /\ relayed => Field(data) = c
    BY <1>1, Zenon DEF CksumInv, Check
  <1>3. /\ Field(data) = c => Valid(data)
        /\ Field(data) # c /\ Valid(data) => Field(data) = 0
    BY <1>1, <1>2, CksumExact
  <1>4. CASE Field(data) = c
    <2>1. at' = "accepted" /\ data' = data
      BY <1>1, <1>4 DEF Check
    <2> QED  BY <1>2, <1>3, <1>4, <2>1 DEF CksumInv, Short, Valid, Field
  <1>5. CASE Field(data) # c
    <2>1. at' = "dropped" /\ data' = WithField(data, 0)
      BY <1>1, <1>5 DEF Check
    <2>2. data' \in Seq(Octets) /\ Len(data') = Len(data)
      BY <1>2, <2>1, ZeroField, FieldFacts DEF Short
    <2>3. Short(data)'
      BY <1>2, <2>2 DEF Short
    <2>4. relayed' = FALSE
      BY <1>2, <1>5
    <2> QED  BY <1>2, <1>3, <1>5, <2>1, <2>2, <2>3, <2>4 DEF CksumInv, Short, Valid, Field
  <1> QED  BY <1>4, <1>5

\* A header or message the router has changed outside of the field keeps its
\* length.
LEMMA ChangedShort ==
  ASSUME CksumInv, NEW e \in Changed(data)
  PROVE  Short(e) /\ Len(e) = Len(data)
  <1>1. /\ data \in Seq(Octets) /\ Len(data) >= 4 /\ Len(data) < WordMod
        /\ kind \in {"ip", "icmp"} /\ (kind = "ip" => Len(data) = IpLen)
    BY DEF CksumInv, Short
  <1>2. ASSUME NEW i \in 1..Len(data), NEW o \in Octets, e = [data EXCEPT ![i] = o]
        PROVE  e \in Seq(Octets) /\ Len(e) = Len(data)
    BY <1>1, <1>2
  <1>3. CASE kind = "ip"
    <2>1. TtlAt \in 1..Len(data) /\ InitTtl \in Octets
      BY <1>1, <1>3, LengthsAssumption
    <2>2. CASE e = Forwarded(data)
      <3>1. Byte \in Nat /\ Byte >= 2 /\ data[TtlAt] \in Nat
        <4>1. data[TtlAt] \in Octets
          BY <1>1, <2>1
        <4> QED  BY <4>1, WordFacts
      <3>2. (data[TtlAt] + Byte - 1) % Byte \in Octets
        BY <3>1 DEF Octets
      <3>3. e = [data EXCEPT ![TtlAt] = (data[TtlAt] + Byte - 1) % Byte]
        BY <2>2 DEF Forwarded
      <3> QED  BY <1>1, <1>2, <2>1, <3>2, <3>3 DEF Short
    <2>3. CASE e = Answered(data)
      <3>1. \A i \in 1..Len(data) : data[i] \in Octets
        BY <1>1
      <3>2. DOMAIN data = 1..Len(data) /\ Len(data) \in Nat
        BY <1>1
      <3>3. /\ \A i \in Address(SrcAt) : DstAt + (i - SrcAt) \in 1..Len(data)
            /\ \A i \in Address(DstAt) : SrcAt + (i - DstAt) \in 1..Len(data)
        <4>1. /\ Address(SrcAt) \subseteq 1..Len(data)
              /\ Address(DstAt) \subseteq 1..Len(data)
              /\ SrcAt \in Nat /\ DstAt \in Nat /\ AddrLen \in Nat
          BY <1>1, <1>3, LengthsAssumption
        <4>2. /\ \A i \in Address(SrcAt) : DstAt + (i - SrcAt) \in Address(DstAt)
              /\ \A i \in Address(DstAt) : SrcAt + (i - DstAt) \in Address(SrcAt)
          BY <4>1 DEF Address
        <4> QED  BY <4>1, <4>2
      <3>4. e \in [1..Len(data) -> Octets]
        BY <2>1, <2>3, <3>1, <3>2, <3>3 DEF Answered
      <3>5. e \in Seq(Octets) /\ Len(e) = Len(data)
        BY <3>2, <3>4
      <3> QED  BY <1>1, <3>5 DEF Short
    <2> QED  BY <1>3, <2>2, <2>3 DEF Changed
  <1>4. CASE kind = "icmp"
    <2>1. 1 \in 1..Len(data) /\ 0 \in Octets
      BY <1>1, WordFacts DEF Octets
    <2>2. e = [data EXCEPT ![1] = 0]
      BY <1>4 DEF Changed
    <2> QED  BY <1>1, <1>2, <2>1, <2>2 DEF Short
  <1> QED  BY <1>1, <1>3, <1>4

\* What is sent is valid.
LEMMA RewriteInv ==
  ASSUME CksumInv, Rewrite
  PROVE  CksumInv'
  <1>1. PICK e \in Changed(data) : data' = Fill(e)
    BY DEF Rewrite
  <1>2. Short(e) /\ Len(e) = Len(data)
    BY ChangedShort
  <1>3. PICK x : x = Fill(e)
    OBVIOUS
  <1>4. Short(x) /\ Len(x) = Len(e) /\ Field(x) = cksum(WithField(x, 0)) /\ Valid(x)
    BY <1>2, <1>3, FillExact
  <1>5. /\ data' = x /\ at' = "out" /\ kind' = kind /\ received' = received
        /\ relayed' = relayed
    BY <1>1, <1>3 DEF Rewrite
  <1>6. /\ Short(data') /\ Len(data') = Len(data) /\ Valid(data')
        /\ Field(data') = cksum(WithField(data', 0)) /\ Short(received')
    <2>1. Short(received)
      BY DEF CksumInv
    <2> QED  BY <1>2, <1>4, <1>5, <2>1
  <1>7. /\ kind \in {"ip", "icmp"} /\ relayed \in BOOLEAN
        /\ Len(data) \in Lens \cup {IpLen} /\ (kind = "ip" => Len(data) = IpLen)
        /\ Len(received) = Len(data)
    BY DEF CksumInv
  <1> QED  BY <1>5, <1>6, <1>7, Zenon DEF CksumInv

\* It arrives as it was sent.
LEMMA ArrivesInv ==
  ASSUME CksumInv, Arrives
  PROVE  CksumInv'
  <1>1. /\ at' = "in" /\ received' = data /\ relayed' = TRUE /\ data' = data
        /\ kind' = kind /\ at = "out"
    BY DEF Arrives
  <1>2. /\ Short(data) /\ Field(data) = cksum(WithField(data, 0))
        /\ kind \in {"ip", "icmp"}
        /\ Len(data) \in Lens \cup {IpLen} /\ (kind = "ip" => Len(data) = IpLen)
    BY <1>1, Zenon DEF CksumInv
  <1>3. Short(data') /\ Short(received') /\ Field(data') = cksum(WithField(data', 0))
    BY <1>1, <1>2
  <1> QED  BY <1>1, <1>2, <1>3, Zenon DEF CksumInv

\* In every state of the checks and fills of headers the invariant holds, for
\* octets and lengths of any size that keep a length within a word.
THEOREM CksumInvHolds == CksumSpec => []CksumInv
  <1>1. CksumInit => CksumInv
    BY CksumInitInv
  <1>2. CksumInv /\ [CksumNext]_cksumVars => CksumInv'
    <2> SUFFICES ASSUME CksumInv, [CksumNext]_cksumVars PROVE CksumInv'
      OBVIOUS
    <2>1. CASE Check
      BY <2>1, CheckInv
    <2>2. CASE Rewrite
      BY <2>2, RewriteInv
    <2>3. CASE Arrives
      BY <2>3, ArrivesInv
    <2>4. CASE UNCHANGED cksumVars
      BY <2>4 DEF cksumVars, CksumInv, Short, Valid, Field
    <2> QED  BY <2>1, <2>2, <2>3, <2>4 DEF CksumNext
  <1> QED  BY <1>1, <1>2, PTL DEF CksumSpec

\* Every variable holds a value of its kind: the octets of a checksum are octets,
\* since all the carries were folded into the word.
THEOREM CksumTypeCorrect == CksumSpec => []CksumTypeOK
  <1>1. CksumInv => CksumTypeOK
    <2> SUFFICES ASSUME CksumInv PROVE CksumTypeOK
      OBVIOUS
    <2>1. /\ data \in Seq(Octets) /\ received \in Seq(Octets)
          /\ Len(received) = Len(data)
      BY DEF CksumInv, Short
    <2>2. DOMAIN received = DOMAIN data
      BY <2>1
    <2>3. \A i \in DOMAIN data : data[i] \in Octets /\ received[i] \in Octets
      BY <2>1, <2>2
    <2>4. /\ at \in {"in", "accepted", "dropped", "out"} /\ kind \in {"ip", "icmp"}
          /\ Len(data) \in Lens \cup {IpLen} /\ relayed \in BOOLEAN
      BY DEF CksumInv
    <2> QED  BY <2>2, <2>3, <2>4 DEF CksumTypeOK
  <1> QED  BY <1>1, CksumInvHolds, PTL

\* cksum's check accepts what is valid by the standard and nothing else, save that
\* it refuses every field of 0.
THEOREM CheckIsExact == CksumSpec => []CheckExact
  <1>1. CksumInv => CheckExact
    BY DEF CksumInv, CheckExact
  <1> QED  BY <1>1, CksumInvHolds, PTL

\* What the router sent is valid and is accepted by the next router.
THEOREM SentIsAccepted == CksumSpec => []SentAccepted
  <1>1. CksumInv => SentAccepted
    BY Zenon DEF CksumInv, SentAccepted
  <1> QED  BY <1>1, CksumInvHolds, PTL

=============================================================================
