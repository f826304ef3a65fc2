------------------------------- MODULE SrSha1 -------------------------------
(***************************************************************************)
(* The SHA-1 context of sha1.c, which sr_handle_auth_request uses to     *)
(* answer the server: octets are collected in a block, a full block is     *)
(* processed, and the result is padded and given the length of the message. *)
(*                                                                         *)
(* The k-th octet of the message is the number k.  What a block does to    *)
(* the digest (SHA1ProcessMessageBlock) is kept as the block itself: the   *)
(* digest is the sequence of the blocks it was computed from.  The client  *)
(* may call the three functions of sha1.h in any order.  A step is a call, *)
(* or one turn of the loop of SHA1Input.                                   *)
(***************************************************************************)
EXTENDS Integers, Sequences

CONSTANTS
  BlockLen,   \* octets of Message_Block (64)
  LenLen,     \* octets of the message length at the end of the padding (8)
  Bits,       \* what an octet adds to the length (8)
  LenMod,     \* number of values of Length_Low and of Length_High (2^32)
  Pieces,     \* lengths the client may pass to SHA1Input
  MaxOctets   \* bound on the octets passed after a SHA1Reset

ASSUME SizesAssumption ==
  /\ BlockLen \in Nat /\ LenLen \in Nat /\ BlockLen > LenLen /\ LenLen % 2 = 0
  /\ Bits \in Nat \ {0} /\ LenMod \in Nat \ {0} /\ LenMod % Bits = 0
  /\ Pieces \subseteq Nat /\ MaxOctets \in Nat

VARIABLES
  context,    \* the SHA1Context
  length,     \* what the loop of SHA1Input has left of its argument
  offered,    \* octets passed to SHA1Input since the last SHA1Reset
  result      \* what SHA1Result returned, if nothing was called since

shaVars == <<context, length, offered, result>>

\* An octet of a block: the k-th of the message, one of the padding, or the
\* j-th of a word of the length.
Message(k) == <<"message", k, 0>>
Padding(value) == <<"padding", value, 0>>
High(value, j) == <<"high", value, j>>
Low(value, j) == <<"low", value, j>>

Octet ==
  ({"message"} \X (1..MaxOctets) \X {0}) \cup {Padding(0), Padding(128)}
  \cup ({"high", "low"} \X (0..(LenMod - 1)) \X (1..(LenLen \div 2)))

Index == 0..(BlockLen - 1)

\* SHA1Reset.  The block keeps whatever it held.
Reset(c) ==
  [Length_Low |-> 0, Length_High |-> 0, index |-> 0, block |-> c.block,
   digest |-> <<>>, Computed |-> FALSE, Corrupted |-> FALSE]

\* SHA1ProcessMessageBlock
ProcessMessageBlock(c) ==
  [c EXCEPT !.digest = Append(@, c.block), !.index = 0]

\* Message_Block[Message_Block_Index++] = x
Put(c, x) == [c EXCEPT !.block[c.index] = x, !.index = @ + 1]

\* Mutant of Counted: the message is called too long one word early.
CountedEarly(c) ==
  LET low == (c.Length_Low + Bits) % LenMod
  IN [c EXCEPT !.Length_Low = low,
               !.Length_High = IF low = 0 THEN @ + 1 ELSE @,
               !.Corrupted = @ \/ (low = 0 /\ c.Length_High + 2 = LenMod)]

\* The length in two words of 32 bits; a carry out of the second corrupts.
Counted(c) ==
  LET low  == (c.Length_Low + Bits) % LenMod
      high == IF low = 0 THEN (c.Length_High + 1) % LenMod ELSE c.Length_High
  IN [c EXCEPT !.Length_Low = low, !.Length_High = high,
               !.Corrupted = @ \/ (low = 0 /\ high = 0)]

\* Mutant of InputOctet: a full block is processed one octet late.
InputOctetLate(c, x) ==
  LET d == Counted(Put(c, x))
  IN IF c.index = BlockLen THEN ProcessMessageBlock(d) ELSE d

\* One turn of the loop of SHA1Input.
InputOctet(c, x) ==
  LET d == Counted(Put(c, x))
  IN IF d.index = BlockLen THEN ProcessMessageBlock(d) ELSE d

\* while (Message_Block_Index < limit) Message_Block[Message_Block_Index++] = 0
FillTo(c, limit) ==
  [c EXCEPT !.block = [i \in Index |->
                        IF c.index <= i /\ i < limit THEN Padding(0) ELSE @[i]],
            !.index = IF @ < limit THEN limit ELSE @]

\* The length, most significant octet first, in the last octets of the block.
PutLength(c) ==
  [c EXCEPT !.block = [i \in Index |->
     LET j == i - (BlockLen - LenLen) + 1 IN
     CASE i < BlockLen - LenLen   -> c.block[i]
       [] i >= BlockLen - LenLen /\ j <= LenLen \div 2
                                  -> High(c.Length_High, j)
       [] OTHER                   -> Low(c.Length_Low, j - LenLen \div 2)]]

\* Mutant of PadMessage: the length always goes into the current block.
PadMessageOneBlock(c) ==
  ProcessMessageBlock(PutLength(FillTo(Put(c, Padding(128)), BlockLen - LenLen)))

\* SHA1PadMessage: 0x80, zeros, the length; a second block when the first is
\* too full for the length.
PadMessage(c) ==
  LET started == Put(c, Padding(128))
      room == BlockLen - LenLen
      filled == IF c.index > room - 1
                THEN FillTo(ProcessMessageBlock(FillTo(started, BlockLen)), room)
                ELSE FillTo(started, room)
  IN ProcessMessageBlock(PutLength(filled))

-----------------------------------------------------------------------------
(* The calls. *)

SHA1Reset ==
  /\ length = 0
  /\ context' = Reset(context)
  /\ offered' = 0 /\ result' = "none"
  /\ UNCHANGED length

\* Mutant of SHA1Input: a result that was taken does not close the context.
SHA1InputOpen(n) ==
  /\ length = 0 /\ offered + n <= MaxOctets
  /\ length' = n /\ offered' = offered + n /\ result' = "none"
  /\ UNCHANGED context

\* SHA1Input up to its loop: nothing for no octets, too late after a result.
SHA1Input(n) ==
  /\ length = 0 /\ offered + n <= MaxOctets
  /\ offered' = offered + n /\ result' = "none"
  /\ IF n > 0 /\ (context.Computed \/ context.Corrupted)
     THEN context' = [context EXCEPT !.Corrupted = TRUE] /\ UNCHANGED length
     ELSE length' = n /\ UNCHANGED context

\* while (length-- && !context->Corrupted)
InputLoop ==
  /\ length > 0
  /\ IF context.Corrupted
     THEN length' = 0 /\ UNCHANGED context
     ELSE /\ context' = InputOctet(context, Message(offered - length + 1))
          /\ length' = length - 1
  /\ UNCHANGED <<offered, result>>

\* SHA1Result: 1 ("ok"), after padding once, or 0 ("failed").
SHA1Result ==
  /\ length = 0
  /\ context' = IF context.Corrupted \/ context.Computed THEN context
                ELSE [PadMessage(context) EXCEPT !.Computed = TRUE]
  /\ result' = IF context.Corrupted THEN "failed" ELSE "ok"
  /\ UNCHANGED <<length, offered>>

ShaInit ==
  /\ context = Reset([block |-> [i \in Index |-> Padding(0)]])
  /\ length = 0 /\ offered = 0 /\ result = "none"

ShaNext ==
  SHA1Reset \/ (\E n \in Pieces : SHA1Input(n)) \/ InputLoop \/ SHA1Result

ShaSpec == ShaInit /\ [][ShaNext]_shaVars

-----------------------------------------------------------------------------
(* Properties. *)

\* Every variable holds a value of its kind; in particular every access to
\* Message_Block is inside of it.
ShaTypeOK ==
  /\ context \in [Length_Low : 0..(LenMod - 1), Length_High : 0..(LenMod - 1),
                  index : Index, block : [Index -> Octet],
                  digest : Seq([Index -> Octet]),
                  Computed : BOOLEAN, Corrupted : BOOLEAN]
  /\ length \in Nat /\ offered \in 0..MaxOctets
  /\ result \in {"none", "ok", "failed"}

\* The padded message of the standard: the n octets, 0x80, the fewest zeros
\* that make whole blocks, and n * Bits in two words.
PaddedLen(n) ==
  CHOOSE m \in (n + 1 + LenLen)..(n + LenLen + BlockLen) : m % BlockLen = 0

PaddedOctet(n, k) ==
  LET j == k - (PaddedLen(n) - LenLen) IN
  CASE k <= n                    -> Message(k)
    [] k = n + 1                 -> Padding(128)
    [] k > n + 1 /\ j <= 0       -> Padding(0)
    [] j > 0 /\ j <= LenLen \div 2 -> High((n * Bits) \div LenMod, j)
    [] OTHER -> Low((n * Bits) % LenMod, j - LenLen \div 2)

\* The digest is that of the padded message of n octets.
DigestOf(c, n) ==
  /\ Len(c.digest) * BlockLen = PaddedLen(n)
  /\ \A b \in DOMAIN c.digest : \A i \in Index :
       c.digest[b][i] = PaddedOctet(n, (b - 1) * BlockLen + i + 1)

\* When SHA1Result returns 1 the digest is that of all octets passed to
\* SHA1Input since the reset, however they were cut into calls and whatever
\* was called in between, padded as the standard says: nothing of an earlier
\* block or message is left in it, and neither a message that is too long nor
\* input after a result goes unnoticed.
DigestOfMessage == result = "ok" => DigestOf(context, offered)

\* A context is corrupted only when the message is too long for its length
\* field or there was input after a result: the answer to the server never
\* fails for another reason.
CorruptedForCause ==
  context.Corrupted =>
    offered * Bits >= LenMod * LenMod \/ context.Computed

-----------------------------------------------------------------------------
(* The invariant behind them. *)

\* The octets the loops of SHA1Input have taken.
Taken == offered - length

\* The blocks, and the current one up to its index, hold the message.
BlocksHold(c) ==
  /\ \A b \in DOMAIN c.digest : \A i \in Index :
       c.digest[b][i] = Message((b - 1) * BlockLen + i + 1)
  /\ \A i \in Index :
       i < c.index => c.block[i] = Message(Len(c.digest) * BlockLen + i + 1)

\* Before the result the context holds what was taken, and counts its bits.
Collecting ==
  ~context.Computed /\ ~context.Corrupted =>
    /\ Taken = Len(context.digest) * BlockLen + context.index
    /\ Taken * Bits = context.Length_High * LenMod + context.Length_Low
    /\ context.Length_Low % Bits = 0
    /\ BlocksHold(context)

\* Afterwards its digest stays that of the message.
Concluded ==
  context.Computed =>
    /\ length = 0
    /\ ~context.Corrupted => DigestOf(context, offered)

\* The context is what the calls so far make of it: the step from octets to
\* blocks, the length kept in two words and the padding agree at every call.
ShaInv ==
  /\ ShaTypeOK /\ length <= offered
  /\ Collecting /\ Concluded /\ CorruptedForCause
  /\ result = "ok" => context.Computed /\ ~context.Corrupted

=============================================================================
