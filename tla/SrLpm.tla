------------------------------- MODULE SrLpm -------------------------------
(***************************************************************************)
(* sr_findLPMentry of sr_router.c: one scan of the routing table for the   *)
(* entry with the longest prefix that matches an address.                  *)
(*                                                                         *)
(* An address or a mask, in host byte order, is the set of the bits that   *)
(* are 1, the least significant bit being bit 0: & is intersection, and    *)
(* the unsigned comparison of two words is decided by the highest bit in   *)
(* which they differ.                                                      *)
(***************************************************************************)
EXTENDS Naturals, Sequences

CONSTANTS
  Width,    \* bits of an address (32 in the code)
  Tables    \* the routing tables to be searched

Bit == 0..(Width - 1)

Word == SUBSET Bit

\* A netmask: the bits from some bit on are set, the others are not.
Prefix == {{i \in Bit : i >= k} : k \in 0..Width}

\* struct sr_rt, as far as the search looks at it.
Route == [dest : Word, mask : Prefix]

ASSUME WidthAssumption == Width \in Nat \ {0}

ASSUME TablesAssumption == Tables \subseteq Seq(Route)

VARIABLES
  rtable,   \* the table
  ip_dst,   \* the address looked for
  entry,    \* position of the entry the loop is at
  lpmentry, \* position of the best entry so far, 0 for NULL
  lpmmask   \* its mask

vars == <<rtable, ip_dst, entry, lpmentry, lpmmask>>

\* Every variable holds a value of its kind.
TypeOK ==
  /\ rtable \in Seq(Route)
  /\ ip_dst \in Word
  /\ entry \in 1..(Len(rtable) + 1)
  /\ lpmentry \in 0..Len(rtable)
  /\ lpmmask \in Word

\* Mutant of Matches: the address of the entry is not masked.
MatchesExact(e) == ip_dst \cap e.mask = e.dest

\* (ip_dst & mask) == (dest & mask)
Matches(e) == ip_dst \cap e.mask = e.dest \cap e.mask

\* Mutant of Exceeds: the comparison is not strict.
ExceedsOrEqual(m, n) == m = n \/ \E i \in m \ n : \A j \in n \ m : j < i

\* m > n as unsigned words.
Exceeds(m, n) == \E i \in m \ n : \A j \in n \ m : j < i

Init ==
  /\ rtable \in Tables
  /\ ip_dst \in Word
  /\ entry = 1
  /\ lpmentry = 0
  /\ lpmmask = {}

\* Mutant of Scan: the entry after a match is passed over.
ScanSkips ==
  /\ entry <= Len(rtable)
  /\ IF Matches(rtable[entry]) /\ Exceeds(rtable[entry].mask, lpmmask)
     THEN entry' = entry + 2 /\ lpmentry' = entry /\ lpmmask' = rtable[entry].mask
     ELSE entry' = entry + 1 /\ UNCHANGED <<lpmentry, lpmmask>>
  /\ UNCHANGED <<rtable, ip_dst>>

\* One turn of the loop.
Scan ==
  /\ entry <= Len(rtable)
  /\ entry' = entry + 1
  /\ IF Matches(rtable[entry]) /\ Exceeds(rtable[entry].mask, lpmmask)
     THEN lpmentry' = entry /\ lpmmask' = rtable[entry].mask
     ELSE UNCHANGED <<lpmentry, lpmmask>>
  /\ UNCHANGED <<rtable, ip_dst>>

\* The loop is over: the entry is returned.
Done == entry > Len(rtable) /\ UNCHANGED vars

Next == Scan \/ Done

Spec == Init /\ [][Next]_vars

-----------------------------------------------------------------------------

\* What it means that the address lies in the prefix of e: they agree in every
\* bit the mask selects, whatever dest has in the other bits.
InPrefix(e) == \A b \in e.mask : b \in ip_dst <=> b \in e.dest

\* The entries with the address among the first n, those with an empty mask (a default
\* route) left out: "mask > lpmmask" never holds for them.
Candidates(n) ==
  {i \in DOMAIN rtable :
     i <= n /\ rtable[i].mask # {} /\ InPrefix(rtable[i])}

\* The best of the entries scanned: the longest prefix, and the first one of
\* that length in the table.
BestSoFar ==
  /\ lpmentry = 0 => lpmmask = {} /\ Candidates(entry - 1) = {}
  /\ lpmentry # 0 =>
       /\ lpmentry \in Candidates(entry - 1)
       /\ lpmmask = rtable[lpmentry].mask
       /\ \A i \in Candidates(entry - 1) :
            /\ rtable[i].mask \subseteq lpmmask
            /\ i < lpmentry => rtable[i].mask # lpmmask

\* What sr_findLPMentry returns for a table of netmasks: NULL exactly if no
\* entry but a default route matches, else the first matching entry whose
\* prefix is at least as long as that of any other (of two matching netmasks
\* the longer one contains the other).
LongestPrefix ==
  entry > Len(rtable) =>
    LET found == Candidates(Len(rtable)) IN
    /\ lpmentry = 0 <=> found = {}
    /\ lpmentry # 0 =>
         /\ lpmentry \in found
         /\ \A i \in found :
              /\ rtable[i].mask \subseteq rtable[lpmentry].mask
              /\ i < lpmentry => rtable[i].mask # rtable[lpmentry].mask

=============================================================================
