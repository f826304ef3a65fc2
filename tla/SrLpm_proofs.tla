---------------------------- MODULE SrLpm_proofs ----------------------------
(***************************************************************************)
(* sr_findLPMentry returns the longest matching prefix, for words of any   *)
(* width and routing tables of any length.                                 *)
(***************************************************************************)
EXTENDS SrLpm, TLAPS

\* Netmasks are ordered by inclusion as they are as unsigned words.
LEMMA PrefixOrder ==
  ASSUME NEW m \in Prefix, NEW n \in Prefix
  PROVE  /\ Exceeds(m, n) => n \subseteq m /\ m # n
         /\ ~Exceeds(m, n) => m \subseteq n
  <1>1. PICK a \in 0..Width : m = {i \in Bit : i >= a}
    BY DEF Prefix
  <1>2. PICK b \in 0..Width : n = {i \in Bit : i >= b}
    BY DEF Prefix
  <1>3. CASE a < b
    <2>1. a \in Bit /\ a \in m \ n /\ n \ m = {} /\ n \subseteq m
      BY <1>1, <1>2, <1>3, WidthAssumption DEF Bit
    <2> QED  BY <2>1 DEF Exceeds
  <1>4. CASE b <= a
    <2>1. m \subseteq n
      BY <1>1, <1>2, <1>4, WidthAssumption DEF Bit
    <2> QED  BY <2>1 DEF Exceeds
  <1> QED  BY <1>1, <1>2, <1>3, <1>4, WidthAssumption

\* The empty mask is a netmask, and a netmask is a word.
LEMMA PrefixWord ==
  /\ {} \in Prefix
  /\ Prefix \subseteq Word
  <1>1. {} = {i \in Bit : i >= Width} /\ Width \in 0..Width
    BY WidthAssumption DEF Bit
  <1>2. {} \in Prefix
    BY <1>1 DEF Prefix
  <1> QED  BY <1>2 DEF Prefix, Word

\* The test of the loop says that the address lies in the prefix.
LEMMA MatchesPrefix ==
  ASSUME NEW e
  PROVE  Matches(e) <=> InPrefix(e)
  BY DEF Matches, InPrefix

\* The mask kept by the loop is a netmask.
KeepsPrefix == lpmmask \in Prefix

\* The loop starts with nothing scanned.
LEMMA InitBest == Init => TypeOK /\ KeepsPrefix /\ BestSoFar
  <1> SUFFICES ASSUME Init PROVE TypeOK /\ KeepsPrefix /\ BestSoFar
    OBVIOUS
  <1>1. rtable \in Seq(Route) /\ Len(rtable) \in Nat
    BY TablesAssumption DEF Init
  <1>2. TypeOK
    BY <1>1 DEF Init, TypeOK, Word
  <1>3. Candidates(0) = {} /\ entry - 1 = 0
    BY <1>1 DEF Init, Candidates
  <1> QED  BY <1>2, <1>3, PrefixWord DEF Init, KeepsPrefix, BestSoFar

\* A turn of the loop keeps types.
LEMMA ScanType ==
  ASSUME TypeOK, KeepsPrefix, Scan
  PROVE  TypeOK' /\ KeepsPrefix'
  <1>1. /\ rtable \in Seq(Route) /\ Len(rtable) \in Nat
        /\ entry \in 1..Len(rtable) /\ entry \in DOMAIN rtable
    BY DEF TypeOK, Scan
  <1>2. rtable[entry] \in Route
    BY <1>1
  <1>3. rtable[entry].mask \in Prefix
    BY <1>2 DEF Route
  <1>4. lpmmask' \in Prefix /\ lpmentry' \in 0..Len(rtable)
    BY <1>1, <1>3 DEF Scan, KeepsPrefix, TypeOK
  <1> QED  BY <1>1, <1>4, PrefixWord DEF TypeOK, Scan, KeepsPrefix

\* A turn of the loop keeps the best of the entries scanned.
LEMMA ScanBest ==
  ASSUME TypeOK, KeepsPrefix, BestSoFar, Scan
  PROVE  BestSoFar'
  <1>1. /\ rtable \in Seq(Route) /\ Len(rtable) \in Nat
        /\ DOMAIN rtable = 1..Len(rtable) /\ entry \in DOMAIN rtable
        /\ entry \in Nat /\ entry' = entry + 1
        /\ UNCHANGED <<rtable, ip_dst>> /\ lpmentry \in Nat
    BY DEF TypeOK, Scan
  <1>2. rtable[entry] \in Route
    BY <1>1
  <1>8. PICK n \in Nat : n = entry
    BY <1>1
  <1>3. PICK m \in Prefix : m = rtable[entry].mask
    BY <1>2 DEF Route
  <1>4. \A i \in DOMAIN rtable : i <= entry <=> i <= entry - 1 \/ i = entry
    BY <1>1
  <1>5. /\ \A i : i \in Candidates(n)' <=>
             \/ i \in Candidates(n - 1)
             \/ i = entry /\ m # {} /\ Matches(rtable[entry])
        /\ \A i \in Candidates(n - 1) : i < entry /\ i \in Nat
    BY <1>1, <1>3, <1>4, <1>8, MatchesPrefix DEF Candidates, InPrefix
  <1>9. Candidates(entry - 1)' = Candidates(n)'
    BY <1>1, <1>8
  <1>6. CASE Matches(rtable[entry]) /\ Exceeds(m, lpmmask)
    <2>1. lpmentry' = entry /\ lpmmask' = m
      BY <1>3, <1>6 DEF Scan
    <2>2. lpmmask \subseteq m /\ m # lpmmask
      BY <1>6, PrefixOrder DEF KeepsPrefix
    <2>3. \A i \in Candidates(n - 1) :
            rtable[i].mask \subseteq lpmmask /\ rtable[i].mask # m
      BY <2>2, <1>8, <1>9 DEF BestSoFar
    <2>4. entry \in Candidates(n)' /\ entry # 0
      <3>1. m # {}
        BY <1>6 DEF Exceeds
      <3>2. entry # 0
        BY <1>1
      <3> QED  BY <1>5, <1>6, <3>1, <3>2
    <2>5. \A i \in Candidates(n)' :
            rtable[i].mask \subseteq m /\ (i < entry => rtable[i].mask # m)
      BY <1>1, <1>3, <1>5, <2>2, <2>3
    <2> QED  BY <1>1, <1>3, <2>1, <2>4, <2>5, <1>8, <1>9 DEF BestSoFar
  <1>7. CASE ~(Matches(rtable[entry]) /\ Exceeds(m, lpmmask))
    <2>1. UNCHANGED <<lpmentry, lpmmask>>
      BY <1>3, <1>7 DEF Scan
    <2>2. Matches(rtable[entry]) => m \subseteq lpmmask
      BY <1>7, PrefixOrder DEF KeepsPrefix
    <2>3. CASE lpmentry = 0
      <3>1. Candidates(n)' = {}
        BY <1>5, <2>2, <2>3, <1>8, <1>9 DEF BestSoFar
      <3> QED  BY <1>1, <2>1, <2>3, <3>1, <1>8, <1>9 DEF BestSoFar
    <2>4. CASE lpmentry # 0
      <3>1. /\ lpmentry \in Candidates(n - 1)
            /\ lpmmask = rtable[lpmentry].mask
            /\ \A i \in Candidates(n - 1) :
                 /\ rtable[i].mask \subseteq lpmmask
                 /\ i < lpmentry => rtable[i].mask # lpmmask
        BY <2>4, <1>8, <1>9 DEF BestSoFar
      <3>2. ~(entry < lpmentry)
        BY <1>1, <1>5, <3>1
      <3>3. \A i \in Candidates(n)' :
              /\ rtable[i].mask \subseteq lpmmask
              /\ i < lpmentry => rtable[i].mask # lpmmask
        BY <1>3, <1>5, <2>2, <3>1, <3>2
      <3> QED  BY <1>1, <1>5, <2>1, <2>4, <3>1, <3>3, <1>8, <1>9 DEF BestSoFar
    <2> QED  BY <2>3, <2>4
  <1> QED  BY <1>6, <1>7

\* The loop of sr_findLPMentry keeps the best of the entries it has scanned,
\* for any width and any table of netmasks.
THEOREM LoopInvariant == Spec => [](TypeOK /\ KeepsPrefix /\ BestSoFar)
  <1> DEFINE I == TypeOK /\ KeepsPrefix /\ BestSoFar
  <1>1. Init => I
    BY InitBest
  <1>2. I /\ [Next]_vars => I'
    <2> SUFFICES ASSUME I, [Next]_vars PROVE I'
      OBVIOUS
    <2>1. CASE Scan
      BY <2>1, ScanType, ScanBest
    <2>2. CASE UNCHANGED vars
      BY <2>2 DEF vars, TypeOK, KeepsPrefix, BestSoFar, Candidates, InPrefix
    <2> QED  BY <2>1, <2>2 DEF Next, Done
  <1> QED  BY <1>1, <1>2, PTL DEF Spec

\* The scan of sr_findLPMentry stays in the table, and the entry it holds is one
\* of the table or null.
THEOREM LpmTypeCorrect == Spec => []TypeOK
BY LoopInvariant, PTL

\* sr_findLPMentry returns the first entry with the longest matching prefix,
\* and NULL exactly when nothing but a default route matches.
THEOREM LpmCorrect == Spec => []LongestPrefix
  <1>1. TypeOK /\ BestSoFar => LongestPrefix
    <2> SUFFICES ASSUME TypeOK, BestSoFar, entry > Len(rtable)
                 PROVE  LongestPrefix
      BY DEF LongestPrefix
    <2>1. entry - 1 = Len(rtable)
      BY DEF TypeOK
    <2> QED  BY <2>1 DEF BestSoFar, LongestPrefix
  <1> QED  BY <1>1, LoopInvariant, PTL

=============================================================================
