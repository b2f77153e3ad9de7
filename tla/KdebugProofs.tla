-------------------------- MODULE KdebugProofs ----------------------------
(***************************************************************************)
(* stab_binsearch brackets the address, in every table, for every region   *)
(* sorted by the type searched for and every address but those with a      *)
(* match at the next one.                                                  *)
(***************************************************************************)
EXTENDS Kdebug, FiniteSetTheorems, TLAPS

\* What no step changes.
Arguments ==
  /\ stabs \in Tables
  /\ left0 \in DOMAIN stabs /\ right0 \in DOMAIN stabs /\ left0 <= right0
  /\ addr0 \in 0 .. ADDRS - 1
  /\ Increasing(stabs, type, left0, right0)

\* The stabs outside [l, r] have been decided: those to the left begin at or below the
\* address, those to the right above it, and region_left is the last one seen of the
\* former.  Without a match so far, there is none to the left and nothing was cut off.
Narrowing ==
  /\ l \in left0 .. right0 + 1 /\ r \in left0 - 1 .. right0
  /\ region_right = r /\ region_left >= left0
  /\ left0 \notin Matching => r >= left0
  /\ ~any_matches => r = right0 /\ region_left = left0 /\ \A k \in Matching : k >= l
  /\ any_matches => Matching # {}
  /\ NoNeighbour =>
       /\ addr \in {addr0, addr0 + 1}
       /\ \A k \in Matching : k < l => stabs[k].n_value <= addr0
       /\ \A k \in Matching : k > r => stabs[k].n_value > addr0
       /\ r = right0 \/ r + 1 \in Above
       /\ region_left \in AtOrBelow \/ (region_left = left0 /\ \A k \in Matching : k >= l)

\* The stabs from m to the middle of [l, r] are of other types.
Scanning ==
  /\ l <= r
  /\ m \in l - 1 .. true_m
  /\ \A k \in Matching : k <= m \/ k > true_m

\* region_right is the boundary, and the stabs from l to it are of other types.
GoingBack ==
  /\ Matching # {}
  /\ l \in left0 - 1 .. region_right
  /\ region_left >= left0
  /\ l >= region_left \/ l = region_right
  /\ left0 \notin Matching => region_right >= left0
  /\ \A k \in Matching : k <= l \/ k > region_right
  /\ NoNeighbour =>
       /\ \A k \in Matching : stabs[k].n_value <= addr0 <=> k <= region_right
       /\ region_right = right0 \/ region_right + 1 \in Above
       /\ region_left \in AtOrBelow \/ (region_left = left0 /\ AtOrBelow = {})

\* What is returned is empty, or has at most one stab of the type, its first.  It begins
\* at the left end if every match is above the address.
Returned ==
  /\ \A k \in Matching : k <= region_left \/ k > region_right
  /\ region_left >= left0 \/ region_left = region_right
  /\ region_left > region_right => region_left = left0
  /\ Matching = {} => region_left > region_right
  /\ left0 \notin Matching => region_left >= left0
  /\ NoNeighbour /\ AtOrBelow = {} /\ left0 \notin Matching => region_left = left0

Places ==
  /\ region_left \in left0 - 1 .. right0 /\ region_right \in left0 - 1 .. right0
  /\ l \in left0 - 1 .. right0 + 1 /\ r \in left0 - 1 .. right0 /\ m \in left0 - 1 .. right0

IInv ==
  /\ Arguments /\ Places
  /\ addr \in 0 .. ADDRS - 1 /\ any_matches \in BOOLEAN
  /\ pc \in {"search", "scan", "back", "done"}
  /\ pc \in {"search", "scan"} => Narrowing
  /\ pc = "scan" => Scanning
  /\ pc = "back" => GoingBack
  /\ pc = "done" => Returned
  /\ BracketsAddress

-----------------------------------------------------------------------------
\* The stabs of the type are in the region, at addresses that are numbers.
LEMMA Values ==
  Arguments =>
    /\ left0 \in Nat /\ right0 \in Nat
    /\ \A k \in Matching : k \in left0 .. right0 /\ stabs[k].n_value \in Int
<1> SUFFICES ASSUME Arguments
             PROVE  /\ left0 \in Nat /\ right0 \in Nat
                    /\ \A k \in Matching : k \in left0 .. right0 /\ stabs[k].n_value \in Int
  OBVIOUS
<1>1. PICK n \in 1 .. NSTABS : DOMAIN stabs = 0 .. n - 1 /\ \A k \in 0 .. n - 1 : IsStab(stabs[k])
  BY StabAssumption DEF Arguments
<1>2. left0 \in 0 .. n - 1 /\ right0 \in 0 .. n - 1 /\ n \in Int
  BY <1>1, StabAssumption DEF Arguments
<1>3. ASSUME NEW k \in Matching
      PROVE  k \in left0 .. right0 /\ stabs[k].n_value \in Int
  <2>1. k \in left0 .. right0 /\ k \in 0 .. n - 1
    BY <1>2 DEF Matching
  <2>2. stabs[k].n_value \in 0 .. ADDRS - 1
    BY <1>1, <2>1 DEF IsStab
  <2> QED  BY <2>1, <2>2, StabAssumption
<1> QED  BY <1>2, <1>3

\* Of two stabs of the type, the one to the left does not begin later.
LEMMA Sorted ==
  Arguments => \A j, k \in Matching : j <= k => stabs[j].n_value <= stabs[k].n_value
<1> SUFFICES ASSUME Arguments, NEW j \in Matching, NEW k \in Matching, j <= k
             PROVE  stabs[j].n_value <= stabs[k].n_value
  OBVIOUS
<1>1. j \in left0 .. right0 /\ k \in left0 .. right0 /\ stabs[j].n_value \in Int
  BY Values
<1>2. CASE j = k
  BY <1>1, <1>2
<1>3. CASE j < k
  BY <1>1, <1>3 DEF Arguments, Increasing, Matching
<1> QED  BY <1>1, <1>2, <1>3

\* The middle of a region that is not empty is in it.
LEMMA Middle == ASSUME NEW a \in Int, NEW b \in Int, a <= b
                PROVE  (a + b) \div 2 \in a .. b
OBVIOUS

\* What a step leaves of the call.
LEMMA SameCall ==
  ASSUME UNCHANGED callVars
  PROVE  /\ Arguments' <=> Arguments
         /\ Matching' = Matching /\ AtOrBelow' = AtOrBelow /\ Above' = Above
         /\ NoNeighbour' <=> NoNeighbour
         /\ stabs' = stabs /\ left0' = left0 /\ right0' = right0 /\ addr0' = addr0
BY DEF callVars, Arguments, Matching, AtOrBelow, Above, NoNeighbour, Increasing

-----------------------------------------------------------------------------
\* At the call nothing has been decided.
LEMMA InitIInv == SearchInit => IInv
<1> SUFFICES ASSUME SearchInit PROVE IInv
  OBVIOUS
<1>1. Arguments
  BY DEF SearchInit, Arguments
<1>2. left0 \in Nat /\ right0 \in Nat /\ left0 <= right0
      /\ \A k \in Matching : k \in left0 .. right0
  BY <1>1, Values DEF Arguments
<1>3. Narrowing
  BY <1>2 DEF SearchInit, Narrowing
<1>4. pc = "search" /\ any_matches \in BOOLEAN /\ addr \in 0 .. ADDRS - 1 /\ Places
  <2>1. any_matches = FALSE /\ pc = "search" /\ addr = addr0 /\ addr0 \in 0 .. ADDRS - 1
    BY DEF SearchInit
  <2>2. any_matches \in BOOLEAN
    BY <2>1
  <2>3. Places
    BY <1>2 DEF SearchInit, Places
  <2> QED  BY <2>1, <2>2, <2>3
<1>5. BracketsAddress
  <2>1. pc = "search"
    BY <1>4
  <2> QED  BY <2>1 DEF BracketsAddress, BracketCorrect, EmptyRegionIsHonest
<1> QED  BY <1>1, <1>3, <1>4, <1>5 DEF IInv

-----------------------------------------------------------------------------
\* The facts that every step starts from.
LEMMA Before ==
  IInv =>
    /\ Arguments /\ left0 \in Nat /\ right0 \in Nat /\ left0 <= right0
    /\ \A k \in Matching : k \in left0 .. right0 /\ stabs[k].n_value \in Int
    /\ Places /\ addr \in 0 .. ADDRS - 1 /\ addr0 \in 0 .. ADDRS - 1
    /\ any_matches \in BOOLEAN
<1>1. IInv => Arguments /\ left0 <= right0 /\ addr0 \in 0 .. ADDRS - 1
  BY DEF IInv, Arguments
<1> QED  BY <1>1, Values DEF IInv

\* A step within the main loop.
LEMMA StaysInLoop ==
  IInv /\ UNCHANGED callVars /\ pc' \in {"search", "scan", "back"}
    => Arguments' /\ BracketsAddress'
<1> SUFFICES ASSUME IInv, UNCHANGED callVars, pc' \in {"search", "scan", "back"}
             PROVE  Arguments' /\ BracketsAddress'
  OBVIOUS
<1>1. Arguments'
  BY SameCall DEF IInv
<1>2. BracketsAddress'
  BY DEF BracketsAddress, BracketCorrect, EmptyRegionIsHonest
<1> QED  BY <1>1, <1>2

\* Each step of the search keeps the invariant.  The middle is taken: nothing has been
\* passed yet.
LEMMA HalveStep == IInv /\ Halve => IInv'
<1> SUFFICES ASSUME IInv, Halve PROVE IInv'
  OBVIOUS
<1> USE StabAssumption
<1>1. /\ Arguments /\ left0 \in Nat /\ right0 \in Nat /\ left0 <= right0
      /\ \A k \in Matching : k \in left0 .. right0 /\ stabs[k].n_value \in Int
      /\ Places /\ addr \in 0 .. ADDRS - 1 /\ addr0 \in 0 .. ADDRS - 1
      /\ any_matches \in BOOLEAN
  BY Before
<1>2. UNCHANGED callVars
  BY DEF Halve
<1>3. /\ Arguments' /\ Matching' = Matching /\ AtOrBelow' = AtOrBelow /\ Above' = Above
      /\ NoNeighbour' <=> NoNeighbour
      /\ stabs' = stabs /\ left0' = left0 /\ right0' = right0 /\ addr0' = addr0
  BY <1>1, <1>2, SameCall
<1>4. Narrowing /\ l <= r
  BY DEF IInv, Halve
<1>5. l \in Int /\ r \in Int /\ true_m \in l .. r
  BY <1>1, <1>4, Middle DEF Narrowing, true_m
<1>6. Narrowing'
  BY <1>3, <1>4 DEF Halve, Narrowing
<1>7. Scanning'
  BY <1>1, <1>3, <1>4, <1>5 DEF Halve, Scanning, true_m
<1>8. pc' = "scan" /\ BracketsAddress'
  BY <1>2, StaysInLoop DEF Halve
<1>9. addr' = addr /\ any_matches' = any_matches
  BY DEF Halve
<1>10. Places'
  BY <1>1, <1>3, <1>4, <1>5 DEF Halve, Places, Narrowing
<1> QED  BY <1>1, <1>3, <1>4, <1>6, <1>7, <1>8, <1>9, <1>10 DEF IInv

\* The scan passes a stab of another type.
LEMMA ScanStep == IInv /\ Scan => IInv'
<1> SUFFICES ASSUME IInv, Scan PROVE IInv'
  OBVIOUS
<1> USE StabAssumption
<1>1. /\ Arguments /\ left0 \in Nat /\ right0 \in Nat /\ left0 <= right0
      /\ \A k \in Matching : k \in left0 .. right0 /\ stabs[k].n_value \in Int
      /\ Places /\ addr \in 0 .. ADDRS - 1 /\ addr0 \in 0 .. ADDRS - 1
      /\ any_matches \in BOOLEAN
  BY Before
<1>2. UNCHANGED callVars
  BY DEF Scan
<1>3. /\ Arguments' /\ Matching' = Matching /\ AtOrBelow' = AtOrBelow /\ Above' = Above
      /\ NoNeighbour' <=> NoNeighbour
      /\ stabs' = stabs /\ left0' = left0 /\ right0' = right0 /\ addr0' = addr0
  BY <1>1, <1>2, SameCall
<1>4. Narrowing /\ Scanning
  BY DEF IInv, Scan
<1>5. l \in Int /\ r \in Int /\ m \in Int /\ true_m \in l .. r
  BY <1>1, <1>4, Middle DEF Narrowing, Scanning, true_m
<1>6. Narrowing'
  BY <1>3, <1>4 DEF Scan, Narrowing
<1>7. m \notin Matching
  BY DEF Scan, Matches, Matching
<1>8. Scanning'
  <2>1. m' = m - 1 /\ l' = l /\ r' = r /\ m >= l
    BY DEF Scan
  <2>2. \A k \in Matching : k <= m - 1 \/ k > true_m
    BY <1>1, <1>4, <1>5, <1>7 DEF Scanning
  <2> QED
    BY <1>3, <1>4, <1>5, <2>1, <2>2 DEF Scanning, true_m
<1>9. pc' = "scan" /\ BracketsAddress'
  BY <1>2, StaysInLoop DEF Scan
<1>10. addr' = addr /\ any_matches' = any_matches
  BY DEF Scan
<1>11. Places'
  BY <1>1, <1>3, <1>4, <1>5 DEF Scan, Places, Narrowing
<1> QED  BY <1>1, <1>3, <1>4, <1>6, <1>8, <1>9, <1>10, <1>11 DEF IInv

\* Nothing between the left end and the middle: the left end goes past the middle.
LEMMA NoMatchStep == IInv /\ NoMatch => IInv'
<1> SUFFICES ASSUME IInv, NoMatch PROVE IInv'
  OBVIOUS
<1> USE StabAssumption
<1>1. /\ Arguments /\ left0 \in Nat /\ right0 \in Nat /\ left0 <= right0
      /\ \A k \in Matching : k \in left0 .. right0 /\ stabs[k].n_value \in Int
      /\ Places /\ addr \in 0 .. ADDRS - 1 /\ addr0 \in 0 .. ADDRS - 1
      /\ any_matches \in BOOLEAN
  BY Before
<1>2. UNCHANGED callVars
  BY DEF NoMatch
<1>3. /\ Arguments' /\ Matching' = Matching /\ AtOrBelow' = AtOrBelow /\ Above' = Above
      /\ NoNeighbour' <=> NoNeighbour
      /\ stabs' = stabs /\ left0' = left0 /\ right0' = right0 /\ addr0' = addr0
  BY <1>1, <1>2, SameCall
<1>4. Narrowing /\ Scanning
  BY DEF IInv, NoMatch
<1>5. l \in Int /\ r \in Int /\ m \in Int /\ true_m \in l .. r
  BY <1>1, <1>4, Middle DEF Narrowing, Scanning, true_m
<1>6. \A k \in Matching : k < l \/ k > true_m
  BY <1>1, <1>4, <1>5 DEF NoMatch, Scanning
<1>7. l' = true_m + 1 /\ r' = r /\ pc' = "search" /\ UNCHANGED <<region_left, region_right, addr, any_matches>>
  BY DEF NoMatch
<1>8. Narrowing'
  BY <1>1, <1>3, <1>4, <1>5, <1>6, <1>7 DEF Narrowing
<1>9. BracketsAddress'
  BY <1>2, <1>7, StaysInLoop
<1>10. Places'
  BY <1>1, <1>3, <1>4, <1>5 DEF NoMatch, Places, Narrowing
<1> QED  BY <1>1, <1>3, <1>7, <1>8, <1>9, <1>10 DEF IInv

\* A match below: it and, by the order, all matches before it are at or below.
LEMMA GoRightStep == IInv /\ GoRight => IInv'
<1> SUFFICES ASSUME IInv, GoRight PROVE IInv'
  OBVIOUS
<1> USE StabAssumption
<1>1. /\ Arguments /\ left0 \in Nat /\ right0 \in Nat /\ left0 <= right0
      /\ \A k \in Matching : k \in left0 .. right0 /\ stabs[k].n_value \in Int
      /\ Places /\ addr \in 0 .. ADDRS - 1 /\ addr0 \in 0 .. ADDRS - 1
      /\ any_matches \in BOOLEAN
  BY Before
<1>2. UNCHANGED callVars
  BY DEF GoRight
<1>3. /\ Arguments' /\ Matching' = Matching /\ AtOrBelow' = AtOrBelow /\ Above' = Above
      /\ NoNeighbour' <=> NoNeighbour
      /\ stabs' = stabs /\ left0' = left0 /\ right0' = right0 /\ addr0' = addr0
  BY <1>1, <1>2, SameCall
<1>4. Narrowing /\ Scanning
  BY DEF IInv, GoRight
<1>5. l \in Int /\ r \in Int /\ m \in Int /\ true_m \in l .. r
  BY <1>1, <1>4, Middle DEF Narrowing, Scanning, true_m
<1>6. m \in Matching
  BY <1>1, <1>4, <1>5 DEF GoRight, Narrowing, Scanning, Matching, Matches
<1>8. /\ l' = true_m + 1 /\ r' = r /\ pc' = "search" /\ region_left' = m /\ any_matches' = TRUE
      /\ region_right' = region_right /\ addr' = addr /\ stabs[m].n_value < addr /\ m >= l
  BY DEF GoRight
<1>9. \A k \in Matching : k <= m \/ k > true_m
  BY <1>4 DEF Scanning
<1>10. ASSUME NoNeighbour
       PROVE  m \in AtOrBelow /\ \A k \in Matching : k < l' => stabs[k].n_value <= addr0
  <2>1. stabs[m].n_value <= addr0
    BY <1>1, <1>4, <1>6, <1>8, <1>10 DEF Narrowing
  <2>2. m \in AtOrBelow
    BY <1>6, <2>1 DEF AtOrBelow
  <2>3. ASSUME NEW k \in Matching, k < l'
        PROVE  stabs[k].n_value <= addr0
    <3>1. k <= m
      BY <1>1, <1>5, <1>8, <1>9, <2>3
    <3>2. stabs[k].n_value \in Int /\ stabs[m].n_value \in Int /\ stabs[k].n_value <= stabs[m].n_value
      BY <1>1, <1>6, <3>1, Sorted
    <3> QED  BY <1>1, <2>1, <3>2
  <2>4. \A k \in Matching : k < l' => stabs[k].n_value <= addr0
    BY <2>3
  <2> QED  BY <2>2, <2>4
<1>11. l' \in left0' .. right0' + 1 /\ r' \in left0' - 1 .. right0' /\ m \in left0 .. right0
  BY <1>1, <1>3, <1>4, <1>5, <1>6, <1>8 DEF Narrowing
<1>12. Narrowing'
  BY <1>3, <1>4, <1>6, <1>8, <1>10, <1>11 DEF Narrowing
<1>13. BracketsAddress'
  BY <1>2, <1>8, StaysInLoop
<1>14. Places'
  BY <1>1, <1>3, <1>11 DEF GoRight, Places
<1> QED  BY <1>1, <1>3, <1>8, <1>12, <1>13, <1>14 DEF IInv

\* A match above: it and, by the order, all matches after it are above.
LEMMA GoLeftStep == IInv /\ GoLeft => IInv'
<1> SUFFICES ASSUME IInv, GoLeft PROVE IInv'
  OBVIOUS
<1> USE StabAssumption
<1>1. /\ Arguments /\ left0 \in Nat /\ right0 \in Nat /\ left0 <= right0
      /\ \A k \in Matching : k \in left0 .. right0 /\ stabs[k].n_value \in Int
      /\ Places /\ addr \in 0 .. ADDRS - 1 /\ addr0 \in 0 .. ADDRS - 1
      /\ any_matches \in BOOLEAN
  BY Before
<1>2. UNCHANGED callVars
  BY DEF GoLeft
<1>3. /\ Arguments' /\ Matching' = Matching /\ AtOrBelow' = AtOrBelow /\ Above' = Above
      /\ NoNeighbour' <=> NoNeighbour
      /\ stabs' = stabs /\ left0' = left0 /\ right0' = right0 /\ addr0' = addr0
  BY <1>1, <1>2, SameCall
<1>4. Narrowing /\ Scanning
  BY DEF IInv, GoLeft
<1>5. l \in Int /\ r \in Int /\ m \in Int /\ true_m \in l .. r
  BY <1>1, <1>4, Middle DEF Narrowing, Scanning, true_m
<1>6. m \in Matching
  BY <1>1, <1>4, <1>5 DEF GoLeft, Narrowing, Scanning, Matching, Matches
<1>7. \A k \in Matching : k >= m => stabs[k].n_value >= stabs[m].n_value
  BY <1>1, <1>6, Sorted
<1>8. /\ l' = l /\ r' = m - 1 /\ pc' = "search" /\ region_left' = region_left /\ any_matches' = TRUE
      /\ region_right' = m - 1 /\ addr' = addr /\ stabs[m].n_value > addr /\ m >= l
  BY DEF GoLeft
<1>9. ASSUME NoNeighbour
      PROVE  m \in Above /\ \A k \in Matching : k > r' => stabs[k].n_value > addr0
  <2>1. stabs[m].n_value > addr0
    BY <1>1, <1>4, <1>6, <1>8, <1>9 DEF Narrowing
  <2>2. m \in Above
    BY <1>6, <2>1 DEF Above
  <2>3. ASSUME NEW k \in Matching, k > r'
        PROVE  stabs[k].n_value > addr0
    <3>1. k >= m
      BY <1>1, <1>5, <1>8, <2>3
    <3> QED  BY <1>1, <1>6, <1>7, <2>1, <3>1
  <2> QED  BY <2>2, <2>3
<1>10. l' \in left0' .. right0' + 1 /\ r' \in left0' - 1 .. right0' /\ r' + 1 = m
  BY <1>1, <1>3, <1>4, <1>5, <1>6, <1>8 DEF Narrowing
<1>11. Narrowing'
  <2>1. left0 \notin Matching => m - 1 >= left0
    BY <1>1, <1>6
  <2> QED
    BY <1>3, <1>4, <1>6, <1>8, <1>9, <1>10, <2>1 DEF Narrowing
<1>12. BracketsAddress'
  BY <1>2, <1>8, StaysInLoop
<1>13. Places'
  BY <1>1, <1>3, <1>8, <1>10 DEF Places, GoLeft
<1> QED  BY <1>1, <1>3, <1>8, <1>11, <1>12, <1>13 DEF IInv

\* A match at the address, which moves on by one; without a neighbour, only once.
LEMMA ExactMatchStep == IInv /\ ExactMatch => IInv'
<1> SUFFICES ASSUME IInv, ExactMatch PROVE IInv'
  OBVIOUS
<1> USE StabAssumption
<1>1. /\ Arguments /\ left0 \in Nat /\ right0 \in Nat /\ left0 <= right0
      /\ \A k \in Matching : k \in left0 .. right0 /\ stabs[k].n_value \in Int
      /\ Places /\ addr \in 0 .. ADDRS - 1 /\ addr0 \in 0 .. ADDRS - 1
      /\ any_matches \in BOOLEAN
  BY Before
<1>2. UNCHANGED callVars
  BY DEF ExactMatch
<1>3. /\ Arguments' /\ Matching' = Matching /\ AtOrBelow' = AtOrBelow /\ Above' = Above
      /\ NoNeighbour' <=> NoNeighbour
      /\ stabs' = stabs /\ left0' = left0 /\ right0' = right0 /\ addr0' = addr0
  BY <1>1, <1>2, SameCall
<1>4. Narrowing /\ Scanning
  BY DEF IInv, ExactMatch
<1>5. l \in Int /\ r \in Int /\ m \in Int /\ true_m \in l .. r
  BY <1>1, <1>4, Middle DEF Narrowing, Scanning, true_m
<1>6. m \in Matching
  BY <1>1, <1>4, <1>5 DEF ExactMatch, Narrowing, Scanning, Matching, Matches
<1>8. /\ l' = m /\ r' = r /\ pc' = "search" /\ region_left' = m /\ any_matches' = TRUE
      /\ region_right' = region_right /\ addr' = NextAddr(addr) /\ stabs[m].n_value = addr /\ m >= l
  BY DEF ExactMatch
<1>9. addr' \in 0 .. ADDRS - 1
  BY <1>1, <1>8 DEF NextAddr
<1>10. ASSUME NoNeighbour
       PROVE  /\ addr' = addr0 + 1 /\ m \in AtOrBelow
              /\ \A k \in Matching : k < m => stabs[k].n_value <= addr0
  <2>1. addr = addr0 /\ stabs[m].n_value <= addr0
    BY <1>1, <1>4, <1>6, <1>8, <1>10 DEF Narrowing, NoNeighbour
  <2>2. addr' = addr0 + 1
    BY <1>1, <1>8, <1>10, <2>1 DEF NoNeighbour, NextAddr
  <2>3. m \in AtOrBelow
    BY <1>6, <2>1 DEF AtOrBelow
  <2>4. ASSUME NEW k \in Matching, k < m
        PROVE  stabs[k].n_value <= addr0
    <3>1. k \in Int /\ stabs[k].n_value \in Int /\ stabs[m].n_value \in Int
      BY <1>1, <1>6
    <3>2. stabs[k].n_value <= stabs[m].n_value
      BY <1>1, <1>5, <1>6, <2>4, <3>1, Sorted
    <3> QED  BY <1>1, <2>1, <3>1, <3>2
  <2>5. \A k \in Matching : k < m => stabs[k].n_value <= addr0
    BY <2>4
  <2> QED  BY <2>2, <2>3, <2>5
<1>11. l' \in left0' .. right0' + 1 /\ r' \in left0' - 1 .. right0' /\ m \in left0 .. right0
  BY <1>1, <1>3, <1>4, <1>5, <1>6, <1>8 DEF Narrowing
<1>12. Narrowing'
  BY <1>3, <1>4, <1>6, <1>8, <1>10, <1>11 DEF Narrowing
<1>13. BracketsAddress'
  BY <1>2, <1>8, StaysInLoop
<1>14. Places'
  BY <1>1, <1>3, <1>11 DEF ExactMatch, Places
<1> QED  BY <1>1, <1>3, <1>8, <1>9, <1>12, <1>13, <1>14 DEF IInv

\* Nothing was seen, so nothing matches.
LEMMA ReturnEmptyStep == IInv /\ ReturnEmpty => IInv'
<1> SUFFICES ASSUME IInv, ReturnEmpty PROVE IInv'
  OBVIOUS
<1> USE StabAssumption
<1>1. /\ Arguments /\ left0 \in Nat /\ right0 \in Nat /\ left0 <= right0
      /\ \A k \in Matching : k \in left0 .. right0 /\ stabs[k].n_value \in Int
      /\ Places /\ addr \in 0 .. ADDRS - 1 /\ addr0 \in 0 .. ADDRS - 1
      /\ any_matches \in BOOLEAN
  BY Before
<1>2. UNCHANGED callVars
  BY DEF ReturnEmpty
<1>3. /\ Arguments' /\ Matching' = Matching /\ AtOrBelow' = AtOrBelow /\ Above' = Above
      /\ NoNeighbour' <=> NoNeighbour
      /\ stabs' = stabs /\ left0' = left0 /\ right0' = right0 /\ addr0' = addr0
  BY <1>1, <1>2, SameCall
<1>4. Narrowing /\ l > r /\ ~any_matches
  BY DEF IInv, ReturnEmpty
<1>5. Matching = {}
  BY <1>1, <1>4 DEF Narrowing
<1>6. BracketsAddress'
  BY <1>3, <1>5 DEF BracketsAddress, BracketCorrect, EmptyRegionIsHonest, AtOrBelow
<1>7. /\ pc' = "done" /\ UNCHANGED <<region_left, l, r, m, addr, any_matches>>
      /\ region_right' = region_left - 1
  BY DEF ReturnEmpty
<1>8. region_left = left0
  BY <1>4 DEF Narrowing
<1>9. Returned' /\ Places'
  BY <1>1, <1>3, <1>5, <1>7, <1>8 DEF Returned, Places
<1> QED  BY <1>1, <1>3, <1>6, <1>7, <1>9 DEF IInv

\* l has met r: every match is on one side of region_right, the boundary.
LEMMA FromTheRightStep == IInv /\ FromTheRight => IInv'
<1> SUFFICES ASSUME IInv, FromTheRight PROVE IInv'
  OBVIOUS
<1> USE StabAssumption
<1>1. /\ Arguments /\ left0 \in Nat /\ right0 \in Nat /\ left0 <= right0
      /\ \A k \in Matching : k \in left0 .. right0 /\ stabs[k].n_value \in Int
      /\ Places /\ addr \in 0 .. ADDRS - 1 /\ addr0 \in 0 .. ADDRS - 1
      /\ any_matches \in BOOLEAN
  BY Before
<1>2. UNCHANGED callVars
  BY DEF FromTheRight
<1>3. /\ Arguments' /\ Matching' = Matching /\ AtOrBelow' = AtOrBelow /\ Above' = Above
      /\ NoNeighbour' <=> NoNeighbour
      /\ stabs' = stabs /\ left0' = left0 /\ right0' = right0 /\ addr0' = addr0
  BY <1>1, <1>2, SameCall
<1>4. Narrowing /\ l > r /\ Matching # {}
  BY DEF IInv, FromTheRight, Narrowing
<1>5. l' = region_right /\ pc' = "back" /\ UNCHANGED <<region_left, region_right, r, m, addr, any_matches>>
  BY DEF FromTheRight
<1>6. region_right = r /\ l \in Int /\ r \in left0 - 1 .. right0 /\ left0 - 1 \in Int
  BY <1>1, <1>4 DEF Narrowing
<1>7. ASSUME NoNeighbour
      PROVE  /\ \A k \in Matching : stabs[k].n_value <= addr0 <=> k <= r
             /\ region_left \in AtOrBelow \/ (region_left = left0 /\ AtOrBelow = {})
  <2>1. ASSUME NEW k \in Matching
        PROVE  stabs[k].n_value <= addr0 <=> k <= r
    <3>1. CASE k <= r
      BY <1>1, <1>4, <1>6, <1>7, <3>1 DEF Narrowing
    <3>2. CASE k > r
      BY <1>1, <1>4, <1>6, <1>7, <3>2 DEF Narrowing
    <3> QED  BY <1>1, <1>6, <3>1, <3>2
  <2>2. CASE region_left \in AtOrBelow
    BY <2>1, <2>2
  <2>3. CASE region_left = left0 /\ \A k \in Matching : k >= l
    BY <1>1, <1>4, <1>6, <2>1, <2>3 DEF AtOrBelow
  <2> QED  BY <1>4, <1>7, <2>1, <2>2, <2>3 DEF Narrowing
<1>8. GoingBack'
  <2>1. /\ region_right \in left0 - 1 .. region_right /\ region_left >= left0
        /\ left0 \notin Matching => region_right >= left0
        /\ \A k \in Matching : k <= region_right \/ k > region_right
    BY <1>1, <1>4, <1>6 DEF Narrowing
  <2>2. NoNeighbour => region_right = right0 \/ region_right + 1 \in Above
    BY <1>4, <1>6 DEF Narrowing
  <2> QED
    BY <1>3, <1>4, <1>5, <1>6, <1>7, <2>1, <2>2 DEF GoingBack
<1>9. BracketsAddress'
  BY <1>2, <1>5, StaysInLoop
<1>10. Places'
  BY <1>1, <1>3, <1>5, <1>6 DEF Places
<1> QED  BY <1>1, <1>3, <1>5, <1>8, <1>9, <1>10 DEF IInv

\* The way back passes a stab of another type.
LEMMA StepBackStep == IInv /\ StepBack => IInv'
<1> SUFFICES ASSUME IInv, StepBack PROVE IInv'
  OBVIOUS
<1> USE StabAssumption
<1>1. /\ Arguments /\ left0 \in Nat /\ right0 \in Nat /\ left0 <= right0
      /\ \A k \in Matching : k \in left0 .. right0 /\ stabs[k].n_value \in Int
      /\ Places /\ addr \in 0 .. ADDRS - 1 /\ addr0 \in 0 .. ADDRS - 1
      /\ any_matches \in BOOLEAN
  BY Before
<1>2. UNCHANGED callVars
  BY DEF StepBack
<1>3. /\ Arguments' /\ Matching' = Matching /\ AtOrBelow' = AtOrBelow /\ Above' = Above
      /\ NoNeighbour' <=> NoNeighbour
      /\ stabs' = stabs /\ left0' = left0 /\ right0' = right0 /\ addr0' = addr0
  BY <1>1, <1>2, SameCall
<1>4. GoingBack /\ l > region_left
  BY DEF IInv, StepBack
<1>5. l' = l - 1 /\ pc' = "back" /\ UNCHANGED <<region_left, region_right, r, m, addr, any_matches>>
  BY DEF StepBack
<1>6. l \notin Matching
  BY DEF StepBack, Matching, Matches
<1>7. l \in Int /\ region_right \in Int /\ region_left \in Int
  BY <1>1, <1>4 DEF GoingBack, Places
<1>8. \A k \in Matching : k <= l => k <= l - 1
  BY <1>1, <1>6, <1>7
<1>9. l' \in left0' - 1 .. region_right' /\ l' >= region_left'
  BY <1>1, <1>3, <1>4, <1>5, <1>7 DEF GoingBack
<1>10. GoingBack'
  BY <1>3, <1>4, <1>5, <1>8, <1>9 DEF GoingBack
<1>11. BracketsAddress'
  BY <1>2, <1>5, StaysInLoop
<1>12. Places'
  BY <1>1, <1>3, <1>4, <1>5, <1>7 DEF Places, GoingBack
<1> QED  BY <1>1, <1>3, <1>5, <1>10, <1>11, <1>12 DEF IInv

\* The way back ends at the last match before the boundary.
LEMMA ReturnRegionStep == IInv /\ ReturnRegion => IInv'
<1> SUFFICES ASSUME IInv, ReturnRegion PROVE IInv'
  OBVIOUS
<1> USE StabAssumption
<1>1. /\ Arguments /\ left0 \in Nat /\ right0 \in Nat /\ left0 <= right0
      /\ \A k \in Matching : k \in left0 .. right0 /\ stabs[k].n_value \in Int
      /\ Places /\ addr \in 0 .. ADDRS - 1 /\ addr0 \in 0 .. ADDRS - 1
      /\ any_matches \in BOOLEAN
  BY Before
<1>2. UNCHANGED callVars
  BY DEF ReturnRegion
<1>3. /\ Arguments' /\ Matching' = Matching /\ AtOrBelow' = AtOrBelow /\ Above' = Above
      /\ NoNeighbour' <=> NoNeighbour
      /\ stabs' = stabs /\ left0' = left0 /\ right0' = right0 /\ addr0' = addr0
  BY <1>1, <1>2, SameCall
<1>4. GoingBack /\ (l > region_left => Matches(l))
  BY DEF IInv, ReturnRegion
<1>5. region_left' = l /\ pc' = "done" /\ UNCHANGED <<region_right, l, r, m, addr, any_matches>>
  BY DEF ReturnRegion
<1>6. l \in left0 - 1 .. region_right /\ region_right \in left0 - 1 .. right0 /\ l \in Int /\ region_right \in Int
      /\ region_left \in Int
  BY <1>1, <1>4 DEF GoingBack, Places
<1>7. EmptyRegionIsHonest'
  BY <1>5, <1>6 DEF EmptyRegionIsHonest
<1>8. ASSUME NoNeighbour, AtOrBelow # {}
      PROVE  /\ l \in AtOrBelow /\ \A k \in AtOrBelow : k <= l
             /\ \A k \in Above : region_right < k
  <2>1. region_left \in Matching /\ region_left <= region_right
    BY <1>1, <1>4, <1>8 DEF GoingBack, AtOrBelow
  <2>2. l \in Matching
    <3>1. l >= region_left
      BY <1>1, <1>4, <1>6, <2>1 DEF GoingBack
    <3>2. CASE l = region_left
      BY <2>1, <3>2
    <3>3. CASE l > region_left
      <4>1. l \in left0 .. right0
        BY <1>1, <1>4, <1>6, <3>3 DEF GoingBack
      <4> QED  BY <1>4, <3>3, <4>1 DEF Matches, Matching
    <3> QED  BY <1>1, <1>6, <3>1, <3>2, <3>3
  <2>3. \A k \in Matching : stabs[k].n_value <= addr0 <=> k <= region_right
    BY <1>4, <1>8 DEF GoingBack
  <2>4. l \in AtOrBelow
    BY <1>1, <1>6, <2>2, <2>3 DEF AtOrBelow
  <2>5. ASSUME NEW k \in AtOrBelow
        PROVE  k <= l
    BY <1>1, <1>4, <1>6, <1>8, <2>3 DEF GoingBack, AtOrBelow
  <2>6. ASSUME NEW k \in Above
        PROVE  region_right < k
    BY <1>1, <1>6, <2>3 DEF Above
  <2> QED  BY <2>4, <2>5, <2>6
<1>9. NoNeighbour => region_right = right0 \/ region_right + 1 \in Above
  BY <1>4 DEF GoingBack
<1>10. region_right >= l
  BY <1>6
<1>11. BracketsAddress'
  BY <1>3, <1>5, <1>7, <1>8, <1>9, <1>10 DEF BracketsAddress, BracketCorrect
<1>12. ASSUME NoNeighbour, AtOrBelow = {}, left0 \notin Matching
       PROVE  l = left0
  <2>1. region_left = left0 /\ region_right >= left0 /\ \A k \in Matching : ~(k <= region_right)
    BY <1>1, <1>4, <1>12 DEF GoingBack, AtOrBelow
  <2>2. l >= left0
    BY <1>4, <2>1 DEF GoingBack
  <2>3. ASSUME l > left0 PROVE FALSE
    <3>1. l \in Matching
      BY <1>1, <1>4, <1>6, <2>1, <2>3 DEF Matches, Matching
    <3> QED
      BY <1>6, <2>1, <3>1
  <2> QED
    BY <1>1, <1>6, <2>2, <2>3
<1>13. l >= left0 \/ l = region_right
  BY <1>1, <1>4, <1>6 DEF GoingBack
<1>14. left0 \notin Matching => l >= left0
  BY <1>1, <1>4, <1>6 DEF GoingBack
<1>15. Returned'
  <2>1. Matching # {} /\ \A k \in Matching : k <= l \/ k > region_right
    BY <1>4 DEF GoingBack
  <2> QED
    BY <1>3, <1>5, <1>6, <1>10, <1>12, <1>13, <1>14, <2>1 DEF Returned
<1>16. Places'
  BY <1>1, <1>3, <1>5, <1>6 DEF Places
<1> QED  BY <1>1, <1>3, <1>5, <1>11, <1>15, <1>16 DEF IInv

-----------------------------------------------------------------------------
\* No step of the search breaks the invariant.
LEMMA NextIInv == IInv /\ [stab_binsearch]_searchVars => IInv'
<1> SUFFICES ASSUME IInv, [stab_binsearch]_searchVars PROVE IInv'
  OBVIOUS
<1>1. CASE Halve
  BY <1>1, HalveStep
<1>2. CASE Scan
  BY <1>2, ScanStep
<1>3. CASE NoMatch
  BY <1>3, NoMatchStep
<1>4. CASE GoRight
  BY <1>4, GoRightStep
<1>5. CASE GoLeft
  BY <1>5, GoLeftStep
<1>6. CASE ExactMatch
  BY <1>6, ExactMatchStep
<1>7. CASE ReturnEmpty
  BY <1>7, ReturnEmptyStep
<1>8. CASE FromTheRight
  BY <1>8, FromTheRightStep
<1>9. CASE StepBack
  BY <1>9, StepBackStep
<1>10. CASE ReturnRegion
  BY <1>10, ReturnRegionStep
<1>11. CASE UNCHANGED searchVars
  BY <1>11 DEF searchVars, callVars, IInv, Arguments, Places, Narrowing, Scanning, GoingBack, Returned, true_m,
     BracketsAddress, BracketCorrect, EmptyRegionIsHonest, NoNeighbour, AtOrBelow, Above, Matching, Increasing
<1> QED
  BY <1>1, <1>2, <1>3, <1>4, <1>5, <1>6, <1>7, <1>8, <1>9, <1>10, <1>11 DEF stab_binsearch

\* In every table, for every region that is sorted by the type searched for, and every
\* address: what stab_binsearch returns brackets the address, unless a match begins at
\* the next one, and is not empty if there is a match.
THEOREM SearchBrackets == SearchSpec => []BracketsAddress
<1>1. IInv => BracketsAddress
  BY DEF IInv
<1> QED  BY <1>1, InitIInv, NextIInv, PTL DEF SearchSpec

-----------------------------------------------------------------------------
(* debuginfo_eip.                                                          *)

Last == Cardinality(DOMAIN stabs) - 1
Names == {UnknownName} \cup 0 .. StrSize - 1

\* The types, whether a search is going on or not.  A search is one of the three.
SearchTypes ==
  /\ Arguments /\ Places /\ BracketsAddress
  /\ addr \in 0 .. ADDRS - 1 /\ any_matches \in BOOLEAN
  /\ pc \in {"search", "scan", "back", "done"}
KTypes ==
  /\ SearchTypes
  /\ eip \in 0 .. ADDRS - 1
  /\ {lfile, lfun} \subseteq 0 .. Last
  /\ {rfile, rfun} \subseteq -1 .. Last
  /\ lline \in -1 .. Last
  /\ info = [eip_file |-> info.eip_file, eip_line |-> info.eip_line, eip_fn_name |-> info.eip_fn_name,
             eip_fn_addr |-> info.eip_fn_addr, eip_fn_narg |-> info.eip_fn_narg]
  /\ {info.eip_file, info.eip_fn_name} \subseteq Names
  /\ info.eip_fn_addr \in 0 .. ADDRS - 1
  /\ info.eip_fn_narg \in 0 .. Last + 1
  /\ phase \in {"enter", "panicked", "file", "function", "line", "filename", "arguments", "returned"}
  /\ result \in {-1, 0}
  /\ phase \notin {"file", "function", "line"} => pc = "done"

\* What each of the three searches was asked.
Asked(lo, hi, t, a) == left0 = lo /\ right0 = hi /\ type = t /\ addr0 = a
Asking ==
  /\ phase \in {"file", "function", "line"} => IInv
  /\ phase = "file" => Asked(0, Last, "SO", eip)
  /\ phase = "function" => Asked(lfile, rfile, "FUN", eip)
  /\ phase = "line" =>
       IF lfun <= rfun THEN Asked(lfun, rfun, "SLINE", (eip - stabs[lfun].n_value) % ADDRS)
       ELSE Asked(lfile, rfile, "SLINE", eip)

\* The file found: no other begins in it, and it is the one that contains eip.
TheFile ==
  /\ lfile \in 1 .. Last /\ rfile \in lfile .. Last
  /\ Unbroken(stabs, lfile, rfile, {"SO"})
  /\ NothingNext =>
       /\ File = lfile /\ EndOf(stabs, "SO", lfile) = rfile
       /\ rfile = Last \/ stabs[rfile + 1].n_type = "SO"
       /\ stabs[lfile].n_type = "SO" /\ stabs[lfile].n_value <= eip

\* The function found, or none.
NoFunctionYet == info.eip_fn_addr = eip /\ info.eip_fn_name = UnknownName
TheFunction ==
  /\ lfun <= rfun => Unbroken(stabs, lfun, rfun, {"SO", "FUN"})
  /\ NothingNext =>
       IF Function = -1 THEN lfun > rfun /\ NoFunctionYet
       ELSE /\ lfun = Function /\ rfun = EndOf(stabs, "FUN", Function)
            /\ rfun = Last \/ stabs[rfun + 1].n_type \in {"FUN", "SO"}
            /\ lfun \in lfile .. rfile /\ lfun <= rfun
            /\ stabs[lfun].n_type = "FUN" /\ stabs[lfun].n_value <= eip
            /\ info.eip_fn_addr = stabs[lfun].n_value
            /\ info.eip_fn_name = NameOf(stabs[lfun], UnknownName)

\* On the way back from the line found to a stab that names its file.
BackFromLine ==
  NothingNext /\ LineStab # -1 =>
    /\ LineStab \in lfile .. Last /\ lline \in lfile .. LineStab
    /\ \A j \in lline + 1 .. LineStab : stabs[j].n_type \notin {"SO", "SOL"}
TheFileName ==
  NothingNext /\ LineStab # -1 =>
    \E k \in File .. LineStab :
      /\ info.eip_file = NameOf(stabs[k], UnknownName) /\ NamesFile(stabs[k])
      /\ \A j \in k + 1 .. LineStab : stabs[j].n_type \notin {"SO", "SOL"}

\* The stabs passed after the function's own are parameters.
Counting ==
  /\ lfun < rfun /\ lline \in lfun + 1 .. rfun
  /\ info.eip_fn_narg = lline - lfun - 1
  /\ \A k \in lfun + 1 .. lline - 1 : stabs[k].n_type = "PSYM"

KInv ==
  /\ KTypes /\ Asking
  /\ phase \in {"function", "line", "filename", "arguments"} => TheFile
  /\ phase \in {"line", "filename", "arguments"} => TheFunction
  /\ phase \in {"enter", "file", "function"} => NoFunctionYet
  /\ phase \in {"enter", "file", "function", "line", "filename"} =>
       info.eip_file = UnknownName /\ info.eip_fn_narg = 0
  /\ phase # "returned" => result = 0
  /\ phase = "filename" => BackFromLine
  /\ phase = "arguments" => Counting /\ TheFileName
  /\ InfoDescribesEip

-----------------------------------------------------------------------------
\* The remainder of what is smaller than the divisor.
LEMMA SmallMod ==
  ASSUME NEW n \in Nat, n > 0, NEW a \in 0 .. n - 1
  PROVE  a % n = a
<1> DEFINE q == a \div n
<1>1. a = n * q + (a % n) /\ a % n \in 0 .. n - 1 /\ q \in Int
  OBVIOUS
<1>2. CASE q = 0
  BY <1>1, <1>2
<1>3. CASE q >= 1
  <2>1. n * q >= n /\ n * q \in Int
    BY <1>1, <1>3
  <2> HIDE DEF q
  <2> QED  BY <1>1, <2>1
<1>4. CASE q <= -1
  <2>1. n * q <= -n /\ n * q \in Int
    BY <1>1, <1>4
  <2> HIDE DEF q
  <2> QED  BY <1>1, <2>1
<1> QED  BY <1>1, <1>2, <1>3, <1>4

\* A table's stabs are numbered from 0 on, and have their types.
LEMMA TableFacts ==
  stabs \in Tables =>
    /\ Last \in Nat /\ DOMAIN stabs = 0 .. Last /\ Cardinality(DOMAIN stabs) = Last + 1
    /\ \A k \in 0 .. Last : stabs[k].n_value \in 0 .. ADDRS - 1 /\ stabs[k].n_strx \in Nat
<1> SUFFICES ASSUME stabs \in Tables
             PROVE  /\ Last \in Nat /\ DOMAIN stabs = 0 .. Last
                    /\ Cardinality(DOMAIN stabs) = Last + 1
                    /\ \A k \in 0 .. Last : stabs[k].n_value \in 0 .. ADDRS - 1 /\ stabs[k].n_strx \in Nat
  OBVIOUS
<1>1. PICK n \in 1 .. NSTABS : DOMAIN stabs = 0 .. n - 1 /\ \A k \in 0 .. n - 1 : IsStab(stabs[k])
  BY StabAssumption
<1>2. n \in Int /\ n >= 1
  BY StabAssumption
<1>3. Cardinality(0 .. n - 1) = n
  <2>1. Cardinality(0 .. n - 1) = IF 0 > n - 1 THEN 0 ELSE (n - 1) - 0 + 1
    BY <1>2, FS_Interval
  <2> QED  BY <1>2, <2>1
<1>4. Last = n - 1 /\ Last \in Nat /\ DOMAIN stabs = 0 .. Last /\ Cardinality(DOMAIN stabs) = Last + 1
  BY <1>1, <1>2, <1>3 DEF Last
<1>5. \A k \in 0 .. Last : stabs[k].n_value \in 0 .. ADDRS - 1 /\ stabs[k].n_strx \in Nat
  BY <1>1, <1>4, KdebugAssumption DEF IsStab
<1> QED  BY <1>4, <1>5

\* The last stab of a type at or below an address is the one that has none after it.
LEMMA LastOfIs ==
  ASSUME NEW tab, NEW t, NEW a, NEW lo \in Int, NEW hi \in Int, NEW k \in lo .. hi,
         tab[k].n_type = t, tab[k].n_value <= a,
         \A j \in lo .. hi : tab[j].n_type = t /\ tab[j].n_value <= a => j <= k
  PROVE  LastOf(tab, t, a, lo, hi) = k
<1> DEFINE found == {j \in lo .. hi : tab[j].n_type = t /\ tab[j].n_value <= a}
           last == CHOOSE j \in found : \A i \in found : i <= j
<1>1. k \in found /\ \A i \in found : i <= k
  OBVIOUS
<1>2. last \in found /\ \A i \in found : i <= last
  <2> HIDE DEF found
  <2> QED  BY <1>1
<1>3. last \in Int /\ k \in Int
  BY <1>2
<1>4. last = k
  <2> HIDE DEF last, found
  <2> QED  BY <1>1, <1>2, <1>3
<1>5. LastOf(tab, t, a, lo, hi) = last
  BY <1>1 DEF LastOf
<1> QED  BY <1>4, <1>5

\* ... and -1 if there is none.
LEMMA LastOfNone ==
  ASSUME NEW tab, NEW t, NEW a, NEW lo, NEW hi,
         \A j \in lo .. hi : ~(tab[j].n_type = t /\ tab[j].n_value <= a)
  PROVE  LastOf(tab, t, a, lo, hi) = -1
BY DEF LastOf

\* A function or file ends at e if the next one, or the end of the table, is right after e
\* and none is before.
LEMMA EndOfIs ==
  ASSUME NEW tab, NEW n \in Nat, DOMAIN tab = 0 .. n, Cardinality(DOMAIN tab) = n + 1,
         NEW t, NEW k \in 0 .. n, NEW e \in k .. n,
         \A j \in k + 1 .. e : tab[j].n_type \notin {t, "SO"},
         e = n \/ tab[e + 1].n_type \in {t, "SO"}
  PROVE  EndOf(tab, t, k) = e
<1> DEFINE next == {j \in DOMAIN tab : j > k /\ tab[j].n_type \in {t, "SO"}}
           first == CHOOSE j \in next : \A i \in next : j <= i
<1>1. k \in Int /\ e \in Int
  OBVIOUS
<1>2. \A j \in next : j \in Int /\ j > e
  BY <1>1
<1>3. CASE e = n
  <2>1. next = {}
    BY <1>1, <1>2, <1>3
  <2> QED  BY <1>3, <2>1 DEF EndOf
<1>4. CASE e # n
  <2>1. e + 1 \in next
    BY <1>1, <1>4
  <2>2. first \in next /\ \A i \in next : first <= i
    <3>1. e + 1 \in next /\ \A i \in next : e + 1 <= i
      BY <1>1, <1>2, <2>1
    <3> HIDE DEF next
    <3> QED  BY <3>1
  <2>3. first = e + 1
    <3>1. first \in Int /\ first > e /\ first <= e + 1
      BY <1>2, <2>1, <2>2
    <3> HIDE DEF first, next
    <3> QED  BY <1>1, <3>1
  <2>4. EndOf(tab, t, k) = first - 1
    <3>1. next # {}
      BY <2>1
    <3>2. EndOf(tab, t, k) = IF next = {} THEN Cardinality(DOMAIN tab) - 1 ELSE first - 1
      BY DEF EndOf
    <3> HIDE DEF next, first
    <3> QED  BY <3>1, <3>2
  <2> HIDE DEF next, first
  <2> QED  BY <1>1, <2>3, <2>4
<1> QED  BY <1>3, <1>4

\* A call begins a search on what it was asked.
LEMMA CallIInv ==
  ASSUME stabs \in Tables, stabs' = stabs,
         NEW lo \in DOMAIN stabs, NEW hi \in DOMAIN stabs, lo <= hi,
         NEW t \in Types, NEW a \in 0 .. ADDRS - 1, Increasing(stabs, t, lo, hi),
         Call(lo, hi, t, a)
  PROVE  IInv' /\ left0' = lo /\ right0' = hi /\ type' = t /\ addr0' = a
<1>1. SearchInit'
  BY DEF SearchInit, Call
<1>2. SearchInit' => IInv'
  BY InitIInv, PTL
<1> QED  BY <1>1, <1>2 DEF Call

\* What the table says of the address does not change.
LEMMA SameTable ==
  ASSUME UNCHANGED <<stabs, eip>>
  PROVE  /\ Last' = Last /\ File' = File /\ Function' = Function /\ LineStab' = LineStab
         /\ NothingNext' <=> NothingNext
<1>1. Last' = Last /\ File' = File
  BY DEF Last, File
<1>2. Function' = Function
  BY <1>1 DEF Function
<1>3. LineStab' = LineStab
  BY <1>1, <1>2 DEF LineStab
<1>4. NothingNext' <=> NothingNext
  BY <1>2 DEF NothingNext
<1> QED  BY <1>1, <1>2, <1>3, <1>4

\* A step that leaves a search alone.
LEMMA SameSearch ==
  ASSUME UNCHANGED searchVars
  PROVE  /\ stabs' = stabs /\ Arguments' = Arguments /\ Places' = Places
         /\ BracketsAddress' = BracketsAddress
         /\ addr' = addr /\ any_matches' = any_matches /\ pc' = pc
BY DEF searchVars, callVars, Arguments, Places, Increasing, BracketsAddress, BracketCorrect,
   EmptyRegionIsHonest, NoNeighbour, AtOrBelow, Above, Matching

LEMMA SameFile ==
  ASSUME UNCHANGED <<stabs, eip, lfile, rfile>>
  PROVE  TheFile' <=> TheFile
<1>1. Last' = Last /\ File' = File /\ (NothingNext' <=> NothingNext)
  BY SameTable
<1> QED  BY <1>1 DEF TheFile

LEMMA SameFunction ==
  ASSUME UNCHANGED <<stabs, eip, lfile, rfile, lfun, rfun>>,
         info'.eip_fn_addr = info.eip_fn_addr, info'.eip_fn_name = info.eip_fn_name
  PROVE  TheFunction' <=> TheFunction
<1>1. Last' = Last /\ Function' = Function /\ (NothingNext' <=> NothingNext)
  BY SameTable
<1> QED  BY <1>1 DEF TheFunction, NoFunctionYet

\* Before the end nothing is promised of what is told.
LEMMA NotYetTold == phase' # "returned" \/ result' # 0 => InfoDescribesEip'
BY DEF InfoDescribesEip, FunctionContainsEip, FileOfLine, CountsParameters, Found

-----------------------------------------------------------------------------
\* The first search: it begins in the table's header, so it does not return that.
LEMMA FileResult ==
  KInv /\ phase = "file" /\ pc = "done" /\ region_left # 0 =>
    /\ region_left \in 1 .. Last /\ region_right \in region_left .. Last
    /\ Unbroken(stabs, region_left, region_right, {"SO"})
    /\ NothingNext =>
         /\ File = region_left /\ EndOf(stabs, "SO", region_left) = region_right
         /\ region_right = Last \/ stabs[region_right + 1].n_type = "SO"
         /\ stabs[region_left].n_type = "SO" /\ stabs[region_left].n_value <= eip
<1> SUFFICES ASSUME KInv, phase = "file", pc = "done", region_left # 0
             PROVE  /\ region_left \in 1 .. Last /\ region_right \in region_left .. Last
                    /\ Unbroken(stabs, region_left, region_right, {"SO"})
                    /\ NothingNext =>
                         /\ File = region_left /\ EndOf(stabs, "SO", region_left) = region_right
                         /\ region_right = Last \/ stabs[region_right + 1].n_type = "SO"
                         /\ stabs[region_left].n_type = "SO" /\ stabs[region_left].n_value <= eip
  OBVIOUS
<1>1. /\ IInv /\ Places /\ Returned /\ BracketsAddress /\ stabs \in Tables /\ eip \in 0 .. ADDRS - 1
      /\ left0 = 0 /\ right0 = Last /\ type = "SO" /\ addr0 = eip
  BY DEF KInv, KTypes, SearchTypes, Asking, Asked, IInv, Arguments
<1>2. /\ Last \in Nat /\ DOMAIN stabs = 0 .. Last /\ Cardinality(DOMAIN stabs) = Last + 1
      /\ \A k \in 0 .. Last : stabs[k].n_value \in 0 .. ADDRS - 1
  BY <1>1, TableFacts
<1>3. Matching = {k \in 0 .. Last : stabs[k].n_type = "SO"}
  BY <1>1 DEF Matching
<1>4. 0 \notin Matching
  BY <1>1, <1>3, LayoutAssumption DEF LaidOut
<1>5. region_left \in 1 .. Last /\ region_right \in region_left .. Last
  BY <1>1, <1>2, <1>4 DEF Returned, Places
<1>6. Unbroken(stabs, region_left, region_right, {"SO"})
  <2>1. ASSUME NEW n \in region_left + 1 .. region_right
        PROVE  stabs[n].n_type # "SO"
    <3>1. n \in 0 .. Last /\ n \notin Matching
      BY <1>1, <1>2, <1>5 DEF Returned
    <3> QED  BY <1>3, <3>1
  <2> QED  BY <2>1 DEF Unbroken
<1>7. ASSUME NothingNext
      PROVE  /\ File = region_left /\ EndOf(stabs, "SO", region_left) = region_right
             /\ region_right = Last \/ stabs[region_right + 1].n_type = "SO"
             /\ stabs[region_left].n_type = "SO" /\ stabs[region_left].n_value <= eip
  <2>1. NoNeighbour
    <3>1. ASSUME NEW k \in Matching
          PROVE  stabs[k].n_value # eip + 1
      <4>1. k \in DOMAIN stabs /\ stabs[k].n_type = "SO"
        BY <1>2, <1>3
      <4> QED  BY <1>7, <4>1 DEF NothingNext
    <3> QED  BY <1>1, <1>7, <3>1 DEF NoNeighbour, NothingNext
  <2>2. AtOrBelow # {}
    BY <1>1, <1>4, <1>5, <2>1 DEF Returned
  <2>3. /\ region_left \in AtOrBelow /\ \A k \in AtOrBelow : k <= region_left
        /\ region_right = Last \/ region_right + 1 \in Above
    BY <1>1, <2>1, <2>2 DEF BracketsAddress, BracketCorrect
  <2>4. region_left \in 0 .. Last /\ stabs[region_left].n_type = "SO" /\ stabs[region_left].n_value <= eip
    BY <1>1, <1>3, <2>3 DEF AtOrBelow
  <2>5. File = region_left
    <3>1. \A j \in 0 .. Last : stabs[j].n_type = "SO" /\ stabs[j].n_value <= eip => j <= region_left
      BY <1>1, <1>3, <2>3 DEF AtOrBelow
    <3>2. 0 \in Int /\ Last \in Int
      BY <1>2
    <3>3. LastOf(stabs, "SO", eip, 0, Last) = region_left
      BY <2>4, <3>1, <3>2, LastOfIs
    <3> QED  BY <3>3 DEF File, Last
  <2>6. region_right = Last \/ stabs[region_right + 1].n_type = "SO"
    BY <1>3, <2>3 DEF Above
  <2>7. \A j \in region_left + 1 .. region_right : stabs[j].n_type \notin {"SO", "SO"}
    BY <1>6 DEF Unbroken
  <2>8. EndOf(stabs, "SO", region_left) = region_right
    BY <1>2, <1>5, <2>4, <2>6, <2>7, EndOfIs
  <2> QED  BY <2>4, <2>5, <2>6, <2>8
<1> QED  BY <1>5, <1>6, <1>7

\* The second, in the file found: if there is no function at or below the address, there
\* is none in the file, since a file's first function is where the file begins.
LEMMA FunctionResult ==
  KInv /\ phase = "function" /\ pc = "done" =>
    /\ region_left \in 0 .. Last /\ region_right \in -1 .. Last
    /\ region_left <= region_right => Unbroken(stabs, region_left, region_right, {"SO", "FUN"})
    /\ region_left > region_right => Unbroken(stabs, lfile, rfile, {"SO", "FUN"})
    /\ NothingNext =>
         IF Function = -1 THEN region_left > region_right
         ELSE /\ region_left = Function /\ region_right = EndOf(stabs, "FUN", Function)
              /\ region_right = Last \/ stabs[region_right + 1].n_type \in {"FUN", "SO"}
              /\ region_left \in lfile .. rfile /\ region_left <= region_right
              /\ stabs[region_left].n_type = "FUN" /\ stabs[region_left].n_value <= eip
<1> SUFFICES ASSUME KInv, phase = "function", pc = "done"
             PROVE  /\ region_left \in 0 .. Last /\ region_right \in -1 .. Last
                    /\ region_left <= region_right =>
                         Unbroken(stabs, region_left, region_right, {"SO", "FUN"})
                    /\ region_left > region_right => Unbroken(stabs, lfile, rfile, {"SO", "FUN"})
                    /\ NothingNext =>
                         IF Function = -1 THEN region_left > region_right
                         ELSE /\ region_left = Function /\ region_right = EndOf(stabs, "FUN", Function)
                              /\ region_right = Last \/ stabs[region_right + 1].n_type \in {"FUN", "SO"}
                              /\ region_left \in lfile .. rfile /\ region_left <= region_right
                              /\ stabs[region_left].n_type = "FUN" /\ stabs[region_left].n_value <= eip
  OBVIOUS
<1>1. /\ IInv /\ Places /\ Returned /\ BracketsAddress /\ stabs \in Tables /\ eip \in 0 .. ADDRS - 1
      /\ left0 = lfile /\ right0 = rfile /\ type = "FUN" /\ addr0 = eip
  BY DEF KInv, KTypes, SearchTypes, Asking, Asked, IInv, Arguments
<1>2. /\ Last \in Nat /\ DOMAIN stabs = 0 .. Last /\ Cardinality(DOMAIN stabs) = Last + 1
      /\ \A k \in 0 .. Last : stabs[k].n_value \in 0 .. ADDRS - 1
  BY <1>1, TableFacts
<1>3. TheFile /\ lfile \in 1 .. Last /\ rfile \in lfile .. Last
      /\ \A n \in lfile + 1 .. rfile : stabs[n].n_type # "SO"
  BY DEF KInv, TheFile, Unbroken
<1>4. Matching = {k \in lfile .. rfile : stabs[k].n_type = "FUN"}
  BY <1>1 DEF Matching
<1>5. region_left \in 0 .. Last /\ region_right \in -1 .. Last
  BY <1>1, <1>2, <1>3 DEF Places
<1>6. ASSUME region_left <= region_right
      PROVE  Unbroken(stabs, region_left, region_right, {"SO", "FUN"})
  <2>1. ASSUME NEW n \in region_left + 1 .. region_right
        PROVE  stabs[n].n_type \notin {"SO", "FUN"}
    <3>1. n \in lfile + 1 .. rfile /\ n \notin Matching
      BY <1>1, <1>2, <1>3, <1>5, <1>6 DEF Returned, Places
    <3> QED  BY <1>3, <1>4, <3>1
  <2> QED  BY <2>1 DEF Unbroken
<1>7. ASSUME region_left > region_right
      PROVE  Unbroken(stabs, lfile, rfile, {"SO", "FUN"})
  <2>1. Matching = {}
    BY <1>1, <1>7 DEF BracketsAddress, EmptyRegionIsHonest
  <2>2. \A n \in lfile + 1 .. rfile : stabs[n].n_type # "FUN"
    BY <1>3, <1>4, <2>1
  <2> QED  BY <1>3, <2>2 DEF Unbroken
<1>8. ASSUME NothingNext
      PROVE  IF Function = -1 THEN region_left > region_right
             ELSE /\ region_left = Function /\ region_right = EndOf(stabs, "FUN", Function)
                  /\ region_right = Last \/ stabs[region_right + 1].n_type \in {"FUN", "SO"}
                  /\ region_left \in lfile .. rfile /\ region_left <= region_right
                  /\ stabs[region_left].n_type = "FUN" /\ stabs[region_left].n_value <= eip
  <2>1. NoNeighbour
    <3>1. ASSUME NEW k \in Matching
          PROVE  stabs[k].n_value # eip + 1
      <4>1. k \in DOMAIN stabs /\ stabs[k].n_type = "FUN"
        BY <1>2, <1>3, <1>4
      <4> QED  BY <1>8, <4>1 DEF NothingNext
    <3> QED  BY <1>1, <1>8, <3>1 DEF NoNeighbour, NothingNext
  <2>2. Function = LastOf(stabs, "FUN", eip, lfile, rfile)
        /\ EndOf(stabs, "SO", lfile) = rfile /\ stabs[lfile].n_type = "SO" /\ stabs[lfile].n_value <= eip
    BY <1>3, <1>8 DEF TheFile, Function
  <2>3. CASE AtOrBelow = {}
    <3>1. \A j \in lfile .. rfile : ~(stabs[j].n_type = "FUN" /\ stabs[j].n_value <= eip)
      BY <1>1, <1>4, <2>3 DEF AtOrBelow
    <3>2. Function = -1
      BY <2>2, <3>1, LastOfNone
    <3>3. ASSUME NEW k \in Matching PROVE FALSE
      <4>1. k \in lfile + 1 .. rfile /\ stabs[k].n_type = "FUN"
        BY <1>3, <1>4, <2>2
      <4>2. Unbroken(stabs, lfile, k, {"SO"})
        BY <1>3, <4>1 DEF Unbroken
      <4>3. PICK n \in lfile + 1 .. k : stabs[n].n_type = "FUN" /\ stabs[n].n_value = stabs[lfile].n_value
        <5>1. LaidOut(stabs) /\ lfile \in DOMAIN stabs /\ k \in DOMAIN stabs /\ lfile < k
          BY <1>1, <1>2, <1>3, <4>1, LayoutAssumption
        <5> QED  BY <2>2, <4>1, <4>2, <5>1 DEF LaidOut
      <4> QED  BY <1>3, <2>2, <3>1, <4>1, <4>3
    <3>4. Matching = {}
      BY <3>3
    <3>5. region_left > region_right
      BY <1>1, <3>4 DEF Returned
    <3> QED  BY <3>2, <3>5
  <2>4. CASE AtOrBelow # {}
    <3>1. /\ region_left \in AtOrBelow /\ \A k \in AtOrBelow : k <= region_left
          /\ region_right >= region_left
          /\ region_right = rfile \/ region_right + 1 \in Above
      BY <1>1, <2>1, <2>4 DEF BracketsAddress, BracketCorrect
    <3>2. /\ region_left \in lfile .. rfile /\ stabs[region_left].n_type = "FUN"
          /\ stabs[region_left].n_value <= eip /\ region_left # -1
      BY <1>1, <1>3, <1>4, <3>1 DEF AtOrBelow
    <3>3. Function = region_left
      <4>1. \A j \in lfile .. rfile : stabs[j].n_type = "FUN" /\ stabs[j].n_value <= eip => j <= region_left
        BY <1>1, <1>4, <3>1 DEF AtOrBelow
      <4>2. lfile \in Int /\ rfile \in Int
        BY <1>2, <1>3
      <4>3. LastOf(stabs, "FUN", eip, lfile, rfile) = region_left
        BY <3>2, <4>1, <4>2, LastOfIs
      <4> QED  BY <2>2, <4>3
    <3>4. region_right \in region_left .. Last
      BY <1>1, <1>2, <1>3, <3>1, <3>2 DEF Places
    <3>5. \A j \in region_left + 1 .. region_right : stabs[j].n_type \notin {"FUN", "SO"}
      BY <1>6, <3>1 DEF Unbroken
    <3>6. region_right = Last \/ stabs[region_right + 1].n_type \in {"FUN", "SO"}
      <4>1. CASE region_right + 1 \in Above
        BY <1>4, <4>1 DEF Above
      <4>2. CASE region_right = rfile /\ rfile # Last
        BY <1>3, <1>8, <4>2 DEF TheFile
      <4> QED  BY <3>1, <4>1, <4>2
    <3>7. EndOf(stabs, "FUN", region_left) = region_right
      BY <1>2, <1>5, <3>4, <3>5, <3>6, EndOfIs
    <3> QED  BY <3>1, <3>2, <3>3, <3>6, <3>7
  <2> QED  BY <2>3, <2>4
<1> QED  BY <1>5, <1>6, <1>7, <1>8

\* The third, in the function found or, without one, in the file.
LEMMA LineResult ==
  KInv /\ phase = "line" /\ pc = "done" =>
    /\ region_left \in -1 .. Last
    /\ NothingNext /\ LineStab # -1 => region_left = LineStab /\ LineStab \in lfile .. Last
<1> SUFFICES ASSUME KInv, phase = "line", pc = "done"
             PROVE  /\ region_left \in -1 .. Last
                    /\ NothingNext /\ LineStab # -1 => region_left = LineStab /\ LineStab \in lfile .. Last
  OBVIOUS
<1>1. /\ IInv /\ Places /\ Arguments /\ BracketsAddress /\ stabs \in Tables /\ eip \in 0 .. ADDRS - 1
      /\ left0 \in DOMAIN stabs /\ right0 \in DOMAIN stabs /\ type = "SLINE"
      /\ addr0 \in 0 .. ADDRS - 1
  BY DEF KInv, KTypes, SearchTypes, Asking, Asked, IInv, Arguments
<1>2. /\ Last \in Nat /\ DOMAIN stabs = 0 .. Last /\ Cardinality(DOMAIN stabs) = Last + 1
      /\ \A k \in 0 .. Last : stabs[k].n_value \in 0 .. ADDRS - 1
  BY <1>1, TableFacts
<1>3. TheFile /\ TheFunction /\ lfile \in 1 .. Last
  BY DEF KInv, TheFile
<1>4. region_left \in -1 .. Last
  BY <1>1, <1>2 DEF Places
<1>5. ASSUME NothingNext, LineStab # -1
      PROVE  region_left = LineStab /\ LineStab \in lfile .. Last
  <2> DEFINE first == IF Function = -1 THEN eip ELSE eip - stabs[Function].n_value
  <2>1. /\ first = addr0 /\ first <= eip /\ left0 \in lfile .. Last
        /\ LineStab = LastOf(stabs, "SLINE", addr0, left0, right0)
    <3>1. CASE Function = -1
      <4>1. left0 = lfile /\ right0 = rfile /\ addr0 = eip
        <5>1. lfun > rfun
          BY <1>3, <1>5, <3>1 DEF TheFunction
        <5>2. lfun \in Int /\ rfun \in Int
          BY <1>2 DEF KInv, KTypes
        <5> QED  BY <5>1, <5>2 DEF KInv, Asking, Asked
      <4>2. File = lfile /\ EndOf(stabs, "SO", lfile) = rfile
        BY <1>3, <1>5 DEF TheFile
      <4> QED  BY <1>1, <1>2, <1>3, <3>1, <4>1, <4>2 DEF LineStab
    <3>2. CASE Function # -1
      <4>1. /\ lfun = Function /\ rfun = EndOf(stabs, "FUN", Function)
            /\ lfun \in lfile .. rfile /\ lfun <= rfun /\ stabs[lfun].n_value <= eip
        BY <1>3, <1>5, <3>2 DEF TheFunction
      <4>2. left0 = lfun /\ right0 = rfun /\ addr0 = (eip - stabs[lfun].n_value) % ADDRS
        BY <4>1 DEF KInv, Asking, Asked
      <4>3. lfun \in 0 .. Last /\ stabs[lfun].n_value \in 0 .. ADDRS - 1
        BY <1>1, <1>2, <4>2
      <4>4. (eip - stabs[lfun].n_value) % ADDRS = eip - stabs[lfun].n_value
        <5>1. eip - stabs[lfun].n_value \in 0 .. ADDRS - 1
          BY <1>1, <4>1, <4>3, StabAssumption
        <5> QED  BY <5>1, StabAssumption, SmallMod
      <4>5. first = addr0 /\ first <= eip
        <5>1. first = eip - stabs[lfun].n_value
          BY <3>2, <4>1
        <5>2. addr0 = eip - stabs[lfun].n_value
          BY <4>2, <4>4
        <5>3. eip - stabs[lfun].n_value <= eip
          BY <1>1, <4>3, StabAssumption
        <5> QED  BY <5>1, <5>2, <5>3
      <4>6. left0 \in lfile .. Last
        BY <1>1, <1>2, <1>3, <4>1, <4>2
      <4>7. LineStab = LastOf(stabs, "SLINE", addr0, left0, right0)
        BY <3>2, <4>1, <4>2, <4>4 DEF LineStab
      <4> QED  BY <4>5, <4>6, <4>7
    <3> QED  BY <3>1, <3>2
  <2>2. NoNeighbour
    <3>1. ASSUME NEW k \in Matching
          PROVE  stabs[k].n_value # addr0 + 1
      <4>1. k \in DOMAIN stabs /\ stabs[k].n_type = "SLINE"
        BY <1>1, <1>2 DEF Matching
      <4>2. stabs[k].n_value # first + 1
        BY <1>5, <4>1 DEF NothingNext
      <4> HIDE DEF first
      <4> QED  BY <2>1, <4>2
    <3>2. addr0 < ADDRS - 1
      <4>1. eip < ADDRS - 1
        BY <1>5 DEF NothingNext
      <4>2. addr0 <= eip
        BY <2>1
      <4> QED  BY <1>1, <4>1, <4>2, StabAssumption
    <3> QED  BY <3>1, <3>2 DEF NoNeighbour
  <2>3. AtOrBelow # {}
    <3>1. ASSUME AtOrBelow = {} PROVE FALSE
      <4>1. \A j \in left0 .. right0 : ~(stabs[j].n_type = "SLINE" /\ stabs[j].n_value <= addr0)
        BY <1>1, <3>1 DEF AtOrBelow, Matching
      <4>2. LastOf(stabs, "SLINE", addr0, left0, right0) = -1
        BY <4>1, LastOfNone
      <4> QED  BY <1>5, <2>1, <4>2
    <3> QED  BY <3>1
  <2>4. region_left \in AtOrBelow /\ \A k \in AtOrBelow : k <= region_left
    BY <1>1, <2>2, <2>3 DEF BracketsAddress, BracketCorrect
  <2>5. /\ region_left \in left0 .. right0 /\ left0 \in Int /\ right0 \in Int
        /\ stabs[region_left].n_type = "SLINE" /\ stabs[region_left].n_value <= addr0
    BY <1>1, <1>2, <2>4 DEF AtOrBelow, Matching
  <2>6. \A j \in left0 .. right0 : stabs[j].n_type = "SLINE" /\ stabs[j].n_value <= addr0 => j <= region_left
    BY <1>1, <2>4 DEF AtOrBelow, Matching
  <2>7. LastOf(stabs, "SLINE", addr0, left0, right0) = region_left
    BY <2>5, <2>6, LastOfIs
  <2> QED  BY <1>2, <1>3, <1>4, <2>1, <2>5, <2>7
<1> QED  BY <1>4, <1>5

-----------------------------------------------------------------------------
(* The steps.                                                              *)

\* At the call of debuginfo_eip nothing is known.
LEMMA InitKInv == Init => KInv
<1> SUFFICES ASSUME Init PROVE KInv
  OBVIOUS
<1>1. stabs \in Tables /\ eip \in 0 .. ADDRS - 1
  BY DEF Init
<1>2. Last \in Nat /\ DOMAIN stabs = 0 .. Last
  BY <1>1, TableFacts
<1>3. KTypes
  <2>1. Arguments
    <3>1. Increasing(stabs, type, 0, 0)
      BY DEF Increasing
    <3> QED  BY <1>1, <1>2, <3>1, StabAssumption DEF Init, Arguments
  <2>2. Places
    BY DEF Init, Places
  <2>3. info = [eip_file |-> UnknownName, eip_line |-> 0, eip_fn_name |-> UnknownName,
                eip_fn_addr |-> eip, eip_fn_narg |-> 0]
    BY DEF Init
  <2>5. BracketsAddress
    <3>1. Matching = {}
      BY <1>1, LayoutAssumption DEF Init, Matching, LaidOut
    <3> QED  BY <3>1 DEF BracketsAddress, BracketCorrect, EmptyRegionIsHonest, AtOrBelow
  <2>4. any_matches \in BOOLEAN /\ pc = "done" /\ phase = "enter" /\ result = 0
        /\ lfile = 0 /\ rfile = 0 /\ lfun = 0 /\ rfun = 0 /\ lline = 0 /\ addr = 0
    BY DEF Init
  <2> QED
    BY <1>1, <1>2, <2>1, <2>2, <2>3, <2>4, <2>5, StabAssumption, KdebugAssumption DEF KTypes, SearchTypes, Names
<1>4. phase = "enter" /\ result = 0 /\ InfoDescribesEip
  BY DEF Init, InfoDescribesEip, FunctionContainsEip, FileOfLine, CountsParameters, Found
<1>5. NoFunctionYet /\ info.eip_file = UnknownName /\ info.eip_fn_narg = 0
  BY DEF Init, NoFunctionYet
<1> QED  BY <1>3, <1>4, <1>5 DEF KInv, Asking

\* The address is refused, or the table's strings are not sound: the end.
LEMMA RefusedStep == KInv /\ (UserAddress \/ BadStrings) => KInv'
<1> SUFFICES ASSUME KInv, UserAddress \/ BadStrings PROVE KInv'
  OBVIOUS
<1>1. /\ UNCHANGED <<searchVars, eip, regionVars, info>> /\ pc = "done"
      /\ (phase' = "panicked" /\ result' = result) \/ (phase' = "returned" /\ result' = -1)
      /\ KTypes /\ result = 0
  BY DEF UserAddress, BadStrings, Return, KInv, KTypes
<1>2. Last' = Last
  BY <1>1, SameTable DEF searchVars, callVars
<1>3. SearchTypes'
  BY <1>1, SameSearch DEF KTypes, SearchTypes
<1>4. KTypes'
  BY <1>1, <1>2, <1>3 DEF KTypes, regionVars, searchVars
<1>5. InfoDescribesEip'
  BY <1>1, NotYetTold
<1> QED  BY <1>1, <1>4, <1>5 DEF KInv, Asking

\* The file is searched for in the whole table, which is sorted by files.
LEMMA SearchFileStep == KInv /\ SearchFile => KInv'
<1> SUFFICES ASSUME KInv, SearchFile PROVE KInv'
  OBVIOUS
<1>1. /\ UNCHANGED <<stabs, eip, regionVars, info, result>> /\ phase' = "file"
      /\ Call(0, Last, "SO", eip) /\ KTypes /\ stabs \in Tables
      /\ NoFunctionYet /\ info.eip_file = UnknownName /\ info.eip_fn_narg = 0 /\ result = 0
  BY DEF SearchFile, Last, inputs, KInv, KTypes, SearchTypes, Arguments
<1>2. Last \in Nat /\ DOMAIN stabs = 0 .. Last
  BY <1>1, TableFacts
<1>3. 0 \in DOMAIN stabs /\ Last \in DOMAIN stabs /\ 0 <= Last /\ Increasing(stabs, "SO", 0, Last)
  BY <1>1, <1>2, LayoutAssumption DEF LaidOut
<1>4. IInv' /\ left0' = 0 /\ right0' = Last /\ type' = "SO" /\ addr0' = eip
  BY <1>1, <1>3, CallIInv, KdebugAssumption DEF KTypes
<1>5. Last' = Last
  BY <1>1, SameTable
<1>6. KTypes'
  BY <1>1, <1>4, <1>5 DEF KTypes, SearchTypes, IInv, regionVars
<1>7. Asking'
  BY <1>1, <1>4, <1>5 DEF Asking, Asked
<1>8. InfoDescribesEip'
  BY <1>1, NotYetTold
<1>9. NoFunctionYet'
  BY <1>1 DEF NoFunctionYet
<1> QED  BY <1>1, <1>6, <1>7, <1>8, <1>9 DEF KInv

\* A step of a search.
LEMMA SearchingStep == KInv /\ Searching => KInv'
<1> SUFFICES ASSUME KInv, Searching PROVE KInv'
  OBVIOUS
<1>1. /\ UNCHANGED <<eip, regionVars, info, phase, result>> /\ stab_binsearch
      /\ phase \in {"file", "function", "line"} /\ IInv /\ KTypes
  BY DEF Searching, KInv, Asking
<1>2. UNCHANGED callVars
  BY <1>1 DEF stab_binsearch, Halve, Scan, NoMatch, GoRight, GoLeft, ExactMatch, ReturnEmpty,
     FromTheRight, StepBack, ReturnRegion
<1>3. IInv'
  BY <1>1, NextIInv
<1>4. Last' = Last
  BY <1>1, <1>2, SameTable DEF callVars
<1>5. KTypes'
  BY <1>1, <1>3, <1>4 DEF KTypes, SearchTypes, IInv, regionVars
<1>6. Asking'
  BY <1>1, <1>2, <1>3, <1>4 DEF KInv, Asking, Asked, callVars, regionVars
<1>7. InfoDescribesEip'
  BY <1>1, NotYetTold
<1>8. (TheFile' <=> TheFile) /\ (TheFunction' <=> TheFunction) /\ (NoFunctionYet' <=> NoFunctionYet)
  BY <1>1, <1>2, SameFile, SameFunction DEF callVars, regionVars, NoFunctionYet
<1> QED  BY <1>1, <1>5, <1>6, <1>7, <1>8 DEF KInv

\* No file: -1 is returned.
LEMMA NoFileStep == KInv /\ NoFile => KInv'
<1> SUFFICES ASSUME KInv, NoFile PROVE KInv'
  OBVIOUS
<1>1. /\ UNCHANGED <<searchVars, eip, lfun, rfun, lline, info>> /\ pc = "done"
      /\ phase' = "returned" /\ result' = -1 /\ region_left = 0
      /\ lfile' = region_left /\ rfile' = region_right
      /\ KTypes /\ IInv /\ Places /\ left0 = 0 /\ right0 = Last /\ stabs \in Tables
  BY DEF NoFile, Return, KInv, KTypes, Asking, Asked, IInv, Arguments
<1>2. Last' = Last /\ Last \in Nat
  BY <1>1, SameTable, TableFacts DEF searchVars, callVars
<1>3. SearchTypes'
  BY <1>1, SameSearch DEF KTypes, SearchTypes
<1>4. pc' = "done"
  BY <1>1 DEF searchVars
<1>5. {lfile, lfun}' \subseteq 0 .. Last /\ {rfile, rfun}' \subseteq -1 .. Last
  BY <1>1, <1>2 DEF KTypes, Places
<1>6. KTypes'
  BY <1>1, <1>2, <1>3, <1>4, <1>5 DEF KTypes
<1>7. InfoDescribesEip'
  BY <1>1, NotYetTold
<1> QED  BY <1>1, <1>6, <1>7 DEF KInv, Asking

\* The file is known, and the function is searched for in it.
LEMMA FileFoundStep == KInv /\ FileFound => KInv'
<1> SUFFICES ASSUME KInv, FileFound PROVE KInv'
  OBVIOUS
<1>1. /\ UNCHANGED <<stabs, eip, lfun, rfun, lline, info, result>>
      /\ phase = "file" /\ phase' = "function" /\ pc = "done" /\ region_left # 0
      /\ lfile' = region_left /\ rfile' = region_right
      /\ Call(region_left, region_right, "FUN", eip) /\ KTypes /\ stabs \in Tables
      /\ NoFunctionYet /\ info.eip_file = UnknownName /\ info.eip_fn_narg = 0 /\ result = 0
  BY DEF FileFound, inputs, KInv, KTypes, SearchTypes, Arguments
<1>2. Last \in Nat /\ DOMAIN stabs = 0 .. Last
  BY <1>1, TableFacts
<1>3. /\ region_left \in 1 .. Last /\ region_right \in region_left .. Last
      /\ Unbroken(stabs, region_left, region_right, {"SO"})
      /\ NothingNext =>
           /\ File = region_left /\ EndOf(stabs, "SO", region_left) = region_right
           /\ region_right = Last \/ stabs[region_right + 1].n_type = "SO"
           /\ stabs[region_left].n_type = "SO" /\ stabs[region_left].n_value <= eip
  BY <1>1, FileResult
<1>4. /\ region_left \in DOMAIN stabs /\ region_right \in DOMAIN stabs /\ region_left <= region_right
      /\ Increasing(stabs, "FUN", region_left, region_right)
  <2>1. region_left \in DOMAIN stabs /\ region_right \in DOMAIN stabs /\ region_left <= region_right
    BY <1>2, <1>3
  <2>2. LaidOut(stabs)
    BY <1>1, LayoutAssumption
  <2> QED  BY <1>3, <2>1, <2>2 DEF LaidOut
<1>5. IInv' /\ left0' = region_left /\ right0' = region_right /\ type' = "FUN" /\ addr0' = eip
  BY <1>1, <1>4, CallIInv, KdebugAssumption DEF KTypes
<1>6. Last' = Last /\ File' = File /\ (NothingNext' <=> NothingNext)
  BY <1>1, SameTable
<1>7. {lfile, lfun}' \subseteq 0 .. Last /\ {rfile, rfun}' \subseteq -1 .. Last
  BY <1>1, <1>2, <1>3 DEF KTypes
<1>8. KTypes'
  BY <1>1, <1>5, <1>6, <1>7 DEF KTypes, SearchTypes, IInv
<1>9. Asking'
  BY <1>1, <1>5 DEF Asking, Asked
<1>10. TheFile'
  BY <1>1, <1>3, <1>6 DEF TheFile
<1>11. NoFunctionYet' /\ InfoDescribesEip'
  BY <1>1, NotYetTold DEF NoFunctionYet
<1> QED  BY <1>1, <1>8, <1>9, <1>10, <1>11 DEF KInv

\* A name told is an offset in the string table.
LEMMA NameInTable ==
  ASSUME NEW s, s.n_strx \in Nat, NEW d \in Names
  PROVE  NameOf(s, d) \in Names
BY KdebugAssumption DEF NameOf, Names

\* The function is known, and the line is searched for in it.
LEMMA FunctionFoundStep == KInv /\ FunctionFound => KInv'
<1> SUFFICES ASSUME KInv, FunctionFound PROVE KInv'
  OBVIOUS
<1> DEFINE fun == stabs[region_left]
           offset == (eip - fun.n_value) % ADDRS
<1>1. /\ UNCHANGED <<stabs, eip, lfile, rfile, lline, result>>
      /\ phase = "function" /\ phase' = "line" /\ pc = "done" /\ region_left <= region_right
      /\ lfun' = region_left /\ rfun' = region_right
      /\ info' = [info EXCEPT !.eip_fn_name = NameOf(fun, @), !.eip_fn_addr = fun.n_value]
      /\ Call(region_left, region_right, "SLINE", offset)
  BY DEF FunctionFound, inputs
<1>2. /\ KTypes /\ stabs \in Tables /\ eip \in 0 .. ADDRS - 1 /\ TheFile
      /\ NoFunctionYet /\ info.eip_file = UnknownName /\ info.eip_fn_narg = 0 /\ result = 0
  BY <1>1 DEF KInv, KTypes, SearchTypes, Arguments
<1>3. /\ Last \in Nat /\ DOMAIN stabs = 0 .. Last
      /\ \A k \in 0 .. Last : stabs[k].n_value \in 0 .. ADDRS - 1 /\ stabs[k].n_strx \in Nat
  BY <1>2, TableFacts
<1>4. /\ region_left \in 0 .. Last /\ region_right \in -1 .. Last
      /\ Unbroken(stabs, region_left, region_right, {"SO", "FUN"})
      /\ NothingNext =>
           IF Function = -1 THEN region_left > region_right
           ELSE /\ region_left = Function /\ region_right = EndOf(stabs, "FUN", Function)
                /\ region_right = Last \/ stabs[region_right + 1].n_type \in {"FUN", "SO"}
                /\ region_left \in lfile .. rfile /\ region_left <= region_right
                /\ stabs[region_left].n_type = "FUN" /\ stabs[region_left].n_value <= eip
  BY <1>1, FunctionResult
<1>5. /\ region_left \in DOMAIN stabs /\ region_right \in DOMAIN stabs
      /\ Increasing(stabs, "SLINE", region_left, region_right)
  BY <1>1, <1>2, <1>3, <1>4, LayoutAssumption DEF LaidOut
<1>6. fun.n_value \in 0 .. ADDRS - 1 /\ fun.n_strx \in Nat /\ offset \in 0 .. ADDRS - 1
  BY <1>2, <1>3, <1>4, StabAssumption
<1>7. IInv' /\ left0' = region_left /\ right0' = region_right /\ type' = "SLINE" /\ addr0' = offset
  <2> HIDE DEF offset
  <2> QED  BY <1>1, <1>2, <1>5, <1>6, CallIInv, KdebugAssumption
<1>8. /\ Last' = Last /\ File' = File /\ Function' = Function /\ (NothingNext' <=> NothingNext)
      /\ (TheFile' <=> TheFile)
  BY <1>1, SameTable, SameFile
<1>9. /\ info' = [eip_file |-> info'.eip_file, eip_line |-> info'.eip_line,
                  eip_fn_name |-> info'.eip_fn_name, eip_fn_addr |-> info'.eip_fn_addr,
                  eip_fn_narg |-> info'.eip_fn_narg]
      /\ info'.eip_file = info.eip_file /\ info'.eip_fn_narg = info.eip_fn_narg
      /\ info'.eip_fn_addr = fun.n_value /\ info'.eip_fn_name = NameOf(fun, info.eip_fn_name)
  BY <1>1, <1>2 DEF KTypes
<1>10. NameOf(fun, info.eip_fn_name) \in Names
  BY <1>2, <1>6, NameInTable DEF KTypes
<1>11. {lfile, lfun}' \subseteq 0 .. Last /\ {rfile, rfun}' \subseteq -1 .. Last
  BY <1>1, <1>2, <1>4 DEF KTypes
<1>12. KTypes'
  <2> HIDE DEF fun, offset
  <2> QED  BY <1>1, <1>2, <1>6, <1>7, <1>8, <1>9, <1>10, <1>11 DEF KTypes, SearchTypes, IInv
<1>13. Asking'
  BY <1>1, <1>7 DEF Asking, Asked
<1>14. TheFunction'
  BY <1>1, <1>2, <1>4, <1>8, <1>9 DEF TheFunction, NoFunctionYet
<1>15. InfoDescribesEip'
  BY <1>1, NotYetTold
<1> QED  BY <1>1, <1>2, <1>8, <1>9, <1>12, <1>13, <1>14, <1>15 DEF KInv

\* There is no function in the file: the line is searched for in the file.
LEMMA NoFunctionStep == KInv /\ NoFunction => KInv'
<1> SUFFICES ASSUME KInv, NoFunction PROVE KInv'
  OBVIOUS
<1>1. /\ UNCHANGED <<stabs, eip, lfile, rfile, lline, info, result>>
      /\ phase = "function" /\ phase' = "line" /\ pc = "done" /\ region_left > region_right
      /\ lfun' = region_left /\ rfun' = region_right
      /\ Call(lfile, rfile, "SLINE", eip)
  BY DEF NoFunction, inputs
<1>2. /\ KTypes /\ stabs \in Tables /\ eip \in 0 .. ADDRS - 1 /\ TheFile
      /\ NoFunctionYet /\ info.eip_file = UnknownName /\ info.eip_fn_narg = 0 /\ result = 0
  BY <1>1 DEF KInv, KTypes, SearchTypes, Arguments
<1>3. Last \in Nat /\ DOMAIN stabs = 0 .. Last
  BY <1>2, TableFacts
<1>4. /\ region_left \in 0 .. Last /\ region_right \in -1 .. Last
      /\ Unbroken(stabs, lfile, rfile, {"SO", "FUN"})
      /\ NothingNext =>
           IF Function = -1 THEN region_left > region_right
           ELSE /\ region_left = Function /\ region_right = EndOf(stabs, "FUN", Function)
                /\ region_right = Last \/ stabs[region_right + 1].n_type \in {"FUN", "SO"}
                /\ region_left \in lfile .. rfile /\ region_left <= region_right
                /\ stabs[region_left].n_type = "FUN" /\ stabs[region_left].n_value <= eip
  BY <1>1, FunctionResult
<1>5. /\ lfile \in DOMAIN stabs /\ rfile \in DOMAIN stabs /\ lfile <= rfile
      /\ Increasing(stabs, "SLINE", lfile, rfile)
  <2>1. lfile \in DOMAIN stabs /\ rfile \in DOMAIN stabs /\ lfile <= rfile
    BY <1>2, <1>3 DEF TheFile
  <2>2. LaidOut(stabs)
    BY <1>2, LayoutAssumption
  <2> QED  BY <1>4, <2>1, <2>2 DEF LaidOut
<1>6. IInv' /\ left0' = lfile /\ right0' = rfile /\ type' = "SLINE" /\ addr0' = eip
  BY <1>1, <1>2, <1>5, CallIInv, KdebugAssumption
<1>7. /\ Last' = Last /\ Function' = Function /\ (NothingNext' <=> NothingNext)
      /\ (TheFile' <=> TheFile)
  BY <1>1, SameTable, SameFile
<1>8. {lfile, lfun}' \subseteq 0 .. Last /\ {rfile, rfun}' \subseteq -1 .. Last
  BY <1>1, <1>2, <1>4 DEF KTypes
<1>9. KTypes'
  BY <1>1, <1>2, <1>6, <1>7, <1>8 DEF KTypes, SearchTypes, IInv
<1>10. lfun' > rfun' /\ ~(lfun' <= rfun')
  BY <1>1, <1>3, <1>4
<1>11. Asking'
  BY <1>1, <1>6, <1>10 DEF Asking, Asked
<1>12. TheFunction'
  <2>1. NothingNext => Function = -1
    BY <1>1, <1>3, <1>4
  <2> QED  BY <1>1, <1>2, <1>7, <1>10, <2>1 DEF TheFunction, NoFunctionYet
<1>13. InfoDescribesEip'
  BY <1>1, NotYetTold
<1> QED  BY <1>1, <1>2, <1>7, <1>9, <1>11, <1>12, <1>13 DEF KInv

\* The line's stab is known, or there is none.
LEMMA LineSearchedStep == KInv /\ LineSearched => KInv'
<1> SUFFICES ASSUME KInv, LineSearched PROVE KInv'
  OBVIOUS
<1>1. /\ UNCHANGED <<searchVars, eip, lfile, rfile, lfun, rfun, result>>
      /\ phase = "line" /\ phase' = "filename" /\ pc = "done"
      /\ lline' = region_left
      /\ info' = IF region_left <= region_right
                 THEN [info EXCEPT !.eip_line = stabs[region_left].n_value] ELSE info
  BY DEF LineSearched
<1>2. /\ KTypes /\ TheFile /\ TheFunction
      /\ info.eip_file = UnknownName /\ info.eip_fn_narg = 0 /\ result = 0
  BY <1>1 DEF KInv
<1>3. stabs' = stabs /\ pc' = "done"
  BY <1>1 DEF searchVars, callVars
<1>4. /\ info' = [eip_file |-> info'.eip_file, eip_line |-> info'.eip_line,
                  eip_fn_name |-> info'.eip_fn_name, eip_fn_addr |-> info'.eip_fn_addr,
                  eip_fn_narg |-> info'.eip_fn_narg]
      /\ info'.eip_file = info.eip_file /\ info'.eip_fn_narg = info.eip_fn_narg
      /\ info'.eip_fn_addr = info.eip_fn_addr /\ info'.eip_fn_name = info.eip_fn_name
  BY <1>1, <1>2 DEF KTypes
<1>5. /\ Last' = Last /\ LineStab' = LineStab /\ (NothingNext' <=> NothingNext)
      /\ (TheFile' <=> TheFile) /\ (TheFunction' <=> TheFunction)
  BY <1>1, <1>3, <1>4, SameTable, SameFile, SameFunction
<1>6. SearchTypes'
  BY <1>1, <1>2, SameSearch DEF KTypes, SearchTypes
<1>7. /\ region_left \in -1 .. Last
      /\ NothingNext /\ LineStab # -1 => region_left = LineStab /\ LineStab \in lfile .. Last
  BY <1>1, LineResult
<1>8. KTypes'
  BY <1>1, <1>2, <1>3, <1>4, <1>5, <1>6, <1>7 DEF KTypes
<1>9. BackFromLine'
  <2>1. ASSUME NothingNext, LineStab # -1
        PROVE  LineStab \in lfile .. Last /\ region_left \in lfile .. LineStab /\ region_left + 1 > LineStab
    BY <1>2, <1>7, <2>1 DEF KTypes
  <2>2. \A j \in region_left + 1 .. LineStab :
          NothingNext /\ LineStab # -1 => stabs[j].n_type \notin {"SO", "SOL"}
    BY <1>7, <2>1
  <2> QED  BY <1>1, <1>3, <1>5, <2>1, <2>2 DEF BackFromLine
<1>10. InfoDescribesEip'
  BY <1>1, NotYetTold
<1> QED  BY <1>1, <1>2, <1>4, <1>5, <1>8, <1>9, <1>10 DEF KInv, Asking

\* A stab that names no file is passed; the file's own stab names it.
LEMMA FileNameBackStep == KInv /\ FileNameBack => KInv'
<1> SUFFICES ASSUME KInv, FileNameBack PROVE KInv'
  OBVIOUS
<1>1. /\ UNCHANGED <<searchVars, eip, lfile, rfile, lfun, rfun, info, phase, result>>
      /\ phase = "filename" /\ lline >= lfile /\ ~NamesFile(stabs[lline])
      /\ lline' = lline - 1
  BY DEF FileNameBack
<1>2. /\ KTypes /\ TheFile /\ TheFunction /\ BackFromLine /\ stabs \in Tables
      /\ info.eip_file = UnknownName /\ info.eip_fn_narg = 0 /\ result = 0
  BY <1>1 DEF KInv, KTypes, SearchTypes, Arguments
<1>3. stabs' = stabs /\ pc' = pc
  BY <1>1 DEF searchVars, callVars
<1>4. /\ Last' = Last /\ LineStab' = LineStab /\ (NothingNext' <=> NothingNext)
      /\ (TheFile' <=> TheFile) /\ (TheFunction' <=> TheFunction)
  BY <1>1, <1>3, SameTable, SameFile, SameFunction
<1>5. SearchTypes'
  BY <1>1, <1>2, SameSearch DEF KTypes, SearchTypes
<1>6. lline \in -1 .. Last /\ lfile \in 1 .. Last /\ Last \in Nat /\ DOMAIN stabs = 0 .. Last
  BY <1>2, TableFacts DEF KTypes, TheFile
<1>7. KTypes'
  <2>1. lline' \in -1 .. Last
    BY <1>1, <1>6
  <2> QED  BY <1>1, <1>2, <1>3, <1>4, <1>5, <2>1 DEF KTypes
<1>8. BackFromLine'
  <2>1. ASSUME NothingNext, LineStab # -1
        PROVE  /\ LineStab \in lfile .. Last /\ lline - 1 \in lfile .. LineStab
               /\ \A j \in lline .. LineStab : stabs[j].n_type \notin {"SO", "SOL"}
    <3>1. /\ LineStab \in lfile .. Last /\ lline \in lfile .. LineStab /\ lline \in 0 .. Last
          /\ \A j \in lline + 1 .. LineStab : stabs[j].n_type \notin {"SO", "SOL"}
      BY <1>1, <1>2, <1>6, <2>1 DEF BackFromLine
    <3>2. stabs[lline].n_type \notin {"SO", "SOL"}
      <4>1. stabs[lline].n_type = "SO" => stabs[lline].n_value # 0
        BY <1>2, <1>6, <3>1, LayoutAssumption DEF LaidOut
      <4> QED  BY <1>1, <4>1 DEF NamesFile
    <3>3. lline # lfile
      BY <1>2, <2>1, <3>2 DEF TheFile
    <3>4. \A j \in lline .. LineStab : j = lline \/ j \in lline + 1 .. LineStab
      <4>1. lline \in Int /\ LineStab \in Int
        BY <1>6, <3>1
      <4> QED  BY <4>1
    <3> QED  BY <1>6, <3>1, <3>2, <3>3, <3>4
  <2>2. lline' + 1 = lline
    BY <1>1, <1>6
  <2> QED  BY <1>1, <1>3, <1>4, <2>1, <2>2 DEF BackFromLine
<1>9. InfoDescribesEip'
  BY <1>1, NotYetTold
<1> QED  BY <1>1, <1>2, <1>4, <1>7, <1>8, <1>9 DEF KInv, Asking

\* A file's name is told.  If the function has more than its own stab, its parameters
\* come next; otherwise it has none.
LEMMA FileNamedStep == KInv /\ FileNamed => KInv'
<1> SUFFICES ASSUME KInv, FileNamed PROVE KInv'
  OBVIOUS
<1>1. /\ UNCHANGED <<searchVars, eip, lfile, rfile, lfun, rfun>>
      /\ phase = "filename" /\ ~(lline >= lfile /\ ~NamesFile(stabs[lline]))
      /\ info' = IF lline >= lfile THEN [info EXCEPT !.eip_file = NameOf(stabs[lline], @)] ELSE info
      /\ \/ lfun < rfun /\ lline' = lfun + 1 /\ phase' = "arguments" /\ result' = result
         \/ ~(lfun < rfun) /\ result' = 0 /\ phase' = "returned" /\ lline' = lline
  BY DEF FileNamed, FirstParameter, Return
<1>2. /\ KTypes /\ TheFile /\ TheFunction /\ BackFromLine /\ stabs \in Tables
      /\ info.eip_file = UnknownName /\ info.eip_fn_narg = 0 /\ result = 0
  BY <1>1 DEF KInv, KTypes, SearchTypes, Arguments
<1>3. stabs' = stabs /\ pc' = pc /\ pc = "done"
  BY <1>1, <1>2 DEF searchVars, callVars, KTypes
<1>4. /\ Last \in Nat /\ DOMAIN stabs = 0 .. Last
      /\ \A k \in 0 .. Last : stabs[k].n_value \in 0 .. ADDRS - 1 /\ stabs[k].n_strx \in Nat
  BY <1>2, TableFacts
<1>5. lline \in -1 .. Last /\ lfile \in 1 .. Last /\ lfun \in 0 .. Last /\ rfun \in -1 .. Last
  BY <1>2 DEF KTypes, TheFile
<1>6. /\ info' = [eip_file |-> info'.eip_file, eip_line |-> info'.eip_line,
                  eip_fn_name |-> info'.eip_fn_name, eip_fn_addr |-> info'.eip_fn_addr,
                  eip_fn_narg |-> info'.eip_fn_narg]
      /\ info'.eip_file = IF lline >= lfile THEN NameOf(stabs[lline], UnknownName) ELSE UnknownName
      /\ info'.eip_fn_narg = 0
      /\ info'.eip_fn_addr = info.eip_fn_addr /\ info'.eip_fn_name = info.eip_fn_name
  BY <1>1, <1>2 DEF KTypes
<1>7. info'.eip_file \in Names
  <2>1. UnknownName \in Names
    BY DEF Names
  <2>2. lline >= lfile => stabs[lline].n_strx \in Nat
    BY <1>4, <1>5
  <2> QED  BY <1>6, <2>1, <2>2, NameInTable
<1>8. /\ Last' = Last /\ File' = File /\ Function' = Function /\ LineStab' = LineStab
      /\ (NothingNext' <=> NothingNext)
      /\ (TheFile' <=> TheFile) /\ (TheFunction' <=> TheFunction)
  BY <1>1, <1>3, <1>6, SameTable, SameFile, SameFunction
<1>9. SearchTypes'
  BY <1>1, <1>2, SameSearch DEF KTypes, SearchTypes
<1>10. KTypes'
  <2>1. lline' \in -1 .. Last /\ result' \in {-1, 0} /\ phase' \in {"arguments", "returned"}
    BY <1>1, <1>2, <1>4, <1>5
  <2>2. 0 \in 0 .. Last + 1
    BY <1>4
  <2> QED  BY <1>1, <1>2, <1>3, <1>6, <1>7, <1>8, <1>9, <2>1, <2>2 DEF KTypes
<1>11. TheFileName'
  <2>1. ASSUME NothingNext, LineStab # -1
        PROVE  /\ lline \in File .. LineStab
               /\ info'.eip_file = NameOf(stabs[lline], UnknownName) /\ NamesFile(stabs[lline])
               /\ \A j \in lline + 1 .. LineStab : stabs[j].n_type \notin {"SO", "SOL"}
    BY <1>1, <1>2, <1>5, <1>6, <2>1 DEF BackFromLine, TheFile
  <2> QED  BY <1>3, <1>8, <2>1 DEF TheFileName
<1>12. CASE lfun < rfun
  <2>1. phase' = "arguments" /\ lline' = lfun + 1 /\ result' = 0
    BY <1>1, <1>2, <1>12
  <2>2. Counting'
    <3>1. lline' \in lfun + 1 .. rfun /\ lline' - lfun - 1 = 0 /\ lline' - 1 < lfun + 1
      BY <1>5, <1>12, <2>1
    <3> QED  BY <1>1, <1>5, <1>6, <1>12, <2>1, <3>1 DEF Counting
  <2>3. InfoDescribesEip'
    BY <2>1, NotYetTold
  <2> QED  BY <1>2, <1>8, <1>10, <1>11, <2>1, <2>2, <2>3 DEF KInv, Asking
<1>13. CASE ~(lfun < rfun)
  <2>1. phase' = "returned" /\ result' = 0
    BY <1>1, <1>13
  <2>2. TheFunction'
    BY <1>2, <1>8
  <2>3. FunctionContainsEip'
    BY <1>1, <1>3, <1>8, <2>2 DEF FunctionContainsEip, Found, TheFunction, NoFunctionYet
  <2>4. FileOfLine'
    BY <1>11 DEF FileOfLine, Found, TheFileName
  <2>5. CountsParameters'
    <3>1. ASSUME NothingNext, Function # -1
          PROVE  Cardinality({k \in Function .. EndOf(stabs, "FUN", Function) : stabs[k].n_type = "PSYM"}) = 0
      <4>1. lfun = Function /\ rfun = EndOf(stabs, "FUN", Function) /\ lfun = rfun /\ stabs[lfun].n_type = "FUN"
        BY <1>2, <1>5, <1>13, <3>1 DEF TheFunction
      <4>2. {k \in Function .. EndOf(stabs, "FUN", Function) : stabs[k].n_type = "PSYM"} = {}
        BY <1>5, <4>1
      <4> QED  BY <4>2, FS_EmptySet
    <3> QED  BY <1>3, <1>6, <1>8, <3>1 DEF CountsParameters, Found
  <2>6. InfoDescribesEip'
    BY <2>3, <2>4, <2>5 DEF InfoDescribesEip
  <2> QED  BY <1>10, <2>1, <2>6 DEF KInv, Asking
<1> QED  BY <1>12, <1>13

\* One more parameter.
LEMMA CountArgumentStep == KInv /\ CountArgument => KInv'
<1> SUFFICES ASSUME KInv, CountArgument PROVE KInv'
  OBVIOUS
<1>1. /\ UNCHANGED <<searchVars, eip, lfile, rfile, lfun, rfun, phase, result>>
      /\ phase = "arguments" /\ lline < rfun /\ stabs[lline].n_type = "PSYM"
      /\ info' = [info EXCEPT !.eip_fn_narg = @ + 1] /\ lline' = lline + 1
  BY DEF CountArgument, AtParameter
<1>2. /\ KTypes /\ TheFile /\ TheFunction /\ Counting /\ TheFileName /\ stabs \in Tables /\ result = 0
  BY <1>1 DEF KInv, KTypes, SearchTypes, Arguments
<1>3. stabs' = stabs /\ pc' = pc
  BY <1>1 DEF searchVars, callVars
<1>4. /\ lline \in lfun + 1 .. rfun /\ lfun \in 0 .. Last /\ rfun \in -1 .. Last /\ Last \in Nat
      /\ info.eip_fn_narg = lline - lfun - 1
  BY <1>2, TableFacts DEF KTypes, Counting
<1>5. /\ info' = [eip_file |-> info'.eip_file, eip_line |-> info'.eip_line,
                  eip_fn_name |-> info'.eip_fn_name, eip_fn_addr |-> info'.eip_fn_addr,
                  eip_fn_narg |-> info'.eip_fn_narg]
      /\ info'.eip_file = info.eip_file /\ info'.eip_fn_narg = info.eip_fn_narg + 1
      /\ info'.eip_fn_addr = info.eip_fn_addr /\ info'.eip_fn_name = info.eip_fn_name
  BY <1>1, <1>2 DEF KTypes
<1>6. /\ Last' = Last /\ File' = File /\ LineStab' = LineStab /\ (NothingNext' <=> NothingNext)
      /\ (TheFile' <=> TheFile) /\ (TheFunction' <=> TheFunction)
  BY <1>1, <1>3, <1>5, SameTable, SameFile, SameFunction
<1>7. SearchTypes'
  BY <1>1, <1>2, SameSearch DEF KTypes, SearchTypes
<1>8. /\ lline' \in lfun + 1 .. rfun /\ lline' \in -1 .. Last
      /\ info'.eip_fn_narg = lline' - lfun - 1 /\ info'.eip_fn_narg \in 0 .. Last + 1
  BY <1>1, <1>4, <1>5
<1>9. KTypes'
  BY <1>1, <1>2, <1>3, <1>5, <1>6, <1>7, <1>8 DEF KTypes
<1>10. Counting'
  <2>1. \A k \in lfun + 1 .. lline' - 1 : k = lline \/ k \in lfun + 1 .. lline - 1
    BY <1>1, <1>4
  <2> QED  BY <1>1, <1>2, <1>3, <1>8, <2>1 DEF Counting
<1>11. TheFileName'
  BY <1>2, <1>3, <1>5, <1>6 DEF TheFileName
<1>12. InfoDescribesEip'
  BY <1>1, NotYetTold
<1> QED  BY <1>1, <1>2, <1>6, <1>9, <1>10, <1>11, <1>12 DEF KInv, Asking

\* The stabs passed are all the function's parameters: they follow its own, and something
\* else follows them.
LEMMA ArgumentsCountedStep == KInv /\ ArgumentsCounted => KInv'
<1> SUFFICES ASSUME KInv, ArgumentsCounted PROVE KInv'
  OBVIOUS
<1>1. /\ UNCHANGED <<searchVars, eip, regionVars, info>>
      /\ phase = "arguments" /\ ~(lline < rfun /\ stabs[lline].n_type = "PSYM")
      /\ result' = 0 /\ phase' = "returned"
  BY DEF ArgumentsCounted, AtParameter, Return
<1>2. /\ KTypes /\ TheFile /\ TheFunction /\ Counting /\ TheFileName /\ stabs \in Tables
  BY <1>1 DEF KInv, KTypes, SearchTypes, Arguments
<1>3. stabs' = stabs /\ pc' = pc /\ UNCHANGED <<lfile, rfile, lfun, rfun, lline>>
  BY <1>1 DEF searchVars, callVars, regionVars
<1>4. /\ lline \in lfun + 1 .. rfun /\ lfun \in 0 .. Last /\ rfun \in -1 .. Last /\ Last \in Nat
      /\ info.eip_fn_narg = lline - lfun - 1 /\ DOMAIN stabs = 0 .. Last
      /\ \A k \in lfun + 1 .. lline - 1 : stabs[k].n_type = "PSYM"
  BY <1>2, TableFacts DEF KTypes, Counting
<1>5. /\ Last' = Last /\ File' = File /\ Function' = Function /\ LineStab' = LineStab
      /\ (NothingNext' <=> NothingNext) /\ (TheFunction' <=> TheFunction)
  BY <1>1, <1>3, SameTable, SameFunction
<1>6. SearchTypes'
  BY <1>1, <1>2, SameSearch DEF KTypes, SearchTypes
<1>7. KTypes'
  BY <1>1, <1>2, <1>3, <1>5, <1>6 DEF KTypes
<1>8. FunctionContainsEip'
  BY <1>1, <1>2, <1>3, <1>5 DEF FunctionContainsEip, Found, TheFunction, NoFunctionYet
<1>9. FileOfLine'
  BY <1>1, <1>2, <1>3, <1>5 DEF FileOfLine, Found, TheFileName
<1>10. CountsParameters'
  <2>1. ASSUME NothingNext
        PROVE  /\ Function # -1
               /\ Cardinality({k \in Function .. EndOf(stabs, "FUN", Function) : stabs[k].n_type = "PSYM"})
                    = lline - lfun - 1
    <3>1. /\ Function # -1 /\ lfun = Function /\ rfun = EndOf(stabs, "FUN", Function)
          /\ rfun = Last \/ stabs[rfun + 1].n_type \in {"FUN", "SO"}
          /\ stabs[lfun].n_type = "FUN" /\ Unbroken(stabs, lfun, rfun, {"SO", "FUN"})
      BY <1>2, <1>4, <2>1 DEF TheFunction, Counting
    <3>2. ASSUME NEW k \in lline .. rfun, stabs[k].n_type = "PSYM"
          PROVE  FALSE
      <4>1. k \in DOMAIN stabs /\ lfun \in DOMAIN stabs /\ lfun < k
        BY <1>4
      <4>2. Unbroken(stabs, lfun, k, {"SO", "FUN"})
        BY <1>4, <3>1 DEF Unbroken
      <4>3. LaidOut(stabs)
        BY <1>2, LayoutAssumption
      <4>4. /\ \A n \in lfun + 1 .. k : stabs[n].n_type = "PSYM"
            /\ k + 1 \in DOMAIN stabs /\ stabs[k + 1].n_type \notin {"SO", "FUN"}
        BY <3>1, <3>2, <4>1, <4>2, <4>3 DEF LaidOut
      <4>5. lline = rfun /\ k = rfun
        BY <1>1, <1>4, <4>4
      <4> QED  BY <1>4, <3>1, <4>4, <4>5
    <3>3. {k \in lfun .. rfun : stabs[k].n_type = "PSYM"} = lfun + 1 .. lline - 1
      <4>1. ASSUME NEW k \in lfun .. rfun, stabs[k].n_type = "PSYM"
            PROVE  k \in lfun + 1 .. lline - 1
        <5>1. k # lfun
          BY <3>1, <4>1
        <5>2. ~(k \in lline .. rfun)
          BY <3>2, <4>1
        <5> QED  BY <1>4, <4>1, <5>1, <5>2
      <4>2. \A k \in lfun + 1 .. lline - 1 : k \in lfun .. rfun
        BY <1>4
      <4> QED  BY <1>4, <4>1, <4>2
    <3>4. Cardinality(lfun + 1 .. lline - 1) = lline - lfun - 1
      <4>1. lfun + 1 \in Int /\ lline - 1 \in Int
        BY <1>4
      <4>2. Cardinality(lfun + 1 .. lline - 1)
              = IF lfun + 1 > lline - 1 THEN 0 ELSE (lline - 1) - (lfun + 1) + 1
        BY <4>1, FS_Interval
      <4> QED  BY <1>4, <4>2
    <3> QED  BY <3>1, <3>3, <3>4
  <2> QED  BY <1>1, <1>3, <1>4, <1>5, <2>1 DEF CountsParameters, Found
<1>11. InfoDescribesEip'
  BY <1>8, <1>9, <1>10 DEF InfoDescribesEip
<1> QED  BY <1>1, <1>7, <1>11 DEF KInv, Asking

\* No step breaks the invariant.
LEMMA NextKInv == KInv /\ [debuginfo_eip]_vars => KInv'
<1> SUFFICES ASSUME KInv, [debuginfo_eip]_vars PROVE KInv'
  OBVIOUS
<1>1. CASE UserAddress \/ BadStrings
  BY <1>1, RefusedStep
<1>2. CASE SearchFile
  BY <1>2, SearchFileStep
<1>3. CASE Searching
  BY <1>3, SearchingStep
<1>4. CASE NoFile
  BY <1>4, NoFileStep
<1>5. CASE FileFound
  BY <1>5, FileFoundStep
<1>6. CASE FunctionFound
  BY <1>6, FunctionFoundStep
<1>7. CASE NoFunction
  BY <1>7, NoFunctionStep
<1>8. CASE LineSearched
  BY <1>8, LineSearchedStep
<1>9. CASE FileNameBack
  BY <1>9, FileNameBackStep
<1>10. CASE FileNamed
  BY <1>10, FileNamedStep
<1>11. CASE CountArgument
  BY <1>11, CountArgumentStep
<1>12. CASE ArgumentsCounted
  BY <1>12, ArgumentsCountedStep
<1>13. CASE UNCHANGED vars
  <2>1. /\ UNCHANGED <<searchVars, eip, lfile, rfile, lfun, rfun, lline, info, phase, result>>
        /\ UNCHANGED callVars /\ UNCHANGED <<stabs, left0, right0, type, addr0>>
    BY <1>13 DEF vars, regionVars, searchVars, callVars
  <2>2. /\ Last' = Last /\ File' = File /\ Function' = Function /\ LineStab' = LineStab
        /\ (NothingNext' <=> NothingNext) /\ (TheFile' <=> TheFile) /\ (TheFunction' <=> TheFunction)
    BY <2>1, SameTable, SameFile, SameFunction
  <2>3. IInv => IInv'
    BY <2>1, NextIInv
  <2>4. KTypes'
    <3>1. SearchTypes'
      BY <2>1, SameSearch DEF KInv, KTypes, SearchTypes
    <3>2. pc' = pc
      BY <2>1 DEF searchVars
    <3> QED  BY <2>1, <2>2, <3>1, <3>2 DEF KInv, KTypes
  <2>5. Asking'
    BY <2>1, <2>2, <2>3 DEF KInv, Asking, Asked
  <2>6. /\ NoFunctionYet' <=> NoFunctionYet
        /\ BackFromLine' <=> BackFromLine
        /\ TheFileName' <=> TheFileName
        /\ Counting' <=> Counting
    BY <2>1, <2>2 DEF NoFunctionYet, BackFromLine, TheFileName, Counting
  <2>7. InfoDescribesEip' <=> InfoDescribesEip
    BY <2>1, <2>2 DEF InfoDescribesEip, FunctionContainsEip, FileOfLine, CountsParameters, Found
  <2> QED  BY <2>1, <2>2, <2>4, <2>5, <2>6, <2>7 DEF KInv
<1> QED
  BY <1>1, <1>2, <1>3, <1>4, <1>5, <1>6, <1>7, <1>8, <1>9, <1>10, <1>11, <1>12, <1>13 DEF debuginfo_eip

\* The invariant holds in every state that debuginfo_eip can be in.
LEMMA AlwaysKInv == Spec => []KInv
BY InitKInv, NextKInv, PTL DEF Spec

\* The searches stay inside their regions, the loops inside the table, whatever the table
\* and the address; and no name comes from outside the string table.
THEOREM KdebugTypeCorrect == Spec => []KdebugTypeOK
<1>1. KInv => KdebugTypeOK
  <2> SUFFICES ASSUME KInv PROVE KdebugTypeOK
    OBVIOUS
  <2>1. KTypes /\ stabs \in Tables
    BY DEF KInv, KTypes, SearchTypes, Arguments
  <2>2. Cardinality(DOMAIN stabs) = Last + 1 /\ DOMAIN stabs = 0 .. Last
    BY <2>1, TableFacts
  <2>3. left0 \in Nat /\ right0 \in Nat
    BY <2>1, Values DEF KTypes, SearchTypes
  <2>4. /\ pc = "scan" /\ m >= l => m \in left0 .. right0
        /\ pc = "back" /\ l > region_left => l \in left0 .. right0
    <3>1. pc \in {"scan", "back"} => IInv
      BY <2>1 DEF KInv, KTypes, Asking
    <3>2. CASE pc = "scan"
      BY <2>1, <2>3, <3>1, <3>2 DEF IInv, Narrowing, KTypes, SearchTypes, Places
    <3>3. CASE pc = "back"
      BY <2>1, <2>3, <3>1, <3>3 DEF IInv, GoingBack, KTypes, SearchTypes, Places
    <3> QED  BY <3>2, <3>3
  <2>5. SearchTypeOK
    BY <2>1, <2>3, <2>4 DEF SearchTypeOK, KTypes, SearchTypes, Places
  <2> QED  BY <2>1, <2>2, <2>5 DEF KdebugTypeOK, KTypes, Names
<1> QED  BY <1>1, AlwaysKInv, PTL

\* Each search that debuginfo_eip makes brackets its address.
THEOREM SearchesBracket == Spec => []BracketsAddress
<1>1. KInv => BracketsAddress
  BY DEF KInv, KTypes, SearchTypes
<1> QED  BY <1>1, AlwaysKInv, PTL

\* Each region debuginfo_eip has searched is in the table, not empty and sorted by the
\* type searched for: what stab_binsearch takes for granted, its own results included.
THEOREM RegionsSorted == Spec => []SearchesSortedRegions
<1>1. KInv => SearchesSortedRegions
  <2> SUFFICES ASSUME KInv PROVE SearchesSortedRegions
    OBVIOUS
  <2>1. pc = "search" => Arguments
    BY DEF KInv, KTypes, SearchTypes
  <2> QED  BY <2>1 DEF SearchesSortedRegions, Arguments
<1> QED  BY <1>1, AlwaysKInv, PTL

\* What is told of an address that has no stab at the very next one is what the table says
\* of it: the function, the file of the line, and the number of parameters.
THEOREM InfoCorrect == Spec => []InfoDescribesEip
<1>1. KInv => InfoDescribesEip
  BY DEF KInv
<1> QED  BY <1>1, AlwaysKInv, PTL
=============================================================================
