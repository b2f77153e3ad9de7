----------------------------- MODULE StabSearch -----------------------------
(***************************************************************************)
(* stab_binsearch of kern/kdebug.c, one step per turn of each of its       *)
(* loops: a binary search, in a table that mixes stabs of several types,   *)
(* for the stab of one type that contains an address.                      *)
(***************************************************************************)
EXTENDS Integers

CONSTANTS
  Tables,   \* the stab tables searched: functions from 0 .. n-1 to stabs
  NSTABS,   \* the longest of them
  Types,    \* stab types
  ADDRS     \* addresses are 0 .. ADDRS - 1 (2^32 in the source)

\* A stab's other fields are of no interest here.
IsStab(s) == s.n_type \in Types /\ s.n_value \in 0 .. ADDRS - 1

ASSUME StabAssumption ==
  /\ ADDRS \in Nat /\ ADDRS > 1 /\ NSTABS \in Nat
  /\ \A tab \in Tables : \E n \in 1 .. NSTABS :
       DOMAIN tab = 0 .. n - 1 /\ \A k \in 0 .. n - 1 : IsStab(tab[k])

VARIABLES
  stabs,               \* the table
  region_left, region_right, l, r, m, any_matches,
  type, addr,
  pc,                  \* which loop the search is in
  left0, right0, addr0 \* history: the arguments of this call

callVars == <<stabs, type, left0, right0, addr0>>
searchVars == <<region_left, region_right, l, r, m, any_matches, addr, callVars, pc>>

\* Enter stab_binsearch(stabs, &lo, &hi, t, a).
Call(lo, hi, t, a) ==
  /\ region_left' = lo /\ region_right' = hi
  /\ l' = lo /\ r' = hi /\ m' = lo /\ any_matches' = FALSE
  /\ type' = t /\ addr' = a
  /\ left0' = lo /\ right0' = hi /\ addr0' = a
  /\ pc' = "search"

Matches(k) == stabs[k].n_type = type

\* A turn of the main loop begins in the middle of [l, r] ...
true_m == (l + r) \div 2
Halve ==
  /\ pc = "search" /\ l <= r
  /\ m' = true_m
  /\ pc' = "scan"
  /\ UNCHANGED <<region_left, region_right, l, r, any_matches, addr, callVars>>

\* ... and looks to the left of it for a stab of the type.
Scan ==
  /\ pc = "scan" /\ m >= l /\ ~Matches(m)
  /\ m' = m - 1
  /\ UNCHANGED <<region_left, region_right, l, r, any_matches, addr, callVars, pc>>

NoMatch ==
  /\ pc = "scan" /\ m < l
  /\ l' = true_m + 1
  /\ pc' = "search"
  /\ UNCHANGED <<region_left, region_right, r, m, any_matches, addr, callVars>>

\* Mutant: the search goes on at the stab found, not after the middle.
GoRight_stays ==
  /\ pc = "scan" /\ m >= l /\ Matches(m) /\ stabs[m].n_value < addr
  /\ any_matches' = TRUE
  /\ region_left' = m
  /\ l' = m
  /\ pc' = "search"
  /\ UNCHANGED <<region_right, r, m, addr, callVars>>
GoRight ==
  /\ pc = "scan" /\ m >= l /\ Matches(m) /\ stabs[m].n_value < addr
  /\ any_matches' = TRUE
  /\ region_left' = m
  /\ l' = true_m + 1
  /\ pc' = "search"
  /\ UNCHANGED <<region_right, r, m, addr, callVars>>

\* Mutants: the region is taken to end at the stab found; any_matches is not set.
GoLeft_keep ==
  /\ pc = "scan" /\ m >= l /\ Matches(m) /\ stabs[m].n_value > addr
  /\ any_matches' = TRUE
  /\ region_right' = m
  /\ r' = m - 1
  /\ pc' = "search"
  /\ UNCHANGED <<region_left, l, m, addr, callVars>>
GoLeft_forgets ==
  /\ pc = "scan" /\ m >= l /\ Matches(m) /\ stabs[m].n_value > addr
  /\ region_right' = m - 1
  /\ r' = m - 1
  /\ pc' = "search"
  /\ UNCHANGED <<region_left, l, m, any_matches, addr, callVars>>
GoLeft ==
  /\ pc = "scan" /\ m >= l /\ Matches(m) /\ stabs[m].n_value > addr
  /\ any_matches' = TRUE
  /\ region_right' = m - 1
  /\ r' = m - 1
  /\ pc' = "search"
  /\ UNCHANGED <<region_left, l, m, addr, callVars>>

\* An exact match: the search goes on, for the next address, to find the end.
\* Mutant: the address is counted up in a wider type.
NextAddr_wide(a) == a + 1
NextAddr(a) == IF a = ADDRS - 1 THEN 0 ELSE a + 1
ExactMatch ==
  /\ pc = "scan" /\ m >= l /\ Matches(m) /\ stabs[m].n_value = addr
  /\ any_matches' = TRUE
  /\ region_left' = m
  /\ l' = m
  /\ addr' = NextAddr(addr)
  /\ pc' = "search"
  /\ UNCHANGED <<region_right, r, m, callVars>>

\* Nothing of the type in the region: it is returned empty.
ReturnEmpty ==
  /\ pc = "search" /\ l > r /\ ~any_matches
  /\ region_right' = region_left - 1
  /\ pc' = "done"
  /\ UNCHANGED <<region_left, l, r, m, any_matches, addr, callVars>>

\* Otherwise look for the rightmost match, from the right end of the region.
FromTheRight ==
  /\ pc = "search" /\ l > r /\ any_matches
  /\ l' = region_right
  /\ pc' = "back"
  /\ UNCHANGED <<region_left, region_right, r, m, any_matches, addr, callVars>>

StepBack ==
  /\ pc = "back" /\ l > region_left /\ ~Matches(l)
  /\ l' = l - 1
  /\ UNCHANGED <<region_left, region_right, r, m, any_matches, addr, callVars, pc>>

ReturnRegion ==
  /\ pc = "back" /\ ~(l > region_left /\ ~Matches(l))
  /\ region_left' = l
  /\ pc' = "done"
  /\ UNCHANGED <<region_right, l, r, m, any_matches, addr, callVars>>

stab_binsearch ==
  \/ Halve \/ Scan \/ NoMatch \/ GoRight \/ GoLeft \/ ExactMatch
  \/ ReturnEmpty \/ FromTheRight \/ StepBack \/ ReturnRegion

-----------------------------------------------------------------------------
\* "Some stab types are arranged in increasing order by instruction address."
Increasing(tab, t, lo, hi) ==
  \A j, k \in lo .. hi :
    j < k /\ tab[j].n_type = t /\ tab[k].n_type = t => tab[j].n_value <= tab[k].n_value

\* Any call on a region, not empty, that is sorted by the type searched for.
SearchInit ==
  /\ stabs \in Tables
  /\ type \in Types
  /\ left0 \in DOMAIN stabs
  /\ right0 \in DOMAIN stabs /\ left0 <= right0
  /\ Increasing(stabs, type, left0, right0)
  /\ addr0 \in 0 .. ADDRS - 1
  /\ region_left = left0 /\ region_right = right0
  /\ l = left0 /\ r = right0 /\ m = left0 /\ any_matches = FALSE
  /\ addr = addr0
  /\ pc = "search"

SearchSpec == SearchInit /\ [][stab_binsearch]_searchVars

-----------------------------------------------------------------------------
(* Properties. *)

Matching == {k \in left0 .. right0 : stabs[k].n_type = type}
AtOrBelow == {k \in Matching : stabs[k].n_value <= addr0}
Above == {k \in Matching : stabs[k].n_value > addr0}

\* No stab of the type begins at the very next address (and there is a next one).
NoNeighbour ==
  /\ addr0 < ADDRS - 1
  /\ \A k \in Matching : stabs[k].n_value # addr0 + 1

\* Every variable has its type: no loop reads outside the region it was given.
SearchTypeOK ==
  /\ l \in left0 - 1 .. right0 + 1
  /\ r \in left0 - 1 .. right0 /\ region_right \in left0 - 1 .. right0
  /\ m \in left0 - 1 .. right0
  /\ region_left \in left0 - 1 .. right0
  /\ any_matches \in BOOLEAN
  /\ addr \in 0 .. ADDRS - 1
  /\ pc \in {"search", "scan", "back", "done"}
  /\ pc = "scan" /\ m >= l => m \in left0 .. right0
  /\ pc = "back" /\ l > region_left => l \in left0 .. right0

\* The region returned when some match begins at or below the address: from the
\* last of those to just before the first match above the address.
BracketCorrect ==
  pc = "done" /\ AtOrBelow # {} =>
    /\ region_left \in AtOrBelow /\ \A k \in AtOrBelow : k <= region_left
    /\ region_right >= region_left
    /\ \A k \in Above : region_right < k
    /\ region_right = right0 \/ region_right + 1 \in Above

\* "finds the single stab entry of type 'type' that contains that address"
\* (kdebug.c:20): for every call.  When one match begins at the address and the
\* next one a byte later, the code returns the next one: after an exact match it
\* goes on to look for addr + 1, and matches that exactly too.
FindsTheContainingStab == addr0 < ADDRS - 1 => BracketCorrect

\* "If *region_left > *region_right, then 'addr' is not contained in any matching
\* stab": an empty region is returned only if nothing in the region searched matches.
\* (The region is not empty, and begins with no match, if all are above the address.)
EmptyRegionIsHonest == pc = "done" /\ region_left > region_right => Matching = {}

\* The search returns what surrounds the address, for every call with no match at the
\* next address; and, for all calls, no empty region if there is a match.
BracketsAddress == (NoNeighbour => BracketCorrect) /\ EmptyRegionIsHonest
=============================================================================
