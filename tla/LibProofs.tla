----------------------------- MODULE LibProofs -----------------------------
(***************************************************************************)
(* The library, src/lib, does what it promises.  string.c: memmove, memcpy *)
(* and memset in memories of every size, for every overlap, alignment and  *)
(* width of a word; the functions on strings for every call that C allows; *)
(* strtol on every string, in every base, for longs of every width.        *)
(* printfmt.c: what is printed is what the format means, for formats of    *)
(* any length and any integers, and buffers of any size get what fits.     *)
(***************************************************************************)
EXTENDS Strtol, Printfmt, FiniteSetTheorems, SequenceTheorems, WellFoundedInduction, TLAPS

-----------------------------------------------------------------------------
(* Arithmetic of the repeated instruction. *)

\* Whatever is moved at a time, the repetitions come to the length.
LEMMA UnitFits ==
  ASSUME NEW addresses, NEW n \in Nat
  PROVE  LET u == Unit(addresses, n) IN u \in Nat \ {0} /\ n \div u \in Nat /\ (n \div u) * u = n
<1>1. CASE Unit(addresses, n) = 1
  BY <1>1
<1>2. CASE Unit(addresses, n) = WORD /\ n % WORD = 0
  <2>1. WORD \in Nat \ {0}
    BY MemoryAssumption
  <2>2. n \div WORD \in Nat /\ n = ((n \div WORD) * WORD) + (n % WORD)
    BY <2>1
  <2> QED
    BY <1>2, <2>1, <2>2
<1> QED
  BY <1>1, <1>2 DEF Unit

\* One repetition less leaves a unit less.
LEMMA OneLess ==
  ASSUME NEW e \in Nat \ {0}, NEW u \in Nat \ {0}
  PROVE  e - 1 \in Nat /\ (e - 1) * u = e * u - u /\ (e - 1) * u \in Nat
  OBVIOUS

-----------------------------------------------------------------------------
(* The invariant. *)

Moves == call.fn \in {"memmove", "memcpy"}
Sets == call.fn = "memset"

\* What is left to do, in bytes.
Rest == ecx * unit

Moved(lo, hi) == [a \in DOMAIN before |-> IF a \in lo .. hi THEN before[a - dst + src] ELSE before[a]]
Filled(hi) == [a \in DOMAIN before |-> IF a \in dst .. hi THEN call.c % BYTES ELSE before[a]]

InRange ==
  Moves \/ Sets =>
    /\ DOMAIN before \subseteq Nat /\ before = [a \in DOMAIN before |-> before[a]]
    /\ dst \in Nat /\ src \in Nat /\ call.n \in Nat
    /\ dst .. dst + call.n - 1 \subseteq DOMAIN before
    /\ src .. src + call.n - 1 \subseteq DOMAIN before

\* Which function is where, and what the direction flag says there.
Courses ==
  /\ Moves => pc \in {"call", "movs", "cld", "done"}
  /\ Sets => pc \in {"call", "stos", "done"}
  /\ ~Moves /\ ~Sets => pc \notin {"movs", "stos", "cld"}
  /\ pc \notin {"movs", "cld"} => DF = FALSE
  /\ pc = "movs" => DF = (IF Overlaps THEN TRUE ELSE FALSE)

\* What has been moved, from below or from above, is what is not left to do.
Progress ==
  /\ pc \in {"movs", "stos"} =>
       unit \in Nat \ {0} /\ ecx \in Nat /\ edi \in Int /\ Rest \in 0 .. call.n
  /\ pc = "movs" =>
       /\ esi = edi - dst + src
       /\ ~DF => edi = dst + call.n - Rest /\ mem = Moved(dst, edi - 1)
       /\ DF => edi + unit = dst + Rest /\ mem = Moved(dst + Rest, dst + call.n - 1)
  /\ pc = "stos" => edi = dst + call.n - Rest /\ mem = Filled(edi - 1)

Results ==
  /\ (Moves \/ Sets) /\ pc = "call" => mem = before
  /\ Moves /\ pc \in {"cld", "done"} => mem = Moved(dst, dst + call.n - 1)
  /\ Sets /\ pc = "done" => mem = Filled(dst + call.n - 1)

MemoryIInv == InRange /\ Courses /\ Progress /\ Results

\* The bases that strtol is given are natural numbers.
LEMMA BasesAre == \A n \in Bases : n \in Nat
<1>1. LONG \in Nat
  BY StrtolAssumption
<1>2. \A n \in Bases : n \in 0 .. LONG - 1
  BY StrtolAssumption, Zenon
<1> QED
  BY <1>1, <1>2

\* A call begins within the invariant.
LEMMA InitMemoryIInv == Init => MemoryIInv
<1> SUFFICES ASSUME Init PROVE MemoryIInv
  OBVIOUS
<1>1. pc = "call" /\ DF = FALSE /\ mem = before
  BY DEF Init, MemoryInit
<1>2. InRange
  <2> SUFFICES ASSUME Moves \/ Sets
               PROVE  /\ DOMAIN before \subseteq Nat /\ before = [a \in DOMAIN before |-> before[a]]
                      /\ dst \in Nat /\ src \in Nat /\ call.n \in Nat
                      /\ dst .. dst + call.n - 1 \subseteq DOMAIN before
                      /\ src .. src + call.n - 1 \subseteq DOMAIN before
    BY DEF InRange
  <2>1. mem \in Blocks /\ call \in Calls({"memmove", "memcpy", "memset"}) /\ MemoryCall
    BY DEF Init, Calls, Moves, Sets, Looks, Copies
  <2>2. DOMAIN mem \subseteq Nat /\ mem \in [DOMAIN mem -> 0 .. BYTES - 1]
    BY <2>1, MemoryAssumption
  <2>3. call.p \in DOMAIN mem /\ call.q \in DOMAIN mem /\ call.n \in (0 .. Cardinality(DOMAIN mem)) \cup Bases
    BY <2>1 DEF Calls, Address
  <2>4. call.n \in Nat
    <3>1. CASE call.n \in 0 .. Cardinality(DOMAIN mem)
      BY <3>1
    <3>2. CASE call.n \in Bases
      BY <3>2, BasesAre
    <3> QED
      BY <2>3, <3>1, <3>2
  <2> QED
    BY <1>1, <2>1, <2>2, <2>3, <2>4 DEF MemoryCall, dst, src, Address
<1>3. Courses /\ Progress /\ Results
  BY <1>1 DEF Courses, Progress, Results
<1> QED
  BY <1>2, <1>3 DEF MemoryIInv

-----------------------------------------------------------------------------
(* Steps. *)

\* Nothing changes what was called.
LEMMA CallKept == MemoryIInv /\ UNCHANGED calling => InRange' /\ (Moves' = Moves) /\ (Sets' = Sets)
  BY DEF MemoryIInv, InRange, calling, Moves, Sets, dst, src

\* The first instruction of memmove, either way.
LEMMA StartsMoving ==
  ASSUME MemoryIInv, memmove_up \/ memmove_down
  PROVE  Progress' /\ pc' = "movs" /\ DF' = (IF Overlaps THEN TRUE ELSE FALSE) /\ UNCHANGED <<mem, calling>> /\ Moves
<1>0. Moves /\ pc = "call" /\ mem = before /\ InRange
  BY DEF MemoryIInv, Results, memmove_up, memmove_down, Moves, Sets
<1>1. /\ DOMAIN before \subseteq Nat /\ before = [a \in DOMAIN before |-> before[a]]
      /\ dst \in Nat /\ src \in Nat /\ call.n \in Nat
  BY <1>0 DEF InRange
<1>2. pc' = "movs" /\ DF' = (IF Overlaps THEN TRUE ELSE FALSE) /\ UNCHANGED <<mem, calling>>
  BY DEF memmove_up, memmove_down
<1>3. /\ unit' \in Nat \ {0} /\ ecx' \in Nat /\ Rest' = call.n
  <2>1. \E addresses : unit' = Unit(addresses, call.n) /\ ecx' = call.n \div unit'
    BY DEF memmove_up, memmove_down
  <2> QED
    BY <1>1, <2>1, UnitFits DEF Rest
<1>4. dst' = dst /\ src' = src /\ call' = call /\ before' = before
  BY <1>2 DEF calling, dst, src
<1>5. Moved(dst, dst - 1) = before /\ Moved(dst + call.n, dst + call.n - 1) = before
  BY <1>1 DEF Moved
<1>6. CASE memmove_up
  <2>1. DF' = FALSE /\ edi' = dst /\ esi' = src
    BY <1>6 DEF memmove_up
  <2>2. mem' = Moved(dst, edi' - 1)
    BY <1>0, <1>2, <1>5, <2>1
  <2>3. edi' \in Int /\ esi' = edi' - dst + src /\ edi' = dst + call.n - Rest'
    BY <1>1, <1>3, <2>1
  <2>4. (mem = Moved(dst, edi - 1))'
    BY <1>4, <2>2 DEF Moved
  <2>5. (Rest \in 0 .. call.n)'
    BY <1>1, <1>3, <1>4
  <2>6. Progress'
    BY <1>2, <1>3, <1>4, <2>1, <2>3, <2>4, <2>5 DEF Progress
  <2> QED
    BY <1>0, <1>2, <2>6
<1>7. CASE memmove_down
  <2>1. DF' = TRUE /\ edi' = dst + call.n - unit' /\ esi' = src + call.n - unit'
    BY <1>7 DEF memmove_down
  <2>2. mem' = Moved(dst + Rest', dst + call.n - 1)
    BY <1>0, <1>2, <1>3, <1>5
  <2>3. edi' \in Int /\ esi' = edi' - dst + src /\ edi' + unit' = dst + Rest'
    BY <1>1, <1>3, <2>1
  <2>4. (mem = Moved(dst + Rest, dst + call.n - 1))'
    BY <1>4, <2>2 DEF Moved
  <2>5. (Rest \in 0 .. call.n)'
    BY <1>1, <1>3, <1>4
  <2>6. Progress'
    BY <1>2, <1>3, <1>4, <2>1, <2>3, <2>4, <2>5 DEF Progress
  <2> QED
    BY <1>0, <1>2, <2>6
<1> QED
  BY <1>6, <1>7

\* One repetition of movs: what it reads has not been written over yet.
LEMMA Repeats ==
  ASSUME MemoryIInv, movs
  PROVE  Progress'
<1>0. /\ pc = "movs" /\ pc' = "movs" /\ ecx > 0 /\ ecx' = ecx - 1 /\ unit' = unit
      /\ DF' = DF /\ DF = (IF Overlaps THEN TRUE ELSE FALSE) /\ call' = call /\ before' = before
      /\ edi' = Next_unit(edi) /\ esi' = Next_unit(esi)
      /\ mem' = [a \in Address |-> IF a \in Written THEN mem[a - edi + esi] ELSE mem[a]]
  BY DEF MemoryIInv, Courses, movs, calling
<1>1. /\ unit \in Nat \ {0} /\ ecx \in Nat /\ edi \in Int /\ Rest \in 0 .. call.n
      /\ esi = edi - dst + src
      /\ ~DF => edi = dst + call.n - Rest /\ mem = Moved(dst, edi - 1)
      /\ DF => edi + unit = dst + Rest /\ mem = Moved(dst + Rest, dst + call.n - 1)
  BY <1>0 DEF MemoryIInv, Progress
<1>2. /\ DOMAIN before \subseteq Nat /\ dst \in Nat /\ src \in Nat /\ call.n \in Nat
      /\ dst .. dst + call.n - 1 \subseteq DOMAIN before
      /\ src .. src + call.n - 1 \subseteq DOMAIN before
  <2>1. Moves
    BY <1>0 DEF MemoryIInv, Courses
  <2> QED
    BY <2>1 DEF MemoryIInv, InRange
<1>3. dst' = dst /\ src' = src /\ Rest' = Rest - unit /\ Rest' \in Nat /\ ecx' \in Nat
  BY <1>0, <1>1, OneLess DEF dst, src, Rest
<1> DEFINE rest == Rest
<1>4. rest \in 0 .. call.n /\ rest - unit \in Nat
  BY <1>1, <1>3
<1>5. DOMAIN mem = DOMAIN before
  BY <1>1 DEF Moved, Overlaps
<1>6. CASE ~DF
  <2>1. src >= dst \/ src + call.n <= dst
    BY <1>0, <1>2, <1>6 DEF Overlaps
  <2>2. edi = dst + call.n - rest /\ \A a \in DOMAIN before :
          mem[a] = IF a \in dst .. edi - 1 THEN before[a - dst + src] ELSE before[a]
    BY <1>1, <1>6 DEF Moved
  <2>3. \A a \in DOMAIN before : a \in edi .. edi + unit - 1 => mem[a - edi + esi] = before[a - dst + src]
    <3> SUFFICES ASSUME NEW a \in DOMAIN before, a \in edi .. edi + unit - 1
                 PROVE  mem[a - edi + esi] = before[a - dst + src]
      OBVIOUS
    <3> DEFINE r == a - dst + src
    <3>1. a - edi + esi = r /\ r \in src .. src + call.n - 1 /\ r \notin dst .. edi - 1
      BY <1>1, <1>2, <1>4, <2>1, <2>2
    <3> HIDE DEF r
    <3>2. r \in DOMAIN before
      BY <1>2, <3>1
    <3>3. mem[r] = before[r]
      BY <2>2, <3>1, <3>2
    <3> QED
      BY <3>1, <3>3 DEF r
  <2>4. edi' = edi + unit /\ esi' = esi + unit
    BY <1>0, <1>6 DEF Next_unit
  <2>5. mem' = Moved(dst, edi' - 1)
    <3>1. \A a \in DOMAIN before :
            (IF a \in Written THEN mem[a - edi + esi] ELSE mem[a])
              = IF a \in dst .. edi' - 1 THEN before[a - dst + src] ELSE before[a]
      <4> SUFFICES ASSUME NEW a \in DOMAIN before
                   PROVE  (IF a \in Written THEN mem[a - edi + esi] ELSE mem[a])
                            = IF a \in dst .. edi' - 1 THEN before[a - dst + src] ELSE before[a]
        OBVIOUS
      <4>1. a \in Nat /\ edi >= dst
        BY <1>2, <1>4, <2>2
      <4>2. CASE a \in edi .. edi + unit - 1
        <5>1. a \in dst .. edi' - 1
          BY <1>1, <1>2, <2>4, <4>1, <4>2
        <5> QED
          BY <2>3, <4>2, <5>1 DEF Written
      <4>3. CASE a \notin edi .. edi + unit - 1
        <5>1. a \in dst .. edi' - 1 <=> a \in dst .. edi - 1
          BY <1>1, <1>2, <2>4, <4>1, <4>3
        <5> QED
          BY <2>2, <4>3, <5>1 DEF Written
      <4> QED
        BY <4>2, <4>3
    <3> QED
      BY <1>0, <1>5, <3>1 DEF Moved, Address
  <2>6. edi' \in Int /\ esi' = edi' - dst + src /\ edi' = dst + call.n - Rest' /\ Rest' \in 0 .. call.n
    BY <1>1, <1>2, <1>3, <1>4, <2>2, <2>4
  <2> QED
    BY <1>0, <1>1, <1>3, <1>6, <2>5, <2>6 DEF Progress, Moved
<1>7. CASE DF
  <2>1. src < dst
    BY <1>0, <1>7 DEF Overlaps
  <2>2. edi + unit = dst + rest /\ \A a \in DOMAIN before :
          mem[a] = IF a \in dst + rest .. dst + call.n - 1 THEN before[a - dst + src] ELSE before[a]
    BY <1>1, <1>7 DEF Moved
  <2>3. \A a \in DOMAIN before : a \in edi .. edi + unit - 1 => mem[a - edi + esi] = before[a - dst + src]
    <3> SUFFICES ASSUME NEW a \in DOMAIN before, a \in edi .. edi + unit - 1
                 PROVE  mem[a - edi + esi] = before[a - dst + src]
      OBVIOUS
    <3> DEFINE r == a - dst + src
    <3>1. a - edi + esi = r /\ r \in src .. src + call.n - 1 /\ r \notin dst + rest .. dst + call.n - 1
      BY <1>1, <1>2, <1>4, <2>1, <2>2
    <3> HIDE DEF r
    <3>2. r \in DOMAIN before
      BY <1>2, <3>1
    <3>3. mem[r] = before[r]
      BY <2>2, <3>1, <3>2
    <3> QED
      BY <3>1, <3>3 DEF r
  <2>4. edi' = edi - unit /\ esi' = esi - unit
    BY <1>0, <1>7 DEF Next_unit
  <2>5. mem' = Moved(dst + (rest - unit), dst + call.n - 1)
    <3>1. \A a \in DOMAIN before :
            (IF a \in Written THEN mem[a - edi + esi] ELSE mem[a])
              = IF a \in dst + (rest - unit) .. dst + call.n - 1 THEN before[a - dst + src] ELSE before[a]
      <4> SUFFICES ASSUME NEW a \in DOMAIN before
                   PROVE  (IF a \in Written THEN mem[a - edi + esi] ELSE mem[a])
                            = IF a \in dst + (rest - unit) .. dst + call.n - 1
                              THEN before[a - dst + src] ELSE before[a]
        OBVIOUS
      <4>1. a \in Nat
        BY <1>2
      <4>2. CASE a \in edi .. edi + unit - 1
        <5>1. a \in dst + (rest - unit) .. dst + call.n - 1
          BY <1>1, <1>2, <1>4, <2>2, <4>1, <4>2
        <5> QED
          BY <2>3, <4>2, <5>1 DEF Written
      <4>3. CASE a \notin edi .. edi + unit - 1
        <5>1. a \in dst + (rest - unit) .. dst + call.n - 1 <=> a \in dst + rest .. dst + call.n - 1
          BY <1>1, <1>2, <1>4, <2>2, <4>1, <4>3
        <5> HIDE DEF rest
        <5> QED
          BY <2>2, <4>3, <5>1 DEF Written
      <4> QED
        BY <4>2, <4>3
    <3> HIDE DEF rest
    <3> QED
      BY <1>0, <1>5, <3>1 DEF Moved, Address
  <2>6. edi' \in Int /\ esi' = edi' - dst + src /\ edi' + unit = dst + Rest' /\ Rest' \in 0 .. call.n
    BY <1>1, <1>2, <1>3, <1>4, <2>2, <2>4
  <2>7. mem' = Moved(dst + Rest', dst + call.n - 1)
    BY <1>3, <2>5
  <2> QED
    BY <1>0, <1>1, <1>3, <1>7, <2>6, <2>7 DEF Progress, Moved
<1> QED
  BY <1>6, <1>7

\* memset begins, and stores once more.
LEMMA StartsSetting ==
  ASSUME MemoryIInv, memset
  PROVE  Progress' /\ pc' = "stos" /\ DF' = FALSE /\ UNCHANGED calling /\ Sets
<1>0. Sets /\ pc = "call" /\ mem = before /\ InRange
  BY DEF MemoryIInv, Results, memset, Moves, Sets
<1>1. before = [a \in DOMAIN before |-> before[a]] /\ dst \in Nat /\ call.n \in Nat
  BY <1>0 DEF InRange
<1>2. pc' = "stos" /\ DF' = FALSE /\ edi' = dst /\ UNCHANGED <<mem, before, call>>
  BY DEF memset, calling
<1>3. unit' \in Nat \ {0} /\ ecx' \in Nat /\ Rest' = call.n
  <2>1. unit' = Unit({dst}, call.n) /\ ecx' = call.n \div unit'
    BY DEF memset
  <2> QED
    BY <1>1, <2>1, UnitFits DEF Rest
<1>4. dst' = dst
  BY <1>2 DEF dst
<1>5. Filled(dst - 1) = before
  BY <1>1 DEF Filled
<1>6. (mem = Filled(edi - 1))'
  BY <1>0, <1>2, <1>4, <1>5 DEF Filled
<1>7. (edi \in Int /\ edi = dst + call.n - Rest /\ Rest \in 0 .. call.n)'
  BY <1>1, <1>2, <1>3, <1>4
<1>8. Progress'
  BY <1>2, <1>3, <1>6, <1>7 DEF Progress
<1> QED
  BY <1>0, <1>2, <1>8 DEF calling

\* One repetition of stos sets one more unit, going up.
LEMMA Stores ==
  ASSUME MemoryIInv, stos
  PROVE  Progress'
<1>0. /\ pc = "stos" /\ pc' = "stos" /\ ecx > 0 /\ ecx' = ecx - 1 /\ unit' = unit
      /\ DF = FALSE /\ call' = call /\ before' = before /\ edi' = Next_unit(edi)
      /\ mem' = [a \in Address |-> IF a \in Written THEN Pattern(a - edi) ELSE mem[a]]
  BY DEF MemoryIInv, Courses, stos, calling
<1>1. /\ unit \in Nat \ {0} /\ ecx \in Nat /\ edi \in Int /\ Rest \in 0 .. call.n
      /\ edi = dst + call.n - Rest /\ mem = Filled(edi - 1)
  BY <1>0 DEF MemoryIInv, Progress
<1>2. DOMAIN before \subseteq Nat /\ dst \in Nat /\ call.n \in Nat
  <2>1. Sets
    BY <1>0 DEF MemoryIInv, Courses, Sets, Moves
  <2> QED
    BY <2>1 DEF MemoryIInv, InRange
<1>3. dst' = dst /\ Rest' = Rest - unit /\ Rest' \in Nat /\ ecx' \in Nat
  BY <1>0, <1>1, OneLess DEF dst, Rest
<1>4. edi' = edi + unit
  BY <1>0 DEF Next_unit
<1>5. DOMAIN mem = DOMAIN before
  BY <1>1 DEF Filled
<1>6. \A a \in DOMAIN before :
        (IF a \in Written THEN Pattern(a - edi) ELSE mem[a])
          = IF a \in dst .. edi' - 1 THEN call.c % BYTES ELSE before[a]
  <2> SUFFICES ASSUME NEW a \in DOMAIN before
               PROVE  (IF a \in Written THEN Pattern(a - edi) ELSE mem[a])
                        = IF a \in dst .. edi' - 1 THEN call.c % BYTES ELSE before[a]
    OBVIOUS
  <2>1. a \in Nat /\ edi >= dst
    BY <1>1, <1>2
  <2>2. CASE a \in edi .. edi + unit - 1
    <3>1. a \in dst .. edi' - 1
      BY <1>1, <1>2, <1>4, <2>1, <2>2
    <3> QED
      BY <2>2, <3>1 DEF Written, Pattern
  <2>3. CASE a \notin edi .. edi + unit - 1
    <3>1. a \in dst .. edi' - 1 <=> a \in dst .. edi - 1
      BY <1>1, <1>2, <1>4, <2>1, <2>3
    <3> QED
      BY <1>1, <2>3, <3>1 DEF Written, Filled
  <2> QED
    BY <2>2, <2>3
<1>7. (mem = Filled(edi - 1))'
  BY <1>0, <1>3, <1>5, <1>6 DEF Filled, Address
<1>8. (edi \in Int /\ edi = dst + call.n - Rest /\ Rest \in 0 .. call.n)'
  BY <1>0, <1>1, <1>2, <1>3, <1>4
<1> QED
  BY <1>0, <1>1, <1>3, <1>7, <1>8 DEF Progress

\* When nothing is left, everything is done.
LEMMA Ends ==
  ASSUME MemoryIInv, Repeated
  PROVE  /\ Sets => pc' = "done" /\ ~DF' /\ mem' = Filled(dst + call.n - 1)
         /\ Moves => /\ pc' \in {"cld", "done"} /\ (pc' = "done" => DF' = FALSE)
                     /\ mem' = Moved(dst, dst + call.n - 1)
         /\ Sets \/ Moves
<1>0. /\ pc \in {"movs", "stos"} /\ ecx = 0 /\ mem' = mem /\ DF' = DF
      /\ pc' = IF pc = "movs" /\ Overlaps THEN "cld" ELSE "done"
  BY DEF Repeated, registers
<1>1. /\ unit \in Nat \ {0} /\ edi \in Int
      /\ pc = "movs" => /\ ~DF => edi = dst + call.n - Rest /\ mem = Moved(dst, edi - 1)
                        /\ DF => mem = Moved(dst + Rest, dst + call.n - 1)
      /\ pc = "stos" => edi = dst + call.n - Rest /\ mem = Filled(edi - 1)
  BY <1>0 DEF MemoryIInv, Progress
<1>2. Rest = 0
  BY <1>0, <1>1 DEF Rest
<1>3. Sets \/ Moves
  BY <1>0 DEF MemoryIInv, Courses
<1>4. dst \in Nat /\ call.n \in Nat
  BY <1>3 DEF MemoryIInv, InRange
<1>5. (dst + call.n - Rest) - 1 = dst + call.n - 1 /\ dst + Rest = dst
  BY <1>2, <1>4
<1>6. CASE pc = "movs"
  <2>1. Moves /\ ~Sets
    BY <1>6 DEF MemoryIInv, Courses, Moves, Sets
  <2>2. DF = IF Overlaps THEN TRUE ELSE FALSE
    BY <1>6 DEF MemoryIInv, Courses
  <2>3. mem = Moved(dst, dst + call.n - 1)
    <3>1. CASE Overlaps
      <4>1. mem = Moved(dst + Rest, dst + call.n - 1)
        BY <1>1, <1>6, <2>2, <3>1
      <4> QED
        BY <1>5, <4>1
    <3>2. CASE ~Overlaps
      <4>1. edi = dst + call.n - Rest /\ mem = Moved(dst, edi - 1)
        BY <1>1, <1>6, <2>2, <3>2
      <4> QED
        BY <1>5, <4>1
    <3> QED
      BY <3>1, <3>2
  <2> QED
    BY <1>0, <1>6, <2>1, <2>2, <2>3
<1>7. CASE pc = "stos"
  <2>1. Sets /\ ~Moves
    BY <1>7 DEF MemoryIInv, Courses, Moves, Sets
  <2>2. DF = FALSE
    BY <1>7 DEF MemoryIInv, Courses
  <2>3. mem = Filled(dst + call.n - 1)
    <3>1. edi = dst + call.n - Rest /\ mem = Filled(edi - 1)
      BY <1>1, <1>7
    <3> QED
      BY <1>5, <3>1
  <2> QED
    BY <1>0, <1>7, <2>1, <2>2, <2>3
<1> QED
  BY <1>0, <1>6, <1>7

\* Every step of every function keeps the invariant of the blocks.
LEMMA StepMemoryIInv == MemoryIInv /\ [Next]_vars => MemoryIInv'
<1> SUFFICES ASSUME MemoryIInv, [Next]_vars PROVE MemoryIInv'
  OBVIOUS
<1>0. UNCHANGED calling
  BY DEF Next, vars, MemoryNext, memmove_up, memmove_down, memset, memset_nothing, movs, stos,
     Repeated, cld, StringsNext, Look, StartCopy, CopyAll, CopyPadding, CopyLimited,
     StrtolNext, strtol, Space, Sign, Prefix, Digits
<1>1. InRange' /\ (Moves' = Moves) /\ (Sets' = Sets) /\ call' = call /\ before' = before
  BY <1>0, CallKept DEF calling
<1>2. dst' = dst /\ src' = src /\ (Overlaps' = Overlaps)
  BY <1>1 DEF dst, src, Overlaps
<1>3. ~(Moves /\ Sets)
  BY DEF Moves, Sets
<1>4. CASE memmove_up \/ memmove_down
  <2>1. Progress' /\ pc' = "movs" /\ DF' = (IF Overlaps THEN TRUE ELSE FALSE) /\ Moves
    BY <1>4, StartsMoving
  <2> QED
    BY <1>1, <1>2, <1>3, <2>1 DEF MemoryIInv, Courses, Results
<1>5. CASE memset
  <2>1. Progress' /\ pc' = "stos" /\ DF' = FALSE /\ Sets
    BY <1>5, StartsSetting
  <2> QED
    BY <1>1, <1>2, <1>3, <2>1 DEF MemoryIInv, Courses, Results
<1>6. CASE memset_nothing
  <2>1. /\ pc = "call" /\ pc' = "done" /\ Sets /\ call.n = 0 /\ mem' = mem /\ DF' = DF
    BY <1>6 DEF memset_nothing, registers, Sets
  <2>2. mem = before /\ DF = FALSE
    BY <2>1 DEF MemoryIInv, Results, Courses
  <2>3. before = [a \in DOMAIN before |-> before[a]] /\ dst \in Nat
    BY <2>1 DEF MemoryIInv, InRange
  <2>4. (mem = Filled(dst + call.n - 1))'
    BY <1>1, <1>2, <2>1, <2>2, <2>3 DEF Filled
  <2> QED
    BY <1>1, <1>2, <1>3, <2>1, <2>2, <2>4 DEF MemoryIInv, Courses, Results, Progress
<1>7. CASE movs
  <2>1. Progress' /\ pc = "movs" /\ pc' = "movs" /\ DF' = DF
    BY <1>7, Repeats DEF movs
  <2> QED
    BY <1>1, <1>2, <1>3, <2>1 DEF MemoryIInv, Courses, Results
<1>8. CASE stos
  <2>1. Progress' /\ pc = "stos" /\ pc' = "stos" /\ DF' = DF
    BY <1>8, Stores DEF stos
  <2> QED
    BY <1>1, <1>2, <1>3, <2>1 DEF MemoryIInv, Courses, Results
<1>9. CASE Repeated
  <2>1. /\ Sets => pc' = "done" /\ ~DF' /\ mem' = Filled(dst + call.n - 1)
        /\ Moves => /\ pc' \in {"cld", "done"} /\ (pc' = "done" => DF' = FALSE)
                    /\ mem' = Moved(dst, dst + call.n - 1)
        /\ Sets \/ Moves
    BY <1>9, Ends
  <2>2. Sets => DF' = FALSE
    BY <1>9 DEF MemoryIInv, Courses, Repeated, registers, Moves, Sets
  <2>3. Sets => (mem = Filled(dst + call.n - 1))'
    BY <1>1, <1>2, <2>1 DEF Filled
  <2>4. Moves => (mem = Moved(dst, dst + call.n - 1))'
    BY <1>1, <1>2, <2>1 DEF Moved
  <2>5. Progress' /\ Results'
    BY <1>1, <1>3, <2>1, <2>3, <2>4 DEF Progress, Results
  <2>6. Courses'
    BY <1>1, <1>3, <2>1, <2>2 DEF Courses
  <2> QED
    BY <1>1, <2>5, <2>6 DEF MemoryIInv
<1>10. CASE cld
  <2>1. Moves /\ pc = "cld" /\ pc' = "done" /\ DF' = FALSE /\ mem' = mem
    BY <1>10 DEF cld, MemoryIInv, Courses
  <2>2. (mem = Moved(dst, dst + call.n - 1))'
    BY <1>1, <1>2, <2>1 DEF MemoryIInv, Results, Moved
  <2> QED
    BY <1>1, <1>3, <2>1, <2>2 DEF MemoryIInv, Courses, Results, Progress
\* The functions on strings leave these alone.
<1>11. CASE (StringsNext \/ StrtolNext) /\ UNCHANGED registers
  <2>1. ~Moves /\ ~Sets
    BY <1>11 DEF StringsNext, Look, StartCopy, CopyAll, CopyPadding, CopyLimited, Looks, Copies,
       StrtolNext, strtol, Space, Sign, Prefix, Digits, MemoryIInv, Courses, Moves, Sets
  <2>2. pc' \notin {"movs", "stos", "cld"}
    BY <1>11, <2>1 DEF StringsNext, Look, StartCopy, CopyAll, CopyPadding, CopyLimited,
       StrtolNext, strtol, Space, Sign, Prefix, Digits, MemoryIInv, Courses
  <2>3. DF' = DF /\ DF = FALSE
    BY <1>11, <2>1 DEF registers, MemoryIInv, Courses
  <2> QED
    BY <1>1, <2>1, <2>2, <2>3 DEF MemoryIInv, Courses, Progress, Results
<1>12. CASE UNCHANGED vars
  <2>1. UNCHANGED <<mem, before, call, pc, DF, unit, edi, esi, ecx>>
    BY <1>12 DEF vars, calling, registers
  <2>2. Courses'
    BY <2>1 DEF MemoryIInv, Courses, Moves, Sets, Overlaps, dst, src
  <2>3. Progress'
    BY <2>1 DEF MemoryIInv, Progress, Rest, Moved, Filled, dst, src
  <2>4. Results'
    BY <2>1 DEF MemoryIInv, Results, Moves, Sets, Moved, Filled, dst, src
  <2> QED
    BY <1>1, <2>2, <2>3, <2>4 DEF MemoryIInv
<1> QED
  BY <1>4, <1>5, <1>6, <1>7, <1>8, <1>9, <1>10, <1>11, <1>12 DEF Next, MemoryNext

\* However the two ranges overlap, whatever is moved at a time and in whichever direction,
\* the bytes from src are at dst in the end, memset's are all set, everything else is as it
\* was, and the direction flag is clear.
THEOREM MemoryCorrect == Spec => []MovesAsPromised
<1>1. MemoryIInv => MovesAsPromised
  <2> SUFFICES ASSUME MemoryIInv, pc = "done" PROVE MovesAsPromised
    BY DEF MovesAsPromised, MemmoveMoves, MemsetSets, DirectionCleared
  <2>1. ~DF
    BY DEF MemoryIInv, Courses
  <2>2. Moves => mem = [a \in Address |-> IF a \in dst .. dst + call.n - 1
                                          THEN before[a - dst + src] ELSE before[a]]
    BY DEF MemoryIInv, Results, Moved, Address
  <2>3. Sets => mem = [a \in Address |-> IF a \in dst .. dst + call.n - 1
                                         THEN call.c % BYTES ELSE before[a]]
    BY DEF MemoryIInv, Results, Filled, Address
  <2> QED
    BY <2>1, <2>2, <2>3 DEF MovesAsPromised, MemmoveMoves, MemsetSets, DirectionCleared, Moves, Sets
<1> QED
  BY <1>1, InitMemoryIInv, StepMemoryIInv, PTL DEF Spec

-----------------------------------------------------------------------------
(* Loops. *)

\* A set of naturals that is not empty has a smallest member.
LEMMA Smallest ==
  ASSUME NEW T, T \subseteq Nat, T # {}
  PROVE  \E x \in T : \A y \in T : x <= y
<1>1. PICK x \in T : \A y \in T : ~ (<<y, x>> \in OpToRel(<, Nat))
  BY NatLessThanWellFounded, WFMin
<1>2. \A y \in T : ~ (y < x)
  BY <1>1 DEF OpToRel
<1> QED
  BY <1>2

\* A loop that returns v[k] at the first k of S.
IsLoop(g, S, v) == g = [k \in Nat |-> IF k \in S THEN v[k] ELSE g[k + 1]]

\* There is such a function.
LEMMA LoopExists ==
  ASSUME NEW S, S \subseteq Nat, NEW v
  PROVE  \E g : IsLoop(g, S, v)
<1> DEFINE To(k) == {e \in S : k <= e}
           Stop(k) == CHOOSE e \in To(k) : \A f \in To(k) : e <= f
           g == [k \in Nat |-> IF To(k) = {} THEN 0 ELSE v[Stop(k)]]
<1>1. ASSUME NEW k \in Nat, To(k) # {}
      PROVE  Stop(k) \in To(k) /\ \A f \in To(k) : Stop(k) <= f
  <2>1. To(k) \subseteq Nat
    OBVIOUS
  <2>2. \E e \in To(k) : \A f \in To(k) : e <= f
    BY <1>1, <2>1, Smallest
  <2> HIDE DEF To
  <2> QED
    BY <2>2
<1>2. ASSUME NEW k \in Nat
      PROVE  g[k] = IF k \in S THEN v[k] ELSE g[k + 1]
  <2>1. CASE k \in S
    <3>1. k \in To(k)
      BY <2>1
    <3>2. Stop(k) \in To(k) /\ Stop(k) <= k
      BY <1>1, <3>1
    <3>3. Stop(k) = k
      <4>1. \A x : x \in To(k) /\ x <= k => x = k
        OBVIOUS
      <4> HIDE DEF Stop, To
      <4> QED
        BY <3>2, <4>1
    <3> HIDE DEF Stop, To
    <3> QED
      BY <2>1, <3>1, <3>3
  <2>2. CASE k \notin S
    <3>1. To(k) = To(k + 1)
      <4>1. \A e \in S : e \in Nat /\ e # k
        BY <2>2
      <4>2. \A e \in S : k <= e <=> k + 1 <= e
        BY <4>1
      <4> QED
        BY <4>2
    <3>2. Stop(k) = Stop(k + 1)
      BY <3>1
    <3>3. k + 1 \in Nat
      OBVIOUS
    <3> HIDE DEF Stop, To
    <3> QED
      BY <2>2, <3>1, <3>2, <3>3
  <2> HIDE DEF g
  <2> QED
    BY <2>1, <2>2
<1>3. g = [k \in Nat |-> IF k \in S THEN v[k] ELSE g[k + 1]]
  <2>1. g = [k \in Nat |-> g[k]]
    OBVIOUS
  <2> HIDE DEF g
  <2> QED
    BY <1>2, <2>1
<1> HIDE DEF g
<1> QED
  BY <1>3 DEF IsLoop

\* That is what it returns.
LEMMA LoopReturns ==
  ASSUME NEW S, NEW v, NEW g, IsLoop(g, S, v),
         NEW e \in S \cap Nat, \A j \in 0 .. e - 1 : j \notin S
  PROVE  g[0] = v[e]
<1> DEFINE T == {j \in 0 .. e : g[e - j] # v[e]}
<1>0. \A k \in Nat : g[k] = IF k \in S THEN v[k] ELSE g[k + 1]
  BY DEF IsLoop
<1>1. ASSUME T # {} PROVE FALSE
  <2>1. T \subseteq Nat
    OBVIOUS
  <2>2. PICK j \in T : \A i \in T : j <= i
    BY <1>1, <2>1, Smallest
  <2>3. j \in 0 .. e /\ g[e - j] # v[e]
    OBVIOUS
  <2>4. CASE j = 0
    <3>1. e - j = e
      BY <2>4
    <3> QED
      BY <1>0, <2>3, <3>1
  <2>5. CASE j # 0
    <3>1. j - 1 \in 0 .. e /\ j - 1 < j /\ e - j \in 0 .. e - 1 /\ e - j + 1 = e - (j - 1)
      BY <2>3, <2>5
    <3>2. j - 1 \notin T
      BY <2>2, <2>3, <3>1
    <3>3. g[e - (j - 1)] = v[e]
      BY <3>1, <3>2
    <3>4. e - j \in Nat /\ e - j \notin S
      BY <3>1
    <3> QED
      BY <1>0, <2>3, <3>1, <3>3, <3>4
  <2> QED
    BY <2>4, <2>5
<1>2. e \in 0 .. e /\ e - e = 0
  OBVIOUS
<1> HIDE DEF T
<1>3. e \notin T
  BY <1>1
<1> QED
  BY <1>2, <1>3 DEF T

-----------------------------------------------------------------------------
(* Memory with strings in it. *)

\* The last address of such a memory.
LastOf(m) == Cardinality(DOMAIN m) - 1

\* What such a memory is, told with its last address, which Cardinality names.
LEMMA StringMemoryIs ==
  ASSUME NEW m, StringMemory(m)
  PROVE  /\ LastOf(m) \in Nat /\ DOMAIN m = 0 .. LastOf(m) /\ m[LastOf(m)] = 0
         /\ Cardinality(DOMAIN m) = LastOf(m) + 1
         /\ m \in [0 .. LastOf(m) -> 0 .. BYTES - 1]
         /\ \A a \in DOMAIN m : m[a] \in Nat
<1>1. PICK last \in Nat : m \in [0 .. last -> 0 .. BYTES - 1] /\ m[last] = 0
  BY DEF StringMemory
<1>2. DOMAIN m = 0 .. last
  BY <1>1
<1>3. Cardinality(0 .. last) = last + 1
  <2>1. 0 \in Int /\ last \in Int /\ ~(0 > last)
    OBVIOUS
  <2>2. Cardinality(0 .. last) = last - 0 + 1
    BY <2>1, FS_Interval
  <2> QED
    BY <2>2
<1>4. LastOf(m) = last /\ Cardinality(DOMAIN m) = last + 1
  BY <1>2, <1>3 DEF LastOf
<1>5. \A a \in DOMAIN m : m[a] \in Nat
  BY <1>1, MemoryAssumption
<1> QED
  BY <1>1, <1>2, <1>4, <1>5

\* Every search that stops at a NUL stops, and before the end of memory.
LEMMA BeforeIs ==
  ASSUME NEW m, StringMemory(m), NEW p \in DOMAIN m, NEW stop, 0 \in stop
  PROVE  /\ Before(m, p, stop) \in Nat /\ p + Before(m, p, stop) \in DOMAIN m
         /\ m[p + Before(m, p, stop)] \in stop
         /\ \A j \in 0 .. Before(m, p, stop) - 1 : p + j \in DOMAIN m /\ m[p + j] \notin stop
<1> DEFINE last == LastOf(m)
           T == {k \in 0 .. last - p : m[p + k] \in stop}
<1>1. /\ last \in Nat /\ DOMAIN m = 0 .. last /\ m[last] = 0 /\ p \in 0 .. last
      /\ Cardinality(DOMAIN m) - 1 - p = last - p
  BY StringMemoryIs
<1> HIDE DEF last
<1>2. last - p \in T
  <2>1. last - p \in 0 .. last - p /\ p + (last - p) = last
    BY <1>1
  <2> QED
    BY <1>1, <2>1
<1>3. T \subseteq Nat
  BY <1>1
<1>4. PICK k \in T : \A j \in T : k <= j
  BY <1>2, <1>3, Smallest
<1>5. \A j \in 0 .. k - 1 : m[p + j] \notin stop
  <2> SUFFICES ASSUME NEW j \in 0 .. k - 1, m[p + j] \in stop PROVE FALSE
    OBVIOUS
  <2>1. j \in T
    BY <1>1, <1>4
  <2> QED
    BY <1>1, <1>4, <2>1
<1> DEFINE b == Before(m, p, stop)
<1>6. b \in 0 .. last - p /\ m[p + b] \in stop /\ \A j \in 0 .. b - 1 : m[p + j] \notin stop
  BY <1>1, <1>4, <1>5 DEF Before
<1> HIDE DEF b
<1>7. b \in Nat /\ p + b \in DOMAIN m /\ \A j \in 0 .. b - 1 : p + j \in DOMAIN m
  BY <1>1, <1>6
<1> QED
  BY <1>6, <1>7 DEF b

\* Length is the distance to the first NUL.
LEMMA LengthIs ==
  ASSUME NEW m, StringMemory(m), NEW p \in DOMAIN m
  PROVE  /\ Length(m, p) \in Nat /\ p + Length(m, p) \in DOMAIN m /\ m[p + Length(m, p)] = 0
         /\ \A j \in 0 .. Length(m, p) - 1 : p + j \in DOMAIN m /\ m[p + j] # 0
  BY BeforeIs DEF Length

-----------------------------------------------------------------------------
(* The loops that only look. *)

\* strlen returns the length of the string.
LEMMA strlenIs ==
  ASSUME NEW m, StringMemory(m), NEW p \in DOMAIN m
  PROVE  strlen(m, p) = Length(m, p)
<1> DEFINE S == {k \in Nat : m[p + k] = 0}
           v == [k \in Nat |-> k]
           Is(g) == g = [k \in Nat |-> IF m[p + k] # 0 THEN g[k + 1] ELSE k]
           e == Length(m, p)
<1>1. \A g : Is(g) <=> IsLoop(g, S, v)
  BY DEF IsLoop
<1>2. S \subseteq Nat /\ e \in S \cap Nat /\ v[e] = e /\ \A j \in 0 .. e - 1 : j \notin S
  BY LengthIs
<1>3. PICK g : Is(g) /\ strlen(m, p) = g[0]
  <2>1. \E g : Is(g)
    <3> HIDE DEF S, v, Is
    <3> QED
      BY <1>1, <1>2, LoopExists
  <2> QED
    BY <2>1 DEF strlen
<1> HIDE DEF S, v, e, Is
<1> QED
  BY <1>1, <1>2, <1>3, LoopReturns DEF e

\* strnlen stops at the NUL or after size bytes.
LEMMA strnlenIs ==
  ASSUME NEW m, StringMemory(m), NEW p \in DOMAIN m, NEW n \in Nat
  PROVE  strnlen(m, p, n) = Least(n, Length(m, p))
<1> DEFINE S == {k \in Nat : ~(k < n /\ m[p + k] # 0)}
           v == [k \in Nat |-> k]
           Is(g) == g = [k \in Nat |-> IF k < n /\ m[p + k] # 0 THEN g[k + 1] ELSE k]
           e == Least(n, Length(m, p))
<1>1. \A g : Is(g) <=> IsLoop(g, S, v)
  BY DEF IsLoop
<1>2. S \subseteq Nat /\ e \in S \cap Nat /\ \A j \in 0 .. e - 1 : j \notin S
  <2>1. e \in Nat /\ (e = n \/ e = Length(m, p)) /\ e <= n /\ e <= Length(m, p)
    BY LengthIs DEF Least
  <2>2. e \in S
    BY <2>1, LengthIs
  <2>3. ASSUME NEW j \in 0 .. e - 1 PROVE j \notin S
    <3>1. j \in 0 .. Length(m, p) - 1 /\ j < n
      BY <2>1, LengthIs
    <3> QED
      BY <3>1, LengthIs
  <2> HIDE DEF S, e
  <2> QED
    BY <2>1, <2>2, <2>3 DEF S
<1>3. PICK g : Is(g) /\ strnlen(m, p, n) = g[0]
  <2>1. \E g : Is(g)
    <3> HIDE DEF S, v, Is
    <3> QED
      BY <1>1, <1>2, LoopExists
  <2> QED
    BY <2>1 DEF strnlen
<1>4. strnlen(m, p, n) = v[e]
  <2> HIDE DEF S, v, e, Is
  <2> QED
    BY <1>1, <1>2, <1>3, LoopReturns
<1> QED
  BY <1>2, <1>4

\* strchr returns the first place of c ahead of the NUL, or a null pointer.
LEMMA strchrIs ==
  ASSUME NEW m, StringMemory(m), NEW p \in DOMAIN m, NEW c \in Nat \ {0}
  PROVE  LET at == p + Before(m, p, {0, c}) IN strchr(m, p, c) = IF m[at] = c THEN at ELSE Null
<1> DEFINE S == {k \in Nat : m[p + k] = 0 \/ m[p + k] = c}
           v == [k \in Nat |-> IF m[p + k] = 0 THEN Null ELSE p + k]
           Is(g) == g = [k \in Nat |-> IF m[p + k] = 0 THEN Null ELSE IF m[p + k] = c THEN p + k ELSE g[k + 1]]
           e == Before(m, p, {0, c})
<1>1. \A g : Is(g) <=> IsLoop(g, S, v)
  BY DEF IsLoop
<1>2. S \subseteq Nat /\ e \in S \cap Nat /\ \A j \in 0 .. e - 1 : j \notin S
  BY BeforeIs
<1>3. PICK g : Is(g) /\ strchr(m, p, c) = g[0]
  <2>1. \E g : Is(g)
    <3> HIDE DEF S, v, Is
    <3> QED
      BY <1>1, <1>2, LoopExists
  <2> QED
    BY <2>1 DEF strchr
<1>4. strchr(m, p, c) = v[e]
  <2> HIDE DEF S, v, e, Is
  <2> QED
    BY <1>1, <1>2, <1>3, LoopReturns
<1> QED
  BY <1>2, <1>4

\* strfind returns the first place of c, or the place of the NUL.
LEMMA strfindIs ==
  ASSUME NEW m, StringMemory(m), NEW p \in DOMAIN m, NEW c \in Nat \ {0}
  PROVE  strfind(m, p, c) = p + Before(m, p, {0, c})
<1> DEFINE S == {k \in Nat : m[p + k] = 0 \/ m[p + k] = c}
           v == [k \in Nat |-> p + k]
           Is(g) == g = [k \in Nat |-> IF m[p + k] # 0 /\ m[p + k] # c THEN g[k + 1] ELSE p + k]
           e == Before(m, p, {0, c})
<1>1. \A g : Is(g) <=> IsLoop(g, S, v)
  BY DEF IsLoop
<1>2. S \subseteq Nat /\ e \in S \cap Nat /\ \A j \in 0 .. e - 1 : j \notin S
  BY BeforeIs
<1>3. PICK g : Is(g) /\ strfind(m, p, c) = g[0]
  <2>1. \E g : Is(g)
    <3> HIDE DEF S, v, Is
    <3> QED
      BY <1>1, <1>2, LoopExists
  <2> QED
    BY <2>1 DEF strfind
<1>4. strfind(m, p, c) = v[e]
  <2> HIDE DEF S, v, e, Is
  <2> QED
    BY <1>1, <1>2, <1>3, LoopReturns
<1> QED
  BY <1>2, <1>4

\* memfind returns the first place of c among n bytes, or their end.
LEMMA memfindIs ==
  ASSUME NEW m, NEW p \in Nat, NEW c, NEW n \in Nat
  PROVE  LET found == {a \in p .. p + n - 1 : m[a] = c % BYTES} IN
         IF found = {} THEN memfind(m, p, c, n) = p + n
         ELSE memfind(m, p, c, n) \in found /\ \A a \in found : memfind(m, p, c, n) <= a
<1> DEFINE S == {k \in Nat : ~(k < n /\ m[p + k] # c % BYTES)}
           v == [k \in Nat |-> p + k]
           Is(g) == g = [k \in Nat |-> IF k < n /\ m[p + k] # c % BYTES THEN g[k + 1] ELSE p + k]
           found == {a \in p .. p + n - 1 : m[a] = c % BYTES}
<1>1. \A g : Is(g) <=> IsLoop(g, S, v)
  BY DEF IsLoop
<1>2. PICK e \in S \cap Nat : \A j \in 0 .. e - 1 : j \notin S
  <2>1. S \subseteq Nat /\ n \in S
    OBVIOUS
  <2>2. PICK e \in S : \A j \in S : e <= j
    BY <2>1, Smallest
  <2> HIDE DEF S
  <2>3. e \in Nat
    BY <2>1
  <2>4. \A j \in 0 .. e - 1 : j \notin S
    BY <2>2, <2>3
  <2> QED
    BY <2>3, <2>4
<1>3. PICK g : Is(g) /\ memfind(m, p, c, n) = g[0]
  <2>1. \E g : Is(g)
    <3>1. S \subseteq Nat
      OBVIOUS
    <3> HIDE DEF S, v, Is
    <3> QED
      BY <1>1, <3>1, LoopExists
  <2> QED
    BY <2>1 DEF memfind
<1>4. memfind(m, p, c, n) = v[e]
  <2> HIDE DEF S, v, Is
  <2> QED
    BY <1>1, <1>2, <1>3, LoopReturns
<1>5. memfind(m, p, c, n) = p + e /\ e \in 0 .. n
  BY <1>2, <1>4
<1>6. \A a \in found : p + e <= a
  <2> SUFFICES ASSUME NEW a \in found, a < p + e PROVE FALSE
    BY <1>5
  <2>1. a - p \in 0 .. e - 1 /\ p + (a - p) = a
    BY <1>5
  <2> QED
    BY <1>2, <2>1
<1>7. CASE e = n
  <2>1. found = {}
    BY <1>5, <1>6, <1>7
  <2> QED
    BY <1>5, <1>7, <2>1
<1>8. CASE e < n
  <2>1. p + e \in found
    BY <1>2, <1>5, <1>8
  <2> HIDE DEF found
  <2> QED
    BY <1>5, <1>6, <2>1 DEF found
<1> QED
  BY <1>5, <1>7, <1>8

\* What a comparison returns, when D are the places that decide.
Compares(r, D, m, p, q) ==
  IF D = {} THEN r = 0 ELSE \E k \in D : (\A j \in D : k <= j) /\ r = m[p + k] - m[q + k]

\* memcmp compares the first bytes that differ.
LEMMA memcmpIs ==
  ASSUME NEW m, StringMemory(m), NEW p, NEW q, NEW n \in Nat,
         p \in 0 .. Cardinality(DOMAIN m) - n, q \in 0 .. Cardinality(DOMAIN m) - n
  PROVE  LET D == {k \in 0 .. LastOf(m) :
                     /\ {p + k, q + k} \subseteq DOMAIN m /\ k < n /\ m[p + k] # m[q + k]}
         IN  Compares(memcmp(m, p, q, n), D, m, p, q)
<1> DEFINE S == {k \in Nat : k = n \/ m[p + k] # m[q + k]}
           v == [k \in Nat |-> IF k = n THEN 0 ELSE m[p + k] - m[q + k]]
           Is(g) == g = [k \in Nat |-> IF k = n THEN 0 ELSE IF m[p + k] # m[q + k] THEN m[p + k] - m[q + k] ELSE g[k + 1]]
           D == {k \in 0 .. LastOf(m) :
                   /\ {p + k, q + k} \subseteq DOMAIN m /\ k < n /\ m[p + k] # m[q + k]}
<1>1. \A g : Is(g) <=> IsLoop(g, S, v)
  BY DEF IsLoop
<1>2. PICK e \in S \cap Nat : \A j \in 0 .. e - 1 : j \notin S
  <2>1. S \subseteq Nat /\ n \in S
    OBVIOUS
  <2>2. PICK e \in S : \A j \in S : e <= j
    BY <2>1, Smallest
  <2> HIDE DEF S
  <2>3. e \in Nat
    BY <2>1
  <2>4. \A j \in 0 .. e - 1 : j \notin S
    BY <2>2, <2>3
  <2> QED
    BY <2>3, <2>4
<1>3. PICK g : Is(g) /\ memcmp(m, p, q, n) = g[0]
  <2>1. \E g : Is(g)
    <3>1. S \subseteq Nat
      OBVIOUS
    <3> HIDE DEF S, v, Is
    <3> QED
      BY <1>1, <3>1, LoopExists
  <2> QED
    BY <2>1 DEF memcmp
<1>4. memcmp(m, p, q, n) = v[e]
  <2> HIDE DEF S, v, Is
  <2> QED
    BY <1>1, <1>2, <1>3, LoopReturns
<1> DEFINE r == memcmp(m, p, q, n)
           last == LastOf(m)
<1>5. last \in Nat /\ DOMAIN m = 0 .. last /\ p \in Nat /\ q \in Nat
      /\ p + n <= last + 1 /\ q + n <= last + 1
  BY StringMemoryIs
<1>6. e \in Nat /\ r = IF e = n THEN 0 ELSE m[p + e] - m[q + e]
  BY <1>2, <1>4
<1> HIDE DEF r, last
<1>8. e <= n
  <2> SUFFICES ASSUME n < e PROVE FALSE
    BY <1>6
  <2>1. n \in 0 .. e - 1
    BY <1>6
  <2> QED
    BY <1>2, <2>1
<1>7. \A k \in D : k \in Nat /\ e <= k
  <2>0. \A k \in D : k \in Nat
    BY <1>5 DEF last
  <2> SUFFICES ASSUME NEW k \in D, k < e PROVE FALSE
    BY <1>6, <2>0
  <2>1. k \in 0 .. e - 1
    BY <1>5, <1>6
  <2> QED
    BY <1>2, <2>1
<1>9. CASE e = n
  <2>1. D = {}
    BY <1>6, <1>7, <1>9
  <2> QED
    BY <1>6, <1>9, <2>1 DEF Compares, r
<1>10. CASE e < n
  <2>1. m[p + e] # m[q + e]
    BY <1>2, <1>10
  <2>2. e \in 0 .. LastOf(m) /\ {p + e, q + e} \subseteq DOMAIN m
    BY <1>5, <1>6, <1>10 DEF last
  <2>3. e \in D /\ r = m[p + e] - m[q + e]
    BY <1>6, <1>10, <2>1, <2>2
  <2> HIDE DEF D
  <2> QED
    BY <1>7, <2>3 DEF Compares, r, D
<1> QED
  BY <1>6, <1>8, <1>9, <1>10

\* strcmp compares at the first difference, up to the NUL.
LEMMA strcmpIs ==
  ASSUME NEW m, StringMemory(m), NEW p \in DOMAIN m, NEW q \in DOMAIN m
  PROVE  LET D == {k \in 0 .. LastOf(m) :
                     /\ {p + k, q + k} \subseteq DOMAIN m /\ m[p + k] # m[q + k]
                     /\ \A j \in 0 .. k - 1 : m[p + j] # 0}
         IN  Compares(strcmp(m, p, q), D, m, p, q)
<1> DEFINE S == {k \in Nat : ~(m[p + k] # 0 /\ m[p + k] = m[q + k])}
           v == [k \in Nat |-> m[p + k] - m[q + k]]
           Is(g) == g = [k \in Nat |-> IF m[p + k] # 0 /\ m[p + k] = m[q + k] THEN g[k + 1]
                                         ELSE m[p + k] - m[q + k]]
           D == {k \in 0 .. LastOf(m) :
                     /\ {p + k, q + k} \subseteq DOMAIN m /\ m[p + k] # m[q + k]
                     /\ \A j \in 0 .. k - 1 : m[p + j] # 0}
<1>1. \A g : Is(g) <=> IsLoop(g, S, v)
  BY DEF IsLoop
<1>2. PICK e \in S \cap Nat : \A j \in 0 .. e - 1 : j \notin S
  <2>1. S \subseteq Nat /\ Length(m, p) \in S
    BY LengthIs
  <2>2. PICK e \in S : \A j \in S : e <= j
    BY <2>1, Smallest
  <2> HIDE DEF S
  <2>3. e \in Nat
    BY <2>1
  <2>4. \A j \in 0 .. e - 1 : j \notin S
    BY <2>2, <2>3
  <2> QED
    BY <2>3, <2>4
<1>3. PICK g : Is(g) /\ strcmp(m, p, q) = g[0]
  <2>1. \E g : Is(g)
    <3>1. S \subseteq Nat
      OBVIOUS
    <3> HIDE DEF S, v, Is
    <3> QED
      BY <1>1, <3>1, LoopExists
  <2> QED
    BY <2>1 DEF strcmp
<1>4. strcmp(m, p, q) = v[e]
  <2> HIDE DEF S, v, Is
  <2> QED
    BY <1>1, <1>2, <1>3, LoopReturns
<1> DEFINE r == strcmp(m, p, q)
           last == LastOf(m)
<1>5. last \in Nat /\ DOMAIN m = 0 .. last /\ p \in Nat /\ q \in Nat
  BY StringMemoryIs
<1>6. e \in Nat /\ r = m[p + e] - m[q + e]
  BY <1>2, <1>4
<1> HIDE DEF r, last
<1>7. \A k \in D : k \in Nat /\ e <= k
  <2>0. \A k \in D : k \in Nat
    BY <1>5 DEF last
  <2> SUFFICES ASSUME NEW k \in D, k < e PROVE FALSE
    BY <1>6, <2>0
  <2>1. k \in 0 .. e - 1
    BY <1>5, <1>6
  <2> QED
    BY <1>2, <2>1
\* Up to there both strings are in memory.
<1>8. p + e \in DOMAIN m /\ q + e \in DOMAIN m
  <2>1. e <= Length(m, p)
    <3> SUFFICES ASSUME Length(m, p) < e PROVE FALSE
      BY <1>6, LengthIs
    <3>1. Length(m, p) \in 0 .. e - 1 /\ m[p + Length(m, p)] = 0
      BY <1>6, LengthIs
    <3> QED
      BY <1>2, <3>1
  <2>2. e <= Length(m, q)
    <3> SUFFICES ASSUME Length(m, q) < e PROVE FALSE
      BY <1>6, LengthIs
    <3>1. Length(m, q) \in 0 .. e - 1 /\ m[q + Length(m, q)] = 0
      BY <1>6, LengthIs
    <3> QED
      BY <1>2, <3>1
  <2>3. p + Length(m, p) \in 0 .. last /\ q + Length(m, q) \in 0 .. last
        /\ Length(m, p) \in Nat /\ Length(m, q) \in Nat
    BY <1>5, LengthIs
  <2> QED
    BY <1>5, <1>6, <2>1, <2>2, <2>3
<1>9. m[p + e] \in Nat /\ m[q + e] \in Nat
  BY <1>8, StringMemoryIs
<1>10. CASE m[p + e] # m[q + e]
  <2>1. e \in 0 .. LastOf(m)
    BY <1>5, <1>6, <1>8 DEF last
  <2>2. \A j \in 0 .. e - 1 : m[p + j] # 0
    BY <1>2, <1>6
  <2>3. e \in D /\ r = m[p + e] - m[q + e]
    BY <1>6, <1>8, <1>10, <2>1, <2>2
  <2> HIDE DEF D
  <2> QED
    BY <1>7, <2>3 DEF Compares, r, D
<1>11. CASE m[p + e] = m[q + e]
  <2>1. r = 0
    BY <1>6, <1>9, <1>11
  <2>2. D = {}
    <3> SUFFICES ASSUME NEW k \in D PROVE FALSE
      OBVIOUS
    <3>1. k \in Nat /\ e <= k /\ m[p + k] # m[q + k]
      BY <1>5, <1>7
    <3>2. e < k
      BY <1>6, <1>11, <3>1
    <3>3. e \in 0 .. k - 1
      BY <1>6, <3>1, <3>2
    <3>4. m[p + e] # 0
      BY <3>3
    <3> QED
      BY <1>2, <1>11, <3>3, <3>4
  <2> HIDE DEF D
  <2> QED
    BY <2>1, <2>2 DEF Compares, r, D
<1> QED
  BY <1>6, <1>8, <1>10, <1>11

\* strncmp does so within n bytes.
LEMMA strncmpIs ==
  ASSUME NEW m, StringMemory(m), NEW p \in DOMAIN m, NEW q \in DOMAIN m, NEW n \in Nat
  PROVE  LET D == {k \in 0 .. LastOf(m) :
                     /\ {p + k, q + k} \subseteq DOMAIN m /\ k < n /\ m[p + k] # m[q + k]
                     /\ \A j \in 0 .. k - 1 : m[p + j] # 0}
         IN  Compares(strncmp(m, p, q, n), D, m, p, q)
<1> DEFINE S == {k \in Nat : ~(k < n /\ m[p + k] # 0 /\ m[p + k] = m[q + k])}
           v == [k \in Nat |-> IF k = n THEN 0 ELSE m[p + k] - m[q + k]]
           Is(g) == g = [k \in Nat |-> IF k < n /\ m[p + k] # 0 /\ m[p + k] = m[q + k] THEN g[k + 1]
                                         ELSE IF k = n THEN 0 ELSE m[p + k] - m[q + k]]
           D == {k \in 0 .. LastOf(m) :
                     /\ {p + k, q + k} \subseteq DOMAIN m /\ k < n /\ m[p + k] # m[q + k]
                     /\ \A j \in 0 .. k - 1 : m[p + j] # 0}
<1>1. \A g : Is(g) <=> IsLoop(g, S, v)
  BY DEF IsLoop
<1>2. PICK e \in S \cap Nat : \A j \in 0 .. e - 1 : j \notin S
  <2>1. S \subseteq Nat /\ Length(m, p) \in S
    BY LengthIs
  <2>2. PICK e \in S : \A j \in S : e <= j
    BY <2>1, Smallest
  <2> HIDE DEF S
  <2>3. e \in Nat
    BY <2>1
  <2>4. \A j \in 0 .. e - 1 : j \notin S
    BY <2>2, <2>3
  <2> QED
    BY <2>3, <2>4
<1>3. PICK g : Is(g) /\ strncmp(m, p, q, n) = g[0]
  <2>1. \E g : Is(g)
    <3>1. S \subseteq Nat
      OBVIOUS
    <3> HIDE DEF S, v, Is
    <3> QED
      BY <1>1, <3>1, LoopExists
  <2> QED
    BY <2>1 DEF strncmp
<1>4. strncmp(m, p, q, n) = v[e]
  <2> HIDE DEF S, v, Is
  <2> QED
    BY <1>1, <1>2, <1>3, LoopReturns
<1> DEFINE r == strncmp(m, p, q, n)
           last == LastOf(m)
<1>5. last \in Nat /\ DOMAIN m = 0 .. last /\ p \in Nat /\ q \in Nat
  BY StringMemoryIs
<1>6. e \in Nat /\ r = IF e = n THEN 0 ELSE m[p + e] - m[q + e]
  BY <1>2, <1>4
<1> HIDE DEF r, last
<1>7. \A k \in D : k \in Nat /\ e <= k
  <2>0. \A k \in D : k \in Nat
    BY <1>5 DEF last
  <2> SUFFICES ASSUME NEW k \in D, k < e PROVE FALSE
    BY <1>6, <2>0
  <2>1. k \in 0 .. e - 1
    BY <1>5, <1>6
  <2> QED
    BY <1>2, <2>1
\* Up to there both strings are in memory.
<1>8. e <= n /\ p + e \in DOMAIN m /\ q + e \in DOMAIN m
  <2>1. e <= Length(m, p)
    <3> SUFFICES ASSUME Length(m, p) < e PROVE FALSE
      BY <1>6, LengthIs
    <3>1. Length(m, p) \in 0 .. e - 1 /\ m[p + Length(m, p)] = 0
      BY <1>6, LengthIs
    <3> QED
      BY <1>2, <3>1
  <2>2. e <= Length(m, q)
    <3> SUFFICES ASSUME Length(m, q) < e PROVE FALSE
      BY <1>6, LengthIs
    <3>1. Length(m, q) \in 0 .. e - 1 /\ m[q + Length(m, q)] = 0
      BY <1>6, LengthIs
    <3> QED
      BY <1>2, <3>1
  <2>3. p + Length(m, p) \in 0 .. last /\ q + Length(m, q) \in 0 .. last
        /\ Length(m, p) \in Nat /\ Length(m, q) \in Nat
    BY <1>5, LengthIs
  <2>4. e <= n
    <3> SUFFICES ASSUME n < e PROVE FALSE
      BY <1>6
    <3>1. n \in 0 .. e - 1
      BY <1>6
    <3> QED
      BY <1>2, <3>1
  <2> QED
    BY <1>5, <1>6, <2>1, <2>2, <2>3, <2>4
<1>9. m[p + e] \in Nat /\ m[q + e] \in Nat
  BY <1>8, StringMemoryIs
<1>10. CASE e < n /\ m[p + e] # m[q + e]
  <2>1. e \in 0 .. LastOf(m)
    BY <1>5, <1>6, <1>8 DEF last
  <2>2. \A j \in 0 .. e - 1 : m[p + j] # 0
    BY <1>2, <1>6
  <2>3. e \in D /\ r = m[p + e] - m[q + e]
    BY <1>6, <1>8, <1>10, <2>1, <2>2
  <2> HIDE DEF D
  <2> QED
    BY <1>7, <2>3 DEF Compares, r, D
<1>11. CASE e = n \/ m[p + e] = m[q + e]
  <2>1. r = 0
    BY <1>6, <1>9, <1>11
  <2>2. D = {}
    <3> SUFFICES ASSUME NEW k \in D PROVE FALSE
      OBVIOUS
    <3>1. k \in Nat /\ e <= k /\ m[p + k] # m[q + k] /\ k < n
      BY <1>5, <1>7
    <3>2. e < k
      BY <1>6, <1>11, <3>1
    <3>3. e \in 0 .. k - 1 /\ e < n
      BY <1>6, <3>1, <3>2
    <3>4. m[p + e] # 0
      BY <3>3
    <3> QED
      BY <1>2, <1>11, <3>3, <3>4
  <2> HIDE DEF D
  <2> QED
    BY <2>1, <2>2 DEF Compares, r, D
<1> QED
  BY <1>6, <1>8, <1>10, <1>11

-----------------------------------------------------------------------------
(* Calls of the functions on strings. *)

Source == Length(before, call.q)
From == IF call.fn = "strcat" THEN call.p + Length(before, call.p) ELSE call.p
Char(k) == IF k < Source THEN before[call.q + k] ELSE 0
Total ==
  CASE call.fn \in {"strcpy", "strcat"} -> Source + 1
    [] call.fn = "strlcpy" -> IF call.n = 0 THEN 0 ELSE Least(Source, call.n - 1) + 1
    [] OTHER -> call.n

\* What a call is made with.
Called ==
  /\ call.fn \in Looks \cup Copies \cup {"strtol", "memmove", "memcpy", "memset"}
  /\ Moves \/ Sets => before \in [DOMAIN before -> 0 .. BYTES - 1]
  /\ call.fn \in Looks \cup Copies \cup {"strtol"} =>
       /\ StringMemory(before)
       /\ call.p \in DOMAIN before /\ call.q \in DOMAIN before /\ call.n \in Nat
  /\ call.fn \in Copies =>
       /\ From .. From + Total - 1 \subseteq DOMAIN before
       /\ \A a \in From .. From + Total - 1 : a \notin call.q .. call.q + Source
  /\ call.fn = "memcmp" => {call.p, call.q} \subseteq 0 .. Cardinality(DOMAIN before) - call.n
  /\ call.fn \in {"strchr", "strfind"} => call.c \in Nat \ {0}
  /\ call.fn = "strtol" => call.p = 0 /\ call.n \in Bases
  /\ call.fn = "memset" => call.c \in Nat

\* The numbers among the arguments, lengths and bases, are natural.
LEMMA NumberIs ==
  ASSUME NEW n \in (0 .. Cardinality(DOMAIN mem)) \cup Bases
  PROVE  n \in Nat
  BY BasesAre

\* A call begins as one that C allows.
LEMMA CalledInit == Init => Called
<1> SUFFICES ASSUME Init PROVE Called
  OBVIOUS
<1>0. before = mem
  BY DEF Init, MemoryInit
<1>1. CASE mem \in Blocks /\ call \in Calls({"memmove", "memcpy", "memset"}) /\ MemoryCall
  <2>1. call.fn \in {"memmove", "memcpy", "memset"}
    BY <1>1 DEF MemoryCall
  <2>2. mem \in [DOMAIN mem -> 0 .. BYTES - 1]
    BY <1>1, MemoryAssumption
  <2>3. call.fn = "memset" => call.c \in Nat
    BY <1>1, MemoryAssumption DEF MemoryCall
  <2> QED
    BY <1>0, <2>1, <2>2, <2>3 DEF Called, Looks, Copies
<1>2. CASE mem \in Texts /\ call \in Calls(Looks \cup Copies) /\ StringCall
  <2>1. /\ call.fn \in Looks \cup Copies /\ call.p \in DOMAIN mem /\ call.q \in DOMAIN mem
        /\ call.n \in (0 .. Cardinality(DOMAIN mem)) \cup Bases
    BY <1>2 DEF Calls, Address
  <2>2. StringMemory(mem) /\ call.n \in Nat
    BY <1>2, <2>1, StringsAssumption, NumberIs
  <2>3. ~Moves /\ ~Sets /\ call.fn # "strtol" /\ call.fn # "memset"
    BY <2>1 DEF Moves, Sets, Looks, Copies
  <2>4. call.fn = "memcmp" => {call.p, call.q} \subseteq 0 .. Cardinality(DOMAIN before) - call.n
    BY <1>0, <1>2 DEF StringCall, Copies, src, dst, Address
  <2>5. call.fn \in {"strchr", "strfind"} => call.c \in Nat \ {0}
    BY <1>2 DEF StringCall, Copies
  <2>6. ASSUME call.fn \in Copies
        PROVE  /\ From .. From + Total - 1 \subseteq DOMAIN before
               /\ \A a \in From .. From + Total - 1 : a \notin call.q .. call.q + Source
    <3>1. /\ dst .. dst + Copied - 1 \subseteq Address
          /\ (dst .. dst + Copied - 1) \cap (src .. src + Length(mem, src)) = {}
      BY <1>2, <2>6 DEF StringCall, Copies
    <3>2. /\ Source \in Nat /\ Length(before, call.p) \in Nat /\ call.p \in Nat
          /\ Length(mem, src) = Source /\ Length(mem, dst) = Length(before, call.p)
      BY <1>0, <2>1, <2>2, LengthIs, StringMemoryIs DEF Source, src, dst
    <3>3. From .. From + Total - 1 \subseteq dst .. dst + Copied - 1
      <4>1. CASE call.fn = "strcpy"
        BY <3>2, <4>1 DEF From, Total, Copied, dst
      <4>2. CASE call.fn = "strcat"
        BY <3>2, <4>2 DEF From, Total, Copied, dst
      <4>3. CASE call.fn = "strncpy"
        BY <2>2, <3>2, <4>3 DEF From, Total, Copied, dst
      <4>4. CASE call.fn = "strlcpy"
        BY <2>2, <3>2, <4>4 DEF From, Total, Copied, dst, Least
      <4> QED
        BY <2>6, <4>1, <4>2, <4>3, <4>4 DEF Copies
    <3> QED
      BY <1>0, <3>1, <3>2, <3>3 DEF Address, src
  <2> QED
    BY <1>0, <2>1, <2>2, <2>3, <2>4, <2>5, <2>6 DEF Called
<1>3. CASE mem \in Numbers /\ call \in Calls({"strtol"}) /\ NumberCall
  <2>1. /\ call.fn = "strtol" /\ call.p \in DOMAIN mem /\ call.q \in DOMAIN mem
        /\ call.p = 0 /\ call.n \in Bases
    BY <1>3 DEF Calls, Address, NumberCall
  <2>2. StringMemory(mem) /\ call.n \in Nat
    <3>1. call.n \in (0 .. Cardinality(DOMAIN mem)) \cup Bases
      BY <2>1
    <3> QED
      BY <1>3, <3>1, StrtolAssumption, NumberIs
  <2> QED
    BY <1>0, <2>1, <2>2 DEF Called, Looks, Copies, Moves, Sets
<1> QED
  BY <1>1, <1>2, <1>3 DEF Init

\* No step changes the call or what memory was like before it.
LEMMA CallingKept == [Next]_vars => UNCHANGED calling
  BY DEF Next, vars, MemoryNext, memmove_up, memmove_down, memset, memset_nothing, movs, stos,
     Repeated, cld, StringsNext, Look, StartCopy, CopyAll, CopyPadding, CopyLimited,
     StrtolNext, strtol, Space, Sign, Prefix, Digits

\* So it stays the call that it was.
LEMMA CalledStep == Called /\ [Next]_vars => Called'
  BY CallingKept DEF Called, calling, Moves, Sets, From, Total, Source

\* Where a copy goes, how long it is and that it does not reach its source.
LEMMA CopyFacts ==
  ASSUME Called, call.fn \in Copies
  PROVE  /\ StringMemory(before) /\ call.p \in Nat /\ call.q \in Nat /\ call.n \in Nat
         /\ From \in Nat /\ Source \in Nat /\ Total \in Nat
         /\ From .. From + Total - 1 \subseteq DOMAIN before
         /\ \A a \in From .. From + Total - 1 : a \notin call.q .. call.q + Source
         /\ \A k \in 0 .. Source : call.q + k \in DOMAIN before /\ before[call.q + k] = Char(k)
         /\ \A k \in 0 .. Source - 1 : before[call.q + k] # 0
         /\ \A k \in Nat : Char(k) \in 0 .. BYTES - 1
<1>1. /\ StringMemory(before) /\ call.p \in DOMAIN before /\ call.q \in DOMAIN before /\ call.n \in Nat
      /\ From .. From + Total - 1 \subseteq DOMAIN before
      /\ \A a \in From .. From + Total - 1 : a \notin call.q .. call.q + Source
  BY DEF Called
<1> DEFINE last == LastOf(before)
<1>2. /\ last \in Nat /\ DOMAIN before = 0 .. last /\ before \in [0 .. last -> 0 .. BYTES - 1]
      /\ BYTES \in Nat \ {0}
  BY <1>1, StringMemoryIs, MemoryAssumption
<1>3. /\ Source \in Nat /\ call.q + Source \in DOMAIN before /\ before[call.q + Source] = 0
      /\ \A j \in 0 .. Source - 1 : before[call.q + j] # 0
      /\ Length(before, call.p) \in Nat
  BY <1>1, LengthIs DEF Source
<1> HIDE DEF last
<1>4. call.p \in Nat /\ call.q \in Nat /\ From \in Nat /\ Total \in Nat
  <2>1. call.p \in Nat /\ call.q \in Nat
    BY <1>1, <1>2
  <2>2. From \in Nat
    BY <1>3, <2>1 DEF From
  <2>3. CASE call.fn \in {"strcpy", "strcat"}
    BY <1>3, <2>1, <2>2, <2>3 DEF Total
  <2>4. CASE call.fn = "strncpy"
    BY <1>1, <2>1, <2>2, <2>4 DEF Total
  <2>5. CASE call.fn = "strlcpy"
    BY <1>1, <1>3, <2>1, <2>2, <2>5 DEF Total, Least
  <2> QED
    BY <2>1, <2>2, <2>3, <2>4, <2>5 DEF Copies
<1>5. \A k \in 0 .. Source : call.q + k \in DOMAIN before /\ before[call.q + k] = Char(k)
  <2> SUFFICES ASSUME NEW k \in 0 .. Source
               PROVE  call.q + k \in DOMAIN before /\ before[call.q + k] = Char(k)
    OBVIOUS
  <2>1. call.q + k \in DOMAIN before
    BY <1>2, <1>3, <1>4
  <2>2. CASE k < Source
    BY <2>1, <2>2 DEF Char
  <2>3. CASE k = Source
    BY <1>3, <2>1, <2>3 DEF Char
  <2> QED
    BY <1>3, <2>1, <2>2, <2>3
<1>6. \A k \in Nat : Char(k) \in 0 .. BYTES - 1
  <2> SUFFICES ASSUME NEW k \in Nat PROVE Char(k) \in 0 .. BYTES - 1
    OBVIOUS
  <2>1. CASE k < Source
    <3>1. k \in 0 .. Source
      BY <1>3, <2>1
    <3> QED
      BY <1>2, <1>5, <3>1
  <2>2. CASE ~(k < Source)
    BY <1>2, <2>2 DEF Char
  <2> QED
    BY <2>1, <2>2
<1> QED
  BY <1>1, <1>3, <1>4, <1>5, <1>6

-----------------------------------------------------------------------------
(* Copying. *)

\* Memory when the string has been copied up to hi.
Copied_to(hi) == [a \in DOMAIN before |-> IF a \in From .. hi - 1 THEN Char(a - From) ELSE before[a]]

\* How far a copy has got.
Copying ==
  pc = "copy" =>
    /\ call.fn \in Copies
    /\ d \in From .. From + Total /\ mem = Copied_to(d)
    /\ call.fn \in {"strcpy", "strcat"} => d < From + Total /\ s = call.q + (d - From)
    /\ call.fn = "strncpy" => left = call.n - (d - From) /\ s = call.q + Least(d - From, Source)
    /\ call.fn = "strlcpy" =>
         /\ left = call.n - (d - From) /\ s = call.q + (d - From)
         /\ call.n > 0 => d < From + Total

\* The copy has nothing in it when the loop is entered.
LEMMA CopyBegins ==
  ASSUME Called, call.fn \in Copies
  PROVE  Copied_to(From) = before
<1>1. From \in Nat /\ StringMemory(before)
  BY CopyFacts
<1>2. before = [a \in DOMAIN before |-> before[a]]
  BY <1>1, StringMemoryIs
<1>3. From .. From - 1 = {}
  BY <1>1
<1> QED
  BY <1>2, <1>3 DEF Copied_to

\* One character more.
LEMMA CopyAdvances ==
  ASSUME Called, call.fn \in Copies, NEW e \in From .. From + Total - 1
  PROVE  [Copied_to(e) EXCEPT ![e] = Char(e - From)] = Copied_to(e + 1)
<1>1. /\ From \in Nat /\ Total \in Nat /\ e \in DOMAIN before /\ StringMemory(before)
  BY CopyFacts
<1>2. \A a \in DOMAIN before : a \in Nat
  BY <1>1, StringMemoryIs
<1>3. \A a \in DOMAIN before :
        (IF a = e THEN Char(e - From) ELSE Copied_to(e)[a])
          = IF a \in From .. e + 1 - 1 THEN Char(a - From) ELSE before[a]
  <2> SUFFICES ASSUME NEW a \in DOMAIN before
               PROVE  (IF a = e THEN Char(e - From) ELSE Copied_to(e)[a])
                        = IF a \in From .. e + 1 - 1 THEN Char(a - From) ELSE before[a]
    OBVIOUS
  <2>1. a \in Nat /\ e \in Nat /\ From <= e
    BY <1>1, <1>2
  <2>2. Copied_to(e)[a] = IF a \in From .. e - 1 THEN Char(a - From) ELSE before[a]
    BY DEF Copied_to
  <2>3. CASE a = e
    BY <1>1, <2>1, <2>3
  <2>4. CASE a # e
    <3>1. a \in From .. e - 1 <=> a \in From .. e + 1 - 1
      BY <1>1, <2>1, <2>4
    <3> QED
      BY <2>2, <2>4, <3>1
  <2> QED
    BY <2>3, <2>4
<1>4. [Copied_to(e) EXCEPT ![e] = Char(e - From)]
        = [a \in DOMAIN before |-> IF a = e THEN Char(e - From) ELSE Copied_to(e)[a]]
  BY DEF Copied_to
<1> QED
  BY <1>3, <1>4 DEF Copied_to

\* What is read is still the source.
LEMMA CopyReads ==
  ASSUME Called, call.fn \in Copies, NEW e \in From .. From + Total, NEW k \in 0 .. Source
  PROVE  /\ call.q + k \in DOMAIN before /\ Copied_to(e)[call.q + k] = Char(k)
         /\ Copied_to(e)[call.q + k] = 0 <=> k = Source
<1>1. /\ call.q + k \in DOMAIN before /\ before[call.q + k] = Char(k)
      /\ From \in Nat /\ Total \in Nat /\ Source \in Nat /\ call.q \in Nat
      /\ \A a \in From .. From + Total - 1 : a \notin call.q .. call.q + Source
  BY CopyFacts
<1>2. call.q + k \notin From .. e - 1
  BY <1>1
<1>3. Char(k) = 0 <=> k = Source
  <2>1. CASE k = Source
    BY <1>1, <2>1 DEF Char
  <2>2. CASE k # Source
    <3>1. k \in 0 .. Source - 1
      BY <1>1, <2>2
    <3>2. before[call.q + k] # 0
      BY <3>1, CopyFacts
    <3> QED
      BY <1>1, <2>2, <3>2
  <2> QED
    BY <2>1, <2>2
<1> QED
  BY <1>1, <1>2, <1>3 DEF Copied_to

\* What is to end up at dst, in the words of these proofs.
LEMMA TargetIs ==
  ASSUME Called, call.fn \in Copies
  PROVE  /\ DOMAIN Target = From .. From + Total - 1
         /\ \A a \in From .. From + Total - 1 :
              Target[a] = IF call.fn = "strlcpy" /\ a = From + Total - 1 THEN 0 ELSE Char(a - From)
<1>1. /\ From \in Nat /\ Total \in Nat /\ Source \in Nat /\ call.n \in Nat
  BY CopyFacts
<1>2. CASE call.fn \in {"strcpy", "strcat"}
  <2>1. Target = [a \in From .. From + Source |-> Char(a - From)]
    BY <1>2 DEF Target, From, Source, Char
  <2>2. Total = Source + 1 /\ From + Total - 1 = From + Source
    BY <1>1, <1>2 DEF Total
  <2> QED
    BY <1>2, <2>1, <2>2
<1>3. CASE call.fn = "strncpy"
  <2>1. Target = [a \in From .. From + call.n - 1 |-> Char(a - From)]
    BY <1>3 DEF Target, From, Source, Char
  <2>2. Total = call.n
    BY <1>3 DEF Total
  <2> QED
    BY <1>3, <2>1, <2>2
<1>4. CASE call.fn = "strlcpy"
  <2> DEFINE kept == Least(Source, call.n - 1)
  <2>1. Target = [a \in From .. From + kept |-> IF a - From < kept THEN Char(a - From) ELSE 0]
    BY <1>4 DEF Target, From, Source, Char
  <2>2. Total = kept + 1 /\ From + Total - 1 = From + kept /\ kept \in Int
    BY <1>1, <1>4 DEF Total, Least
  <2> HIDE DEF kept
  <2>3. ASSUME NEW a \in From .. From + Total - 1
        PROVE  Target[a] = IF a = From + Total - 1 THEN 0 ELSE Char(a - From)
    BY <1>1, <2>1, <2>2
  <2> QED
    BY <1>4, <2>1, <2>2, <2>3
<1> QED
  BY <1>2, <1>3, <1>4 DEF Copies

\* Once all of it is stored, memory is as the copy promises.
LEMMA CopyEnds ==
  ASSUME Called, call.fn \in Copies, call.fn # "strlcpy"
  PROVE  Copied_to(From + Total)
           = [a \in DOMAIN before |-> IF a \in DOMAIN Target THEN Target[a] ELSE before[a]]
<1>1. DOMAIN Target = From .. From + Total - 1
  BY TargetIs
<1>2. \A a \in From .. From + Total - 1 : Target[a] = Char(a - From)
  BY TargetIs
<1> DEFINE hi == From + Total
<1>0. From \in Nat /\ Total \in Nat
  BY CopyFacts
<1>3. \A a \in DOMAIN before : (IF a \in From .. hi - 1 THEN Char(a - From) ELSE before[a])
                             = IF a \in DOMAIN Target THEN Target[a] ELSE before[a]
  BY <1>0, <1>1, <1>2
<1> HIDE DEF hi
<1>4. Copied_to(hi) = [a \in DOMAIN before |-> IF a \in DOMAIN Target THEN Target[a] ELSE before[a]]
  BY <1>3 DEF Copied_to
<1> QED
  BY <1>4 DEF hi

\* So it is once strlcpy has stored the NUL that ends what it copied.
LEMMA CopyEndsCut ==
  ASSUME Called, call.fn = "strlcpy", call.n > 0, NEW e, e = From + Total - 1
  PROVE  [Copied_to(e) EXCEPT ![e] = 0]
           = [a \in DOMAIN before |-> IF a \in DOMAIN Target THEN Target[a] ELSE before[a]]
<1>0. call.fn \in Copies
  BY DEF Copies
<1>1. /\ From \in Nat /\ Total \in Nat /\ StringMemory(before) /\ Source \in Nat /\ call.n \in Nat
  BY <1>0, CopyFacts
<1>2. \A a \in DOMAIN before : a \in Nat
  BY <1>1, StringMemoryIs
<1>3. Total >= 1 /\ e \in From .. From + Total - 1
  BY <1>1 DEF Total, Least
<1>4. e \in DOMAIN before
  BY <1>0, <1>3, CopyFacts
<1>5. DOMAIN Target = From .. e /\ Target[e] = 0 /\ \A a \in From .. e - 1 : Target[a] = Char(a - From)
  <2>1. \A a \in From .. e - 1 : a \in From .. From + Total - 1 /\ a # e
    BY <1>1, <1>3
  <2> QED
    BY <1>0, <1>3, <2>1, TargetIs
<1>6. \A a \in DOMAIN before :
        (IF a = e THEN 0 ELSE IF a \in From .. e - 1 THEN Char(a - From) ELSE before[a])
          = IF a \in DOMAIN Target THEN Target[a] ELSE before[a]
  <2> SUFFICES ASSUME NEW a \in DOMAIN before
               PROVE  (IF a = e THEN 0 ELSE IF a \in From .. e - 1 THEN Char(a - From) ELSE before[a])
                        = IF a \in DOMAIN Target THEN Target[a] ELSE before[a]
    OBVIOUS
  <2>1. CASE a = e
    BY <1>1, <1>3, <1>5, <2>1
  <2>2. CASE a # e
    <3>1. a \in From .. e - 1 <=> a \in From .. e
      BY <1>1, <1>2, <1>3, <2>2
    <3> QED
      BY <1>5, <2>2, <3>1
  <2> QED
    BY <2>1, <2>2
<1> QED
  BY <1>6 DEF Copied_to

\* What has not been written is as it was.
Intact == pc = "call" \/ call.fn \in Looks \cup {"strtol"} => mem = before

\* The step that enters a copying loop.
LEMMA StartCopyStep ==
  ASSUME Called, Intact, StartCopy
  PROVE  Copying' /\ pc' = "copy" /\ call.fn \in Copies
<1>1. /\ pc = "call" /\ call.fn \in Copies /\ mem = before
      /\ s' = call.q /\ left' = call.n /\ pc' = "copy" /\ mem' = mem /\ before' = before /\ call' = call
  BY DEF StartCopy, Intact, calling
<1>2. /\ StringMemory(before) /\ call.p \in Nat /\ call.q \in Nat /\ call.n \in Nat
      /\ From \in Nat /\ Source \in Nat /\ Total \in Nat
  BY <1>1, CopyFacts
<1>3. d' = From
  <2>1. call.fn = "strcat" => strlen(mem, call.p) = Length(before, call.p)
    BY <1>1, <1>2, strlenIs DEF Called
  <2> QED
    BY <2>1 DEF StartCopy, From
<1>4. From' = From /\ Source' = Source /\ Total' = Total /\ Copied_to(From)' = Copied_to(From)
  <2>1. From' = From /\ Source' = Source /\ Total' = Total
    BY <1>1 DEF From, Source, Total
  <2> QED
    BY <1>1, <2>1 DEF Copied_to, Char
<1>5. mem' = Copied_to(From)
  BY <1>1, CopyBegins
<1>6. call.fn \in {"strcpy", "strcat"} => Total = Source + 1
  BY DEF Total
<1>7. call.fn = "strlcpy" /\ call.n > 0 => Total > 0
  BY <1>2 DEF Total, Least
<1>8. Least(d' - From, Source) = 0
  BY <1>2, <1>3 DEF Least
<1>9. /\ d' \in From .. From + Total
      /\ call.fn \in {"strcpy", "strcat"} => d' < From + Total
      /\ s' = call.q + (d' - From) /\ s' = call.q + Least(d' - From, Source)
      /\ left' = call.n - (d' - From)
      /\ call.fn = "strlcpy" /\ call.n > 0 => d' < From + Total
  BY <1>1, <1>2, <1>3, <1>6, <1>7, <1>8
<1>10. (mem = Copied_to(d))'
  BY <1>3, <1>4, <1>5 DEF Copied_to
<1> QED
  BY <1>1, <1>4, <1>9, <1>10 DEF Copying

\* What is promised depends on the call and on memory before it only.
LEMMA Same ==
  ASSUME UNCHANGED calling
  PROVE  /\ From' = From /\ Source' = Source /\ Total' = Total /\ Target' = Target
         /\ \A e : Copied_to(e)' = Copied_to(e)
<1>1. before' = before /\ call' = call
  BY DEF calling
<1>2. From' = From /\ Source' = Source /\ Total' = Total
  BY <1>1 DEF From, Source, Total
<1>3. ASSUME NEW e PROVE Copied_to(e)' = Copied_to(e)
  BY <1>1, <1>2 DEF Copied_to, Char
<1>4. Target' = Target
  BY <1>1 DEF Target
<1> QED
  BY <1>2, <1>3, <1>4

\* How far the copy has come depends on the call and on d only.
LEMMA CopiedTo ==
  ASSUME UNCHANGED calling, mem' = Copied_to(d')
  PROVE  (mem = Copied_to(d))'
<1>1. before' = before /\ call' = call /\ From' = From /\ Source' = Source
  BY Same DEF calling
<1> QED
  BY <1>1 DEF Copied_to, Char

\* The end of a copy that is not cut off.
LEMMA CopyDone ==
  ASSUME Called, call.fn \in Copies, call.fn # "strlcpy", UNCHANGED calling,
         pc' = "done", mem' = Copied_to(From + Total), result' = call.p
  PROVE  Copying' /\ CopiesString' /\ CopyResult'
<1>1. mem' = [a \in DOMAIN before |-> IF a \in DOMAIN Target THEN Target[a] ELSE before[a]]
  BY CopyEnds
<1>2. before' = before /\ call' = call /\ Target' = Target
  BY Same DEF calling
<1>3. CopiesString'
  BY <1>1, <1>2 DEF CopiesString, Address
<1>4. CopyResult'
  BY <1>2 DEF CopyResult, Copies
<1> QED
  BY <1>3, <1>4 DEF Copying

\* strcpy and strcat store the next character.
LEMMA CopyAllStep ==
  ASSUME Called, Copying, CopyAll
  PROVE  Copying' /\ CopiesString' /\ CopyResult'
<1>1. /\ pc = "copy" /\ call.fn \in {"strcpy", "strcat"} /\ call.fn \in Copies
      /\ d \in From .. From + Total /\ mem = Copied_to(d) /\ d < From + Total /\ s = call.q + (d - From)
      /\ mem' = [mem EXCEPT ![d] = mem[s]] /\ d' = d + 1 /\ s' = s + 1 /\ UNCHANGED calling
      /\ IF mem[s] = 0 THEN pc' = "done" /\ result' = call.p ELSE pc' = pc
  BY DEF CopyAll, Copying
<1>2. From \in Nat /\ Source \in Nat /\ Total = Source + 1 /\ call.q \in Nat
  BY <1>1, CopyFacts DEF Total
<1> DEFINE k == d - From
<1>3. k \in 0 .. Source /\ d \in From .. From + Total - 1
  BY <1>1, <1>2
<1> HIDE DEF k
<1>4. mem[s] = Char(k) /\ (mem[s] = 0 <=> k = Source)
  <2>1. s = call.q + k
    BY <1>1 DEF k
  <2> QED
    BY <1>1, <1>3, <2>1, CopyReads
<1>5. mem' = Copied_to(d + 1)
  BY <1>1, <1>3, <1>4, CopyAdvances DEF k
<1>6. CASE mem[s] = 0
  <2>1. d + 1 = From + Total
    BY <1>2, <1>3, <1>4, <1>6 DEF k
  <2>2. call.fn # "strlcpy"
    BY <1>1
  <2> QED
    BY <1>1, <1>5, <1>6, <2>1, <2>2, CopyDone
<1>7. CASE mem[s] # 0
  <2>1. d + 1 < From + Total /\ d + 1 \in From .. From + Total /\ s + 1 = call.q + (d + 1 - From)
    BY <1>1, <1>2, <1>3, <1>4, <1>7 DEF k
  <2>2. pc' = "copy" /\ call' = call
    BY <1>1, <1>7 DEF calling
  <2>3. (mem = Copied_to(d))'
    <3>1. mem' = Copied_to(d')
      BY <1>1, <1>5
    <3> QED
      BY <1>1, <3>1, CopiedTo
  <2>4. From' = From /\ Source' = Source /\ Total' = Total
    BY <1>1, Same
  <2>5. /\ call'.fn \in Copies /\ call'.fn \notin {"strncpy", "strlcpy"}
        /\ d' \in From' .. From' + Total' /\ d' < From' + Total' /\ s' = call'.q + (d' - From')
    <3>1. /\ d' = d + 1 /\ s' = s + 1 /\ call' = call
          /\ call.fn \in {"strcpy", "strcat"} /\ call.fn \in Copies
      BY <1>1, <2>2
    <3>2. /\ d' \in From .. From + Total /\ d' < From + Total /\ s' = call.q + (d' - From)
      BY <1>2, <1>3, <2>1, <3>1
    <3>3. call.fn \notin {"strncpy", "strlcpy"}
      BY <3>1
    <3> QED
      BY <2>4, <3>1, <3>2, <3>3
  <2>6. Copying'
    BY <2>3, <2>5 DEF Copying
  <2> QED
    BY <2>2, <2>6 DEF CopiesString, CopyResult
<1> QED
  BY <1>6, <1>7

\* strncpy stores the next character, or a NUL behind the string.
LEMMA CopyPaddingStep ==
  ASSUME Called, Copying, CopyPadding
  PROVE  Copying' /\ CopiesString' /\ CopyResult'
<1>1. /\ pc = "copy" /\ call.fn = "strncpy" /\ call.fn \in Copies
      /\ d \in From .. From + Total /\ mem = Copied_to(d)
      /\ left = call.n - (d - From) /\ s = call.q + Least(d - From, Source)
      /\ UNCHANGED calling
  BY DEF CopyPadding, Copying
<1>2. From \in Nat /\ Source \in Nat /\ Total = call.n /\ call.n \in Nat /\ call.q \in Nat
  BY <1>1, CopyFacts DEF Total
<1>3. CASE left > 0
  <2> DEFINE k == Least(d - From, Source)
  <2>0. /\ mem' = [mem EXCEPT ![d] = mem[s]] /\ d' = d + 1 /\ left' = left - 1
        /\ s' = IF mem'[s] # 0 THEN s + 1 ELSE s
        /\ pc' = "copy" /\ call' = call
    BY <1>1, <1>3 DEF CopyPadding, calling
  <2>1. d \in From .. From + Total - 1 /\ k \in 0 .. Source /\ d - From \in Nat
    BY <1>1, <1>2, <1>3 DEF Least
  <2>2. Char(d - From) = Char(k)
    <3>1. CASE d - From < Source
      BY <3>1 DEF Least
    <3>2. CASE ~(d - From < Source)
      <4>1. k = Source
        BY <3>2 DEF Least
      <4> QED
        BY <1>2, <2>1, <3>2, <4>1 DEF Char
    <3> QED
      BY <3>1, <3>2
  <2>3. k = Source <=> ~(d - From < Source)
    BY <1>2, <2>1 DEF Least
  <2>4. k < Source => Least(d + 1 - From, Source) = k + 1
    BY <1>2, <2>1 DEF Least
  <2>5. k = Source => Least(d + 1 - From, Source) = k
    BY <1>2, <2>1, <2>3 DEF Least
  <2> HIDE DEF k
  <2>6. s = call.q + k
    BY <1>1 DEF k
  <2>7. mem[s] = Char(k)
    BY <1>1, <2>1, <2>6, CopyReads
  <2>8. mem' = Copied_to(d + 1)
    BY <1>1, <2>0, <2>1, <2>2, <2>7, CopyAdvances
  <2>9. mem'[s] = 0 <=> k = Source
    <3>1. d + 1 \in From .. From + Total
      BY <1>2, <2>1
    <3> QED
      BY <1>1, <2>1, <2>6, <2>8, <3>1, CopyReads
  <2>10. s' = call.q + Least(d + 1 - From, Source)
    BY <1>2, <2>0, <2>1, <2>4, <2>5, <2>6, <2>9
  <2>11. From' = From /\ Source' = Source /\ Total' = Total
    BY <1>1, Same
  <2>12. (mem = Copied_to(d))'
    <3>1. mem' = Copied_to(d')
      BY <2>0, <2>8
    <3> QED
      BY <1>1, <3>1, CopiedTo
  <2>13. /\ d' \in From' .. From' + Total'
         /\ left' = call'.n - (d' - From') /\ s' = call'.q + Least(d' - From', Source')
         /\ call'.fn = "strncpy" /\ call'.fn \in Copies
    BY <1>1, <1>2, <2>0, <2>1, <2>10, <2>11
  <2>14. Copying'
    BY <2>12, <2>13 DEF Copying
  <2> QED
    BY <2>0, <2>14 DEF CopiesString, CopyResult
<1>4. CASE ~(left > 0)
  <2>1. d = From + Total
    <3>1. d \in From .. From + Total /\ left = call.n - (d - From)
      BY <1>1
    <3> QED
      BY <1>2, <1>4, <3>1
  <2>2. pc' = "done" /\ result' = call.p /\ mem' = mem
    BY <1>4 DEF CopyPadding
  <2>3. mem' = Copied_to(From + Total) /\ call.fn # "strlcpy"
    BY <1>1, <2>1, <2>2
  <2> QED
    BY <1>1, <2>2, <2>3, CopyDone
<1> QED
  BY <1>3, <1>4

\* strlcpy stores the next character, or the NUL at its end.
LEMMA CopyLimitedStep ==
  ASSUME Called, Copying, CopyLimited
  PROVE  Copying' /\ CopiesString' /\ CopyResult'
<1> DEFINE k == d - From
<1>1. /\ pc = "copy" /\ call.fn = "strlcpy" /\ call.fn \in Copies
      /\ d \in From .. From + Total /\ mem = Copied_to(d)
      /\ left = call.n - k /\ s = call.q + k
      /\ call.n > 0 => d < From + Total
      /\ UNCHANGED calling
  BY DEF CopyLimited, Copying
<1>2. /\ From \in Nat /\ Source \in Nat /\ Total \in Nat /\ call.n \in Nat /\ call.q \in Nat
      /\ call.p = From
      /\ call.n = 0 => Total = 0
      /\ call.n > 0 => Total = Least(Source, call.n - 1) + 1
  BY <1>1, CopyFacts DEF Total, From
<1>3. /\ k \in 0 .. Source
      /\ call.n > 0 => d \in From .. From + Total - 1 /\ k <= call.n - 1
  BY <1>1, <1>2 DEF Least
<1>4. mem[s] = Char(k) /\ (mem[s] = 0 <=> k = Source)
  <2> HIDE DEF k
  <2> QED
    BY <1>1, <1>3, CopyReads
<1>5. CASE left > 1 /\ mem[s] # 0
  <2>0. /\ mem' = [mem EXCEPT ![d] = mem[s]] /\ d' = d + 1 /\ s' = s + 1 /\ left' = left - 1
        /\ pc' = "copy" /\ call' = call
    BY <1>1, <1>5 DEF CopyLimited, calling
  <2>1. call.n > 0 /\ d + 1 < From + Total
    BY <1>1, <1>2, <1>3, <1>4, <1>5 DEF Least
  <2>2. mem' = Copied_to(d + 1)
    BY <1>1, <1>3, <1>4, <2>0, <2>1, CopyAdvances
  <2>3. From' = From /\ Source' = Source /\ Total' = Total
    BY <1>1, Same
  <2>4. (mem = Copied_to(d))'
    <3>1. mem' = Copied_to(d')
      BY <2>0, <2>2
    <3> QED
      BY <1>1, <3>1, CopiedTo
  <2>5. /\ d' \in From' .. From' + Total' /\ d' < From' + Total'
        /\ left' = call'.n - (d' - From') /\ s' = call'.q + (d' - From')
        /\ call'.fn = "strlcpy" /\ call'.fn \in Copies
    BY <1>1, <1>2, <1>3, <2>0, <2>1, <2>3
  <2>6. Copying'
    BY <2>4, <2>5 DEF Copying
  <2> QED
    BY <2>0, <2>6 DEF CopiesString, CopyResult
<1>6. CASE ~(left > 1 /\ mem[s] # 0)
  <2>0. /\ mem' = IF call.n > 0 THEN [mem EXCEPT ![d] = 0] ELSE mem
        /\ pc' = "done" /\ result' = k
        /\ before' = before /\ call' = call /\ Target' = Target
    BY <1>1, <1>2, <1>6, Same DEF CopyLimited, calling
  <2>1. CASE call.n > 0
    <3>1. k = Least(Source, call.n - 1) /\ d = From + Total - 1
      BY <1>1, <1>2, <1>3, <1>4, <1>6, <2>1 DEF Least
    <3>2. mem' = [Copied_to(d) EXCEPT ![d] = 0]
      BY <1>1, <2>0, <2>1
    <3>3. mem' = [a \in DOMAIN before |-> IF a \in DOMAIN Target THEN Target[a] ELSE before[a]]
      BY <1>1, <2>1, <3>1, <3>2, CopyEndsCut
    <3>4. CopiesString'
      BY <2>0, <3>3 DEF CopiesString, Address
    <3>5. CopyResult'
      <4>1. Least(Length(before, call.q), call.n - 1) = k
        BY <3>1 DEF Source
      <4> HIDE DEF k
      <4> QED
        BY <1>1, <2>0, <2>1, <4>1 DEF CopyResult
    <3> QED
      BY <2>0, <3>4, <3>5 DEF Copying
  <2>2. CASE call.n = 0
    <3>1. k = 0 /\ d = From /\ Total = 0
      BY <1>1, <1>2, <2>2
    <3>2. mem' = before
      BY <1>1, <2>0, <2>2, <3>1, CopyBegins
    <3>3. DOMAIN Target = {}
      <4>1. DOMAIN Target = From .. From + Total - 1
        BY <1>1, TargetIs
      <4> QED
        BY <1>2, <3>1, <4>1
    <3>4. before = [a \in DOMAIN before |-> before[a]]
      BY <1>1, CopyFacts, StringMemoryIs
    <3>5. CopiesString'
      BY <2>0, <3>2, <3>3, <3>4 DEF CopiesString, Address
    <3>6. CopyResult'
      BY <1>1, <2>0, <2>2, <3>1 DEF CopyResult
    <3> QED
      BY <2>0, <3>5, <3>6 DEF Copying
  <2> QED
    BY <1>2, <2>1, <2>2
<1> QED
  BY <1>5, <1>6

-----------------------------------------------------------------------------
(* Looking. *)

\* The functions that compare return what ComparesAtFirstDifference says.
LEMMA LookCompares ==
  ASSUME Called, Intact, Look, call.fn \in {"strcmp", "strncmp", "memcmp"}
  PROVE  ComparesAtFirstDifference'
<1>1. /\ mem = before /\ mem' = before /\ before' = before /\ call' = call /\ result' = Looked /\ call.fn \in Looks
  BY DEF Look, Intact, calling
<1>2. StringMemory(before) /\ call.p \in DOMAIN before /\ call.q \in DOMAIN before /\ call.n \in Nat
  BY <1>1 DEF Called
<1>3. Compares(result', Differ, before, call.p, call.q)
  <2>1. CASE call.fn = "strcmp"
    <3>1. result' = strcmp(before, call.p, call.q)
      BY <1>1, <2>1 DEF Looked
    <3>2. Differ = {k \in 0 .. LastOf(before) :
                     /\ {call.p + k, call.q + k} \subseteq DOMAIN before
                     /\ before[call.p + k] # before[call.q + k]
                     /\ \A j \in 0 .. k - 1 : before[call.p + j] # 0}
      BY <1>1, <2>1 DEF Differ, LastOf, Address
    <3> QED
      BY <1>2, <3>1, <3>2, strcmpIs
  <2>2. CASE call.fn = "strncmp"
    <3>1. result' = strncmp(before, call.p, call.q, call.n)
      BY <1>1, <2>2 DEF Looked
    <3>2. Differ = {k \in 0 .. LastOf(before) :
                     /\ {call.p + k, call.q + k} \subseteq DOMAIN before
                     /\ k < call.n /\ before[call.p + k] # before[call.q + k]
                     /\ \A j \in 0 .. k - 1 : before[call.p + j] # 0}
      BY <1>1, <2>2 DEF Differ, LastOf, Address
    <3> QED
      BY <1>2, <3>1, <3>2, strncmpIs
  <2>3. CASE call.fn = "memcmp"
    <3>1. result' = memcmp(before, call.p, call.q, call.n)
      BY <1>1, <2>3 DEF Looked
    <3>2. Differ = {k \in 0 .. LastOf(before) :
                     /\ {call.p + k, call.q + k} \subseteq DOMAIN before
                     /\ k < call.n /\ before[call.p + k] # before[call.q + k]}
      BY <1>1, <2>3 DEF Differ, LastOf, Address
    <3>3. /\ call.p \in 0 .. Cardinality(DOMAIN before) - call.n
          /\ call.q \in 0 .. Cardinality(DOMAIN before) - call.n
      BY <2>3 DEF Called
    <3> QED
      BY <1>2, <3>1, <3>2, <3>3, memcmpIs
  <2> QED
    BY <2>1, <2>2, <2>3
<1>4. Differ' = Differ
  BY <1>1 DEF Differ, Address
<1> QED
  BY <1>1, <1>3, <1>4 DEF ComparesAtFirstDifference, Compares

\* The functions that search return what FindsFirst says.
LEMMA LookFinds ==
  ASSUME Called, Intact, Look
  PROVE  FindsFirst'
<1>1. /\ mem = before /\ mem' = before /\ before' = before /\ call' = call /\ result' = Looked /\ call.fn \in Looks
  BY DEF Look, Intact, calling
<1>2. StringMemory(before) /\ call.p \in DOMAIN before /\ call.n \in Nat /\ call.p \in Nat
  BY <1>1, StringMemoryIs DEF Called
<1>3. call.fn = "strlen" => result' = Length(before, call.p)
  BY <1>1, <1>2, strlenIs DEF Looked
<1>4. call.fn = "strnlen" => result' = Least(call.n, Length(before, call.p))
  BY <1>1, <1>2, strnlenIs DEF Looked
<1>5. call.fn = "strchr" =>
        LET at == call.p + Before(before, call.p, {0, call.c}) IN
        result' = IF before[at] = call.c THEN at ELSE Null
  <2> SUFFICES ASSUME call.fn = "strchr"
               PROVE  LET at == call.p + Before(before, call.p, {0, call.c}) IN
                      result' = IF before[at] = call.c THEN at ELSE Null
    OBVIOUS
  <2>1. call.c \in Nat \ {0} /\ result' = strchr(before, call.p, call.c)
    BY <1>1 DEF Called, Looked
  <2> QED
    BY <1>2, <2>1, strchrIs
<1>6. call.fn = "strfind" => result' = call.p + Before(before, call.p, {0, call.c})
  <2> SUFFICES ASSUME call.fn = "strfind"
               PROVE  result' = call.p + Before(before, call.p, {0, call.c})
    OBVIOUS
  <2>1. call.c \in Nat \ {0} /\ result' = strfind(before, call.p, call.c)
    BY <1>1 DEF Called, Looked
  <2> QED
    BY <1>2, <2>1, strfindIs
<1>7. call.fn = "memfind" =>
        LET found == {a \in call.p .. call.p + call.n - 1 : before[a] = call.c % BYTES} IN
        IF found = {} THEN result' = call.p + call.n
        ELSE result' \in found /\ \A a \in found : result' <= a
  <2> SUFFICES ASSUME call.fn = "memfind"
               PROVE  LET found == {a \in call.p .. call.p + call.n - 1 : before[a] = call.c % BYTES} IN
                      IF found = {} THEN result' = call.p + call.n
                      ELSE result' \in found /\ \A a \in found : result' <= a
    OBVIOUS
  <2>1. result' = memfind(before, call.p, call.c, call.n)
    BY <1>1 DEF Looked
  <2> QED
    BY <1>2, <2>1, memfindIs
<1>8. call' = call /\ before' = before
  BY <1>1
<1> QED
  BY <1>3, <1>4, <1>5, <1>6, <1>7, <1>8 DEF FindsFirst

-----------------------------------------------------------------------------
(* Recursive definitions. *)

\* g is the function that starts with a and continues with h, up to n.
Approximates(g, n, A, a, h) ==
  /\ g \in [0 .. n -> A] /\ g[0] = a
  /\ \A i \in 0 .. n - 1 : g[i + 1] = h[<<i, g[i]>>]

\* Two beginnings of the same recursion agree as far as both go.
LEMMA ApproximationsAgree ==
  ASSUME NEW A, NEW a \in A, NEW h, NEW n \in Nat, NEW g, Approximates(g, n, A, a, h),
         NEW m \in Nat, NEW f, Approximates(f, m, A, a, h), n <= m
  PROVE  \A i \in 0 .. n : g[i] = f[i]
<1> DEFINE T == {i \in 0 .. n : g[i] # f[i]}
<1>1. ASSUME T # {} PROVE FALSE
  <2>1. T \subseteq Nat
    OBVIOUS
  <2>2. PICK i \in T : \A j \in T : i <= j
    BY <1>1, <2>1, Smallest
  <2>3. i \in 0 .. n /\ g[i] # f[i] /\ i # 0
    BY DEF Approximates
  <2>4. i - 1 \in 0 .. n /\ i - 1 \in 0 .. n - 1 /\ i - 1 \in 0 .. m - 1 /\ i - 1 + 1 = i /\ i - 1 < i
    BY <2>3
  <2>5. i - 1 \notin T
    BY <2>2, <2>3, <2>4
  <2>6. g[i - 1] = f[i - 1]
    BY <2>4, <2>5
  <2>7. g[i - 1 + 1] = h[<<i - 1, g[i - 1]>>] /\ f[i - 1 + 1] = h[<<i - 1, f[i - 1]>>]
    BY <2>4 DEF Approximates
  <2> QED
    BY <2>3, <2>4, <2>6, <2>7
<1> QED
  BY <1>1

\* A recursion over naturals has a beginning of every length.
LEMMA Approximation ==
  ASSUME NEW A, NEW a \in A, NEW h \in [Nat \X A -> A], NEW n \in Nat
  PROVE  \E g : Approximates(g, n, A, a, h)
<1> DEFINE T == {i \in Nat : ~ \E g : Approximates(g, i, A, a, h)}
<1>1. ASSUME T # {} PROVE FALSE
  <2>1. T \subseteq Nat
    OBVIOUS
  <2>2. PICK i \in T : \A j \in T : i <= j
    BY <1>1, <2>1, Smallest
  <2>3. CASE i = 0
    <3>1. Approximates([k \in 0 .. 0 |-> a], 0, A, a, h)
      BY DEF Approximates
    <3> QED
      BY <2>3, <3>1
  <2>4. CASE i # 0
    <3>1. i - 1 \in Nat /\ i - 1 < i
      BY <2>4
    <3>2. i - 1 \notin T
      BY <2>2, <3>1
    <3>3. PICK g : Approximates(g, i - 1, A, a, h)
      BY <3>1, <3>2
    <3> DEFINE f == [k \in 0 .. i |-> IF k = i THEN h[<<i - 1, g[i - 1]>>] ELSE g[k]]
    <3>4. g \in [0 .. i - 1 -> A] /\ g[0] = a /\ \A k \in 0 .. i - 1 - 1 : g[k + 1] = h[<<k, g[k]>>]
      BY <3>3 DEF Approximates
    <3>5. h[<<i - 1, g[i - 1]>>] \in A
      <4>1. i - 1 \in 0 .. i - 1
        BY <3>1
      <4>2. g[i - 1] \in A
        BY <3>4, <4>1
      <4>3. <<i - 1, g[i - 1]>> \in Nat \X A
        BY <3>1, <4>2
      <4> QED
        BY <4>3
    <3>6. f \in [0 .. i -> A]
      <4>1. \A k \in 0 .. i : k # i => k \in 0 .. i - 1
        BY <2>4
      <4>2. \A k \in 0 .. i : k # i => g[k] \in A
        BY <3>4, <4>1
      <4> QED
        BY <3>5, <4>2
    <3>7. f[0] = a
      BY <2>4, <3>4
    <3>8. ASSUME NEW k \in 0 .. i - 1 PROVE f[k + 1] = h[<<k, f[k]>>]
      <4>1. k \in 0 .. i /\ k + 1 \in 0 .. i /\ k # i
        BY <2>4
      <4>2. f[k] = g[k]
        BY <4>1
      <4>3. CASE k = i - 1
        BY <4>1, <4>2, <4>3
      <4>4. CASE k # i - 1
        <5>1. k \in 0 .. i - 1 - 1 /\ k + 1 # i
          BY <3>1, <4>4
        <5>2. f[k + 1] = g[k + 1]
          BY <4>1, <5>1
        <5> QED
          BY <3>4, <4>2, <5>1, <5>2
      <4> QED
        BY <4>3, <4>4
    <3> HIDE DEF f
    <3>9. Approximates(f, i, A, a, h)
      BY <3>6, <3>7, <3>8 DEF Approximates
    <3> QED
      BY <3>9
  <2> QED
    BY <2>3, <2>4
<1> QED
  BY <1>1

Recurs(f, a, h) == f[0] = a /\ \A n \in Nat : f[n + 1] = h[<<n, f[n]>>]

\* So it has a function that satisfies it.
LEMMA Recursion ==
  ASSUME NEW A, NEW a \in A, NEW h \in [Nat \X A -> A]
  PROVE  \E f \in [Nat -> A] : Recurs(f, a, h)
<1> DEFINE g(n) == CHOOSE g : Approximates(g, n, A, a, h)
           f == [n \in Nat |-> g(n)[n]]
<1>1. \A n \in Nat : Approximates(g(n), n, A, a, h)
  BY Approximation
<1> HIDE DEF g
<1>2. \A n \in Nat : g(n)[n] \in A
  BY <1>1 DEF Approximates
<1>3. f[0] = a
  BY <1>1 DEF Approximates
<1>4. ASSUME NEW n \in Nat PROVE f[n + 1] = h[<<n, f[n]>>]
  <2>1. PICK m \in Nat : m = n + 1
    OBVIOUS
  <2>2. n <= m /\ n \in 0 .. m - 1 /\ n \in 0 .. n
    BY <2>1
  <2>3. Approximates(g(n), n, A, a, h) /\ Approximates(g(m), m, A, a, h)
    BY <1>1
  <2>4. g(n)[n] = g(m)[n]
    BY <2>2, <2>3, ApproximationsAgree
  <2>5. g(m)[n + 1] = h[<<n, g(m)[n]>>]
    BY <2>2, <2>3 DEF Approximates
  <2> QED
    BY <2>1, <2>4, <2>5
<1> QED
  BY <1>2, <1>3, <1>4 DEF Recurs

\* A power of 0 is 1, and of one more is a factor more.
LEMMA PowerIs ==
  ASSUME NEW b \in Nat
  PROVE  /\ Power(b, 0) = 1
         /\ \A e \in Nat : Power(b, e) \in Nat /\ Power(b, e + 1) = b * Power(b, e)
<1> DEFINE h == [x \in Nat \X Nat |-> b * x[2]]
           Is(p) == p = [k \in Nat |-> IF k = 0 THEN 1 ELSE b * p[k - 1]]
<1>1. h \in [Nat \X Nat -> Nat]
  OBVIOUS
<1>2. PICK f \in [Nat -> Nat] : f[0] = 1 /\ \A n \in Nat : f[n + 1] = h[<<n, f[n]>>]
  <2>1. PICK one \in Nat : one = 1
    OBVIOUS
  <2> HIDE DEF h
  <2>2. \E f \in [Nat -> Nat] : Recurs(f, one, h)
    BY <1>1, Recursion
  <2> QED
    BY <2>1, <2>2 DEF Recurs
<1>3. \A n \in Nat : f[n + 1] = b * f[n]
  BY <1>2
<1>4. Is(f)
  <2>1. ASSUME NEW k \in Nat PROVE f[k] = IF k = 0 THEN 1 ELSE b * f[k - 1]
    <3>1. CASE k = 0
      BY <1>2, <3>1
    <3>2. CASE k # 0
      <4>1. k - 1 \in Nat /\ k - 1 + 1 = k
        BY <3>2
      <4>2. f[k - 1 + 1] = b * f[k - 1]
        BY <1>3, <4>1
      <4> QED
        BY <3>2, <4>1, <4>2
    <3> QED
      BY <3>1, <3>2
  <2> QED
    BY <2>1
<1>5. PICK p : Is(p) /\ \A e : Power(b, e) = p[e]
  BY <1>4 DEF Power
<1>6. p[0] = 1
  BY <1>5
<1>7. ASSUME NEW e \in Nat PROVE p[e + 1] = b * p[e]
  <2>1. e + 1 \in Nat /\ e + 1 # 0 /\ e + 1 - 1 = e
    OBVIOUS
  <2>2. p[e + 1] = IF e + 1 = 0 THEN 1 ELSE b * p[e + 1 - 1]
    BY <1>5, <2>1
  <2> QED
    BY <2>1, <2>2
<1>8. \A e \in Nat : p[e] \in Nat
  <2> DEFINE T == {e \in Nat : p[e] \notin Nat}
  <2>1. ASSUME T # {} PROVE FALSE
    <3>1. T \subseteq Nat
      OBVIOUS
    <3>2. PICK e \in T : \A j \in T : e <= j
      BY <2>1, <3>1, Smallest
    <3>3. e # 0
      BY <1>6
    <3>4. e - 1 \in Nat /\ e - 1 < e /\ e - 1 + 1 = e
      BY <3>3
    <3>5. e - 1 \notin T
      BY <3>2, <3>4
    <3>6. p[e - 1] \in Nat
      BY <3>4, <3>5
    <3>7. p[e - 1 + 1] = b * p[e - 1]
      BY <1>7, <3>4
    <3> QED
      BY <3>4, <3>6, <3>7
  <2> QED
    BY <2>1
<1> QED
  BY <1>5, <1>6, <1>7, <1>8

-----------------------------------------------------------------------------
(* Longs. *)

\* No different to a long.
Alike(a, b) == \E z \in Int : a = b + z * LONG

\* A long has as many values below 0 as from 0 on.
LEMMA Half == LONG \in Nat /\ LONG > 0 /\ LONG \div 2 \in Nat /\ 2 * (LONG \div 2) = LONG
<1>1. LONG \in Nat /\ LONG > 0 /\ LONG % 2 = 0
  BY StrtolAssumption
<1>2. LONG = 2 * (LONG \div 2) + (LONG % 2) /\ LONG \div 2 \in Nat
  BY <1>1
<1> QED
  BY <1>1, <1>2

Longs == -(LONG \div 2) .. LONG \div 2 - 1

\* Wrapping yields a long that is alike modulo LONG.
LEMMA AsLongIs ==
  ASSUME NEW v \in Int
  PROVE  AsLong(v) \in Longs /\ Alike(AsLong(v), v)
<1>1. LONG \in Nat /\ LONG > 0 /\ LONG \div 2 \in Nat /\ 2 * (LONG \div 2) = LONG
  BY Half
<1>2. v = LONG * (v \div LONG) + (v % LONG) /\ v % LONG \in 0 .. LONG - 1 /\ v \div LONG \in Int
  BY <1>1
<1> DEFINE r == v % LONG
           z == v \div LONG
<1>3. AsLong(v) = IF r < LONG \div 2 THEN r ELSE r - LONG
  BY DEF AsLong
<1>4. r \in 0 .. LONG - 1 /\ z \in Int /\ r = v - LONG * z
  <2>1. v = LONG * z + r /\ r \in 0 .. LONG - 1 /\ z \in Int
    BY <1>2
  <2> HIDE DEF r, z
  <2>2. LONG * z \in Int
    BY <1>1, <2>1
  <2> QED
    BY <1>1, <2>1, <2>2
<1> HIDE DEF r, z
<1>5. AsLong(v) \in Longs
  BY <1>1, <1>3, <1>4 DEF Longs
<1>6. CASE r < LONG \div 2
  <2>1. AsLong(v) = v + (-z) * LONG /\ -z \in Int
    BY <1>1, <1>3, <1>4, <1>6
  <2> QED
    BY <1>5, <2>1 DEF Alike
<1>7. CASE ~(r < LONG \div 2)
  <2>1. AsLong(v) = v + (-z - 1) * LONG /\ -z - 1 \in Int
    BY <1>1, <1>3, <1>4, <1>7
  <2> QED
    BY <1>5, <2>1 DEF Alike
<1> QED
  BY <1>6, <1>7

\* Longs that are alike are equal.
LEMMA LongsDiffer ==
  ASSUME NEW a \in Longs, NEW b \in Longs, Alike(a, b)
  PROVE  a = b
<1>1. LONG \in Nat /\ LONG > 0 /\ LONG \div 2 \in Nat /\ 2 * (LONG \div 2) = LONG
  BY Half
<1>2. PICK z \in Int : a = b + z * LONG
  BY DEF Alike
<1>3. a \in Int /\ b \in Int /\ a - b < LONG /\ a - b > -LONG
  BY <1>1 DEF Longs
<1>4. ~(z >= 1)
  <2> SUFFICES ASSUME z >= 1 PROVE FALSE
    OBVIOUS
  <2>1. z * LONG >= LONG
    BY <1>1
  <2> QED
    BY <1>1, <1>2, <1>3, <2>1
<1>5. ~(z <= -1)
  <2> SUFFICES ASSUME z <= -1 PROVE FALSE
    OBVIOUS
  <2>1. z * LONG <= -LONG
    BY <1>1
  <2> QED
    BY <1>1, <1>2, <1>3, <2>1
<1>6. z = 0
  BY <1>4, <1>5
<1> QED
  BY <1>1, <1>2, <1>3, <1>6

\* What is alike to the same number is alike.
LEMMA AlikeTransitive ==
  ASSUME NEW a \in Int, NEW b \in Int, NEW c \in Int, Alike(a, b), Alike(b, c)
  PROVE  Alike(a, c) /\ Alike(b, a) /\ Alike(-a, -b)
<1>1. LONG \in Int
  BY Half
<1>2. PICK x \in Int : a = b + x * LONG
  BY DEF Alike
<1>3. PICK y \in Int : b = c + y * LONG
  BY DEF Alike
<1>4. x + y \in Int /\ -x \in Int /\ a = c + (x + y) * LONG /\ b = a + (-x) * LONG /\ -a = -b + (-x) * LONG
  BY <1>1, <1>2, <1>3
<1> QED
  BY <1>4 DEF Alike

\* A number is alike to itself.
LEMMA AlikeItself == ASSUME NEW a \in Int PROVE Alike(a, a)
<1>1. 0 \in Int /\ a = a + 0 * LONG
  BY Half
<1> QED
  BY <1>1 DEF Alike

\* Numbers that are alike have products and sums that are.
LEMMA AlikeProducts ==
  ASSUME NEW a \in Int, NEW b \in Int, Alike(a, b), NEW c \in Int
  PROVE  Alike(a * c, b * c) /\ Alike(a + c, b + c)
<1>1. LONG \in Int
  BY Half
<1>2. PICK x \in Int : a = b + x * LONG
  BY DEF Alike
<1>3. a * c = b * c + (x * c) * LONG /\ x * c \in Int /\ a + c = b + c + x * LONG
  BY <1>1, <1>2
<1> QED
  BY <1>2, <1>3 DEF Alike

\* The value to a long, from any number alike.
LEMMA AsLongOf ==
  ASSUME NEW v \in Longs, NEW w \in Int, Alike(v, w)
  PROVE  AsLong(w) = v
<1>1. v \in Int /\ AsLong(w) \in Longs /\ AsLong(w) \in Int /\ Alike(AsLong(w), w)
  BY Half, AsLongIs DEF Longs
<1>2. Alike(w, v)
  BY <1>1, AlikeTransitive, AlikeItself
<1>3. Alike(AsLong(w), v)
  BY <1>1, <1>2, AlikeTransitive
<1> QED
  BY <1>1, <1>3, LongsDiffer

-----------------------------------------------------------------------------
(* Numbers. *)

\* The digits that strtol knows, and that NUL is none.
LEMMA Codes == \A code \in Nat : Digit(code) \in Nat /\ Digit(0) = LONG /\ Digit(48) = 0 /\ LONG >= 16
  BY StrtolAssumption DEF Digit

\* Where the parts of a number are.
LEMMA NumberParts ==
  ASSUME Called, Intact, call.fn = "strtol"
  PROVE  /\ mem = before /\ \A a \in DOMAIN mem : a \in Nat /\ mem[a] \in Nat /\ Digit(mem[a]) \in Nat
         /\ First \in DOMAIN mem /\ mem[First] \notin {32, 9} /\ \A b \in 0 .. First - 1 : mem[b] \in {32, 9}
         /\ Unsigned \in DOMAIN mem /\ Start \in DOMAIN mem
         /\ Hex => Unsigned + 1 \in DOMAIN mem
         /\ mem[Unsigned] = 48 => Unsigned + 1 \in DOMAIN mem
         /\ TrueBase \in 0 .. LONG
         /\ End \in DOMAIN mem /\ Start <= End /\ Digit(mem[End]) >= TrueBase
         /\ \A b \in Start .. End - 1 : b \in DOMAIN mem /\ Digit(mem[b]) < TrueBase
<1> DEFINE last == LastOf(mem)
<1>0. mem = before /\ StringMemory(mem) /\ call.n \in Bases
  BY DEF Called, Intact
<1>1. /\ last \in Nat /\ DOMAIN mem = 0 .. last /\ mem[last] = 0
      /\ \A a \in DOMAIN mem : mem[a] \in Nat
  BY <1>0, StringMemoryIs
<1> HIDE DEF last
<1>2. \A a \in DOMAIN mem : a \in Nat /\ Digit(mem[a]) \in Nat
  BY <1>1, Codes
<1>3. First \in DOMAIN mem /\ mem[First] \notin {32, 9} /\ \A b \in 0 .. First - 1 : mem[b] \in {32, 9}
  <2> DEFINE T == {a \in 0 .. last : mem[a] \notin {32, 9}}
  <2>1. last \in T /\ T \subseteq Nat
    BY <1>1
  <2>2. PICK a \in T : \A b \in T : a <= b
    BY <2>1, Smallest
  <2>3. \A b \in 0 .. a - 1 : mem[b] \in {32, 9}
    <3> SUFFICES ASSUME NEW b \in 0 .. a - 1, b \notin T PROVE mem[b] \in {32, 9}
      BY <1>1, <2>2
    <3> QED
      BY <1>1, <2>2
  <2>4. \E x \in Address : mem[x] \notin {32, 9} /\ \A b \in 0 .. x - 1 : mem[b] \in {32, 9}
    BY <1>1, <2>2, <2>3 DEF Address
  <2> QED
    BY <2>4 DEF First, Address
<1>4. Unsigned \in DOMAIN mem
  <2>1. mem[First] \in {43, 45} => First + 1 \in DOMAIN mem
    BY <1>1, <1>3
  <2> QED
    BY <1>3, <2>1 DEF Unsigned
<1>5. mem[Unsigned] = 48 => Unsigned + 1 \in DOMAIN mem
  BY <1>1, <1>4
<1>6. Hex => Unsigned + 1 \in DOMAIN mem /\ Unsigned + 2 \in DOMAIN mem
  BY <1>1, <1>4, <1>5 DEF Hex
<1>7. Start \in DOMAIN mem
  BY <1>4, <1>6 DEF Start
<1>8. TrueBase \in 0 .. LONG
  <2>1. LONG \in Nat /\ LONG >= 16 /\ call.n \in 0 .. LONG
    <3>1. LONG \in Nat /\ LONG >= 16
      BY Half, Codes
    <3>2. call.n \in 0 .. LONG - 1
      BY <1>0, StrtolAssumption, Zenon
    <3> QED
      BY <3>1, <3>2
  <2> QED
    BY <2>1 DEF TrueBase
<1>9. /\ End \in DOMAIN mem /\ Start <= End /\ Digit(mem[End]) >= TrueBase
      /\ \A b \in Start .. End - 1 : Digit(mem[b]) < TrueBase
  <2> DEFINE T == {a \in Start .. last : Digit(mem[a]) >= TrueBase}
  <2>1. last \in T /\ T \subseteq Nat
    BY <1>1, <1>7, <1>8, Codes
  <2>2. PICK a \in T : \A b \in T : a <= b
    BY <2>1, Smallest
  <2>3. \A b \in Start .. a - 1 : Digit(mem[b]) < TrueBase
    <3> SUFFICES ASSUME NEW b \in Start .. a - 1 PROVE Digit(mem[b]) < TrueBase
      OBVIOUS
    <3>1. b \notin T /\ b \in Start .. last /\ b \in 0 .. last
      BY <1>1, <1>7, <2>2
    <3>2. Digit(mem[b]) \in Nat /\ TrueBase \in Nat
      BY <1>1, <1>2, <1>8, <3>1, StrtolAssumption
    <3> QED
      BY <3>1, <3>2
  <2>4. \E x \in Address : /\ x >= Start /\ Digit(mem[x]) >= TrueBase
                           /\ \A b \in Start .. x - 1 : Digit(mem[b]) < TrueBase
    BY <1>1, <1>7, <2>2, <2>3 DEF Address
  <2> QED
    BY <1>1, <1>7, <2>4 DEF End, Address
<1>10. \A b \in Start .. End - 1 : b \in DOMAIN mem
  BY <1>1, <1>7, <1>9
<1> QED
  BY <1>0, <1>1, <1>2, <1>3, <1>4, <1>5, <1>6, <1>7, <1>8, <1>9, <1>10

\* The sum of the digits, one digit at a time.
LEMMA PartialIs ==
  ASSUME Called, Intact, call.fn = "strtol"
  PROVE  /\ Partial[Start - 1] = 0
         /\ \A k \in Start - 1 .. End - 1 : Partial[k] \in Int
         /\ \A k \in Start .. End - 1 :
              Partial[k] = Partial[k - 1] + Digit(mem[k]) * Power(TrueBase, End - 1 - k)
<1> DEFINE W(k) == Digit(mem[k]) * Power(TrueBase, End - 1 - k)
           h == [x \in Nat \X Int |-> IF Start + x[1] < End THEN x[2] + W(Start + x[1]) ELSE 0]
           Is(f) == f = [k \in Start - 1 .. End - 1 |-> IF k < Start THEN 0 ELSE f[k - 1] + W(k)]
<1>1. /\ Start \in Nat /\ End \in Nat /\ Start <= End /\ TrueBase \in Nat
      /\ \A k \in Start .. End - 1 : Digit(mem[k]) \in Nat
  BY NumberParts, Half
<1>2. ASSUME NEW k \in Start .. End - 1 PROVE W(k) \in Int
  <2>1. End - 1 - k \in Nat
    BY <1>1
  <2>2. Power(TrueBase, End - 1 - k) \in Nat /\ Digit(mem[k]) \in Nat
    BY <1>1, <2>1, PowerIs
  <2> QED
    BY <2>2
<1> HIDE DEF W
<1>3. h \in [Nat \X Int -> Int]
  <2>1. ASSUME NEW n \in Nat, NEW x \in Int
        PROVE  (IF Start + n < End THEN x + W(Start + n) ELSE 0) \in Int
    <3>1. Start + n < End => Start + n \in Start .. End - 1
      BY <1>1
    <3> QED
      BY <1>2, <3>1
  <2> QED
    BY <2>1
<1>4. PICK f \in [Nat -> Int] : f[0] = 0 /\ \A n \in Nat : f[n + 1] = h[<<n, f[n]>>]
  <2>1. PICK zero \in Int : zero = 0
    OBVIOUS
  <2> HIDE DEF h
  <2>2. \E f \in [Nat -> Int] : Recurs(f, zero, h)
    BY <1>3, Recursion
  <2> QED
    BY <2>1, <2>2 DEF Recurs
<1> DEFINE g == [k \in Start - 1 .. End - 1 |-> f[k - (Start - 1)]]
<1>5. Is(g)
  <2>1. ASSUME NEW k \in Start - 1 .. End - 1
        PROVE  f[k - (Start - 1)] = IF k < Start THEN 0 ELSE g[k - 1] + W(k)
    <3>1. CASE k < Start
      <4>1. k - (Start - 1) = 0
        BY <1>1, <3>1
      <4> QED
        BY <1>4, <3>1, <4>1
    <3>2. CASE ~(k < Start)
      <4> DEFINE n == k - 1 - (Start - 1)
      <4>1. n \in Nat /\ n + 1 = k - (Start - 1) /\ Start + n = k /\ k < End /\ k - 1 \in Start - 1 .. End - 1
        BY <1>1, <3>2
      <4>2. g[k - 1] = f[n]
        BY <4>1
      <4> HIDE DEF n
      <4>3. f[n] \in Int /\ <<n, f[n]>> \in Nat \X Int
        BY <1>4, <4>1
      <4>4. h[<<n, f[n]>>] = f[n] + W(k)
        BY <4>1, <4>3
      <4>5. f[n + 1] = h[<<n, f[n]>>]
        BY <1>4, <4>1
      <4> HIDE DEF h, g
      <4> QED
        BY <3>2, <4>1, <4>2, <4>4, <4>5
    <3> QED
      BY <3>1, <3>2
  <2> QED
    BY <2>1
<1>6. Is(Partial)
  <2>1. \E x : Is(x)
    BY <1>5
  <2>2. Partial = CHOOSE x : Is(x)
    BY DEF Partial, W
  <2> HIDE DEF Is
  <2> QED
    BY <2>1, <2>2
<1> HIDE DEF g, h
<1>7. Partial[Start - 1] = 0
  BY <1>1, <1>6
<1>8. ASSUME NEW k \in Start .. End - 1 PROVE Partial[k] = Partial[k - 1] + W(k)
  BY <1>1, <1>6
<1>9. \A k \in Start - 1 .. End - 1 : Partial[k] \in Int
  <2> DEFINE T == {i \in Nat : Start - 1 + i <= End - 1 /\ Partial[Start - 1 + i] \notin Int}
  <2>1. ASSUME T # {} PROVE FALSE
    <3>1. T \subseteq Nat
      OBVIOUS
    <3>2. PICK i \in T : \A j \in T : i <= j
      BY <2>1, <3>1, Smallest
    <3>3. i # 0
      BY <1>1, <1>7
    <3> DEFINE k == Start - 1 + i
    <3>4. /\ i - 1 \in Nat /\ i - 1 < i /\ Start - 1 + (i - 1) = k - 1 /\ k - 1 <= End - 1
          /\ k \in Start .. End - 1
      BY <1>1, <3>3
    <3>5. i - 1 \notin T
      BY <3>2, <3>4
    <3>6. Partial[k - 1] \in Int
      BY <3>4, <3>5
    <3>7. Partial[k] = Partial[k - 1] + W(k) /\ W(k) \in Int
      BY <1>2, <1>8, <3>4
    <3>8. Partial[k] \notin Int
      OBVIOUS
    <3> HIDE DEF k
    <3> QED
      BY <3>6, <3>7, <3>8
  <2> SUFFICES ASSUME NEW k \in Start - 1 .. End - 1 PROVE Partial[k] \in Int
    OBVIOUS
  <2>2. k - (Start - 1) \in Nat /\ Start - 1 + (k - (Start - 1)) = k /\ k <= End - 1
    BY <1>1
  <2>3. k - (Start - 1) \notin T
    BY <2>1
  <2> QED
    BY <2>2, <2>3
<1> QED
  BY <1>7, <1>8, <1>9 DEF W

Minus == IF mem[First] = 45 THEN TRUE ELSE FALSE

\* How far strtol has got: the digits it has read have the value val.
Reading ==
  /\ pc \in {"space", "sign", "prefix", "digits"} => call.fn = "strtol"
  /\ call.fn = "strtol" =>
       /\ pc \in {"call", "space", "sign", "prefix", "digits", "done"}
       /\ s \in DOMAIN mem /\ base \in Nat /\ neg \in BOOLEAN /\ val \in Longs
       /\ pc \in {"space", "sign", "prefix"} => base = call.n /\ val = 0
       /\ pc = "space" => s \in 0 .. First
       /\ pc = "sign" => s = First
       /\ pc = "prefix" => s = Unsigned
       /\ pc \in {"prefix", "digits"} => neg = Minus
       /\ pc = "digits" =>
            /\ s \in Start .. End /\ base = TrueBase
            /\ Alike(Partial[s - 1], val * Power(TrueBase, End - s))

\* The number in the string depends on the call and on memory before it only.
LEMMA SameNumber ==
  ASSUME mem' = mem, call' = call
  PROVE  /\ First' = First /\ Unsigned' = Unsigned /\ Start' = Start /\ End' = End
         /\ TrueBase' = TrueBase /\ Minus' = Minus /\ Value' = Value
         /\ \A k : Partial'[k] = Partial[k]
<1>1. First' = First
  BY DEF First, Address
<1>2. Unsigned' = Unsigned
  BY <1>1 DEF Unsigned
<1>3. Hex' = Hex
  BY <1>2 DEF Hex
<1>4. Start' = Start
  BY <1>2, <1>3 DEF Start
<1>5. TrueBase' = TrueBase
  BY <1>2, <1>3 DEF TrueBase
<1>6. End' = End
  BY <1>4, <1>5 DEF End, Address
<1>7. Partial' = Partial
  BY <1>4, <1>5, <1>6 DEF Partial
<1>8. Value' = Value
  BY <1>6, <1>7 DEF Value
<1>9. Minus' = Minus
  BY <1>1 DEF Minus
<1> QED
  BY <1>1, <1>2, <1>4, <1>5, <1>6, <1>7, <1>8, <1>9

\* The memory that strtol reads goes from 0 to its last address.
LEMMA NumberDomain ==
  ASSUME Called, Intact, call.fn = "strtol"
  PROVE  LastOf(mem) \in Nat /\ DOMAIN mem = 0 .. LastOf(mem)
  BY StringMemoryIs DEF Called, Intact

\* The steps at the beginning of strtol: its entry, those over white space and over the sign.
LEMMA strtolStep ==
  ASSUME Called, Intact, Reading, strtol \/ Space \/ Sign
  PROVE  Reading' /\ pc' # "done"
<1>0. /\ call.fn = "strtol" \/ pc \in {"space", "sign"}
      /\ mem' = mem /\ call' = call
  BY DEF strtol, Space, Sign, calling
<1> SUFFICES ASSUME call.fn = "strtol" PROVE Reading' /\ pc' # "done"
  BY <1>0 DEF Reading, strtol, Space, Sign
<1>1. /\ \A a \in DOMAIN mem : a \in Nat /\ mem[a] \in Nat
      /\ First \in DOMAIN mem /\ mem[First] \notin {32, 9} /\ \A b \in 0 .. First - 1 : mem[b] \in {32, 9}
      /\ Unsigned \in DOMAIN mem /\ call.p \in DOMAIN mem /\ call.p = 0 /\ call.n \in Nat
  BY NumberParts DEF Called
<1>2. /\ First' = First /\ Unsigned' = Unsigned /\ Minus' = Minus
  BY <1>0, SameNumber
<1>3. 0 \in Longs
  BY Half, StrtolAssumption DEF Longs
<1>4. CASE strtol
  <2>1. s' = 0 /\ neg' = FALSE /\ base' = call.n /\ val' = 0 /\ pc' = "space"
    BY <1>1, <1>4 DEF strtol
  <2>2. 0 \in 0 .. First
    BY <1>1
  <2>3. s' \in DOMAIN mem
    BY <1>1, <2>1
  <2> QED
    BY <1>0, <1>1, <1>2, <1>3, <2>1, <2>2, <2>3 DEF Reading
<1>5. CASE Space
  <2>1. /\ pc = "space" /\ s \in 0 .. First /\ s \in DOMAIN mem /\ base = call.n /\ val = 0 /\ neg \in BOOLEAN
        /\ base' = base /\ val' = val /\ neg' = neg
        /\ IF mem[s] \in {32, 9} THEN s' = s + 1 /\ pc' = pc ELSE pc' = "sign" /\ s' = s
    BY <1>5 DEF Space, Reading
  <2>2. CASE mem[s] \in {32, 9}
    <3>1. s + 1 \in 0 .. First
      BY <1>1, <2>1, <2>2
    <3>2. s + 1 \in DOMAIN mem
      BY <1>0, <1>1, <3>1, NumberDomain
    <3> QED
      BY <1>0, <1>1, <1>2, <1>3, <2>1, <2>2, <3>1, <3>2 DEF Reading
  <2>3. CASE mem[s] \notin {32, 9}
    <3>1. s = First
      BY <1>1, <2>1, <2>3
    <3> QED
      BY <1>0, <1>1, <1>2, <1>3, <2>1, <2>3, <3>1 DEF Reading
  <2> QED
    BY <2>2, <2>3
<1>6. CASE Sign
  <2>1. /\ pc = "sign" /\ s = First /\ base = call.n /\ val = 0
        /\ base' = base /\ val' = val /\ neg' = (mem[s] = 45) /\ pc' = "prefix"
        /\ s' = IF mem[s] \in {43, 45} THEN s + 1 ELSE s
    BY <1>6 DEF Sign, Reading
  <2>2. s' = Unsigned
    BY <2>1 DEF Unsigned
  <2>3. neg' = Minus /\ neg' \in BOOLEAN
    BY <2>1 DEF Minus
  <2> QED
    BY <1>0, <1>1, <1>2, <1>3, <2>1, <2>2, <2>3 DEF Reading
<1> QED
  BY <1>4, <1>5, <1>6

\* The step over 0x or 0, which also decides the base.
LEMMA PrefixStep ==
  ASSUME Called, Intact, Reading, Prefix
  PROVE  Reading' /\ pc' # "done"
<1>0. pc = "prefix" /\ pc' = "digits" /\ mem' = mem /\ call' = call /\ neg' = neg /\ val' = val
  BY DEF Prefix, calling
<1> SUFFICES ASSUME call.fn = "strtol" PROVE Reading' /\ pc' # "done"
  BY <1>0 DEF Reading
<1>1. s = Unsigned /\ base = call.n /\ val = 0 /\ neg = Minus /\ neg \in BOOLEAN
  BY <1>0 DEF Reading
<1>2. /\ Start \in Nat /\ End \in Nat /\ Start <= End /\ TrueBase \in Nat
      /\ \A b \in Start .. End - 1 : b \in DOMAIN mem
      /\ End \in DOMAIN mem /\ Digit(mem[End]) >= TrueBase
  BY NumberParts, Half
<1>3. \/ Hex /\ base' = 16 /\ s' = Unsigned + 2
      \/ ~Hex /\ call.n = 0 /\ mem[Unsigned] = 48 /\ base' = 8 /\ s' = Unsigned + 1
      \/ ~Hex /\ call.n = 0 /\ mem[Unsigned] # 48 /\ base' = 10 /\ s' = Unsigned
      \/ ~Hex /\ call.n # 0 /\ base' = call.n /\ s' = Unsigned
  BY <1>1 DEF Prefix, Hex
<1>4. base' = TrueBase
  BY <1>3 DEF TrueBase
<1>5. s' = Start \/ (s' = Start + 1 /\ mem[Start] = 48 /\ TrueBase = 8)
  BY <1>3 DEF Start, TrueBase
<1>6. s' \in Start .. End /\ Partial[s' - 1] = 0
  <2>1. CASE s' = Start
    BY <1>2, <2>1, PartialIs
  <2>2. CASE s' = Start + 1 /\ mem[Start] = 48 /\ TrueBase = 8
    <3>1. Digit(mem[Start]) = 0
      BY <2>2, Codes
    <3>2. Start # End
      BY <1>2, <2>2, <3>1
    <3>3. Start \in Start .. End - 1 /\ s' - 1 = Start
      BY <1>2, <2>2, <3>2
    <3>4. Partial[Start] = Partial[Start - 1] + Digit(mem[Start]) * Power(TrueBase, End - 1 - Start)
      BY <3>3, PartialIs
    <3>5. Power(TrueBase, End - 1 - Start) \in Nat
      <4>1. End - 1 - Start \in Nat
        BY <1>2, <3>3
      <4> QED
        BY <1>2, <4>1, PowerIs
    <3>6. Partial[Start - 1] = 0
      BY PartialIs
    <3>7. Partial[Start] = 0
      BY <3>1, <3>4, <3>5, <3>6
    <3> QED
      BY <1>2, <2>2, <3>3, <3>7
  <2> QED
    BY <1>5, <2>1, <2>2
<1>7. Alike(Partial[s' - 1], 0 * Power(TrueBase, End - s'))
  <2>1. End - s' \in Nat
    <3>1. s' \in Start .. End
      BY <1>6
    <3>2. Start \in Nat /\ End \in Nat
      BY <1>2
    <3>3. \A t \in Start .. End : End - t \in Nat
      BY <3>2
    <3> QED
      BY <3>1, <3>3
  <2>2. Power(TrueBase, End - s') \in Nat
    BY <1>2, <2>1, PowerIs
  <2>3. 0 * Power(TrueBase, End - s') = 0
    BY <2>2
  <2>4. Alike(0, 0)
    BY AlikeItself
  <2> QED
    BY <1>6, <2>3, <2>4
<1>8. s' \in DOMAIN mem
  BY <1>2, <1>6
<1>9. 0 \in Longs
  BY Half, StrtolAssumption DEF Longs
<1>10. /\ Start' = Start /\ End' = End /\ TrueBase' = TrueBase /\ Minus' = Minus
       /\ \A k : Partial'[k] = Partial[k]
  BY <1>0, SameNumber
<1>11. (Alike(Partial[s - 1], val * Power(TrueBase, End - s)))'
  BY <1>0, <1>1, <1>7, <1>10
<1> QED
  BY <1>0, <1>1, <1>2, <1>4, <1>6, <1>8, <1>9, <1>10, <1>11 DEF Reading

\* One digit more, or the end.
LEMMA DigitsStep ==
  ASSUME Called, Intact, Reading, Digits
  PROVE  Reading' /\ ReadsNumber' /\ EndsAtNoDigit' /\ (pc' = "done" => result' \in Int)
<1>0. pc = "digits" /\ mem' = mem /\ call' = call /\ neg' = neg /\ base' = base
  BY DEF Digits, calling
<1> SUFFICES ASSUME call.fn = "strtol"
             PROVE  Reading' /\ ReadsNumber' /\ EndsAtNoDigit' /\ (pc' = "done" => result' \in Int)
  BY <1>0 DEF Reading
<1> DEFINE P(e) == Power(TrueBase, e)
<1>1. /\ s \in Start .. End /\ s \in DOMAIN mem /\ base = TrueBase /\ neg = Minus /\ val \in Longs
      /\ Alike(Partial[s - 1], val * P(End - s)) /\ neg \in BOOLEAN
  BY <1>0 DEF Reading
<1>2. /\ Start \in Nat /\ End \in Nat /\ Start <= End /\ TrueBase \in Nat
      /\ \A b \in Start .. End - 1 : b \in DOMAIN mem /\ Digit(mem[b]) < TrueBase
      /\ End \in DOMAIN mem /\ Digit(mem[End]) >= TrueBase
      /\ \A a \in DOMAIN mem : Digit(mem[a]) \in Nat
  BY NumberParts, Half
<1>3. /\ First' = First /\ Start' = Start /\ End' = End /\ TrueBase' = TrueBase /\ Minus' = Minus
      /\ Value' = Value /\ \A k : Partial'[k] = Partial[k]
  BY <1>0, SameNumber
<1>4. val \in Int
  BY <1>1, Half DEF Longs
<1>5. CASE Digit(mem[s]) < base
  <2> DEFINE D == Digit(mem[s])
             e == End - 1 - s
  <2>1. /\ val' = AsLong(val * base + D) /\ s' = s + 1 /\ pc' = "digits"
    BY <1>0, <1>5 DEF Digits
  <2>2. s # End
    BY <1>1, <1>2, <1>5
  <2>3. s \in Start .. End - 1 /\ e \in Nat /\ e + 1 = End - s /\ End - (s + 1) = e /\ s + 1 - 1 = s
        /\ s + 1 \in Start .. End /\ s - 1 \in Start - 1 .. End - 1 /\ s \in Start - 1 .. End - 1
    BY <1>1, <1>2, <2>2
  <2>4. D \in Nat
    BY <1>1, <1>2
  <2>5. Partial[s] = Partial[s - 1] + D * P(e) /\ Partial[s - 1] \in Int /\ Partial[s] \in Int
    BY <2>3, PartialIs
  <2>6. P(e) \in Nat /\ P(End - s) = TrueBase * P(e)
    <3>1. P(e + 1) = TrueBase * P(e) /\ P(e) \in Nat
      BY <1>2, <2>3, PowerIs
    <3> QED
      BY <2>3, <3>1
  <2> HIDE DEF D, e, P
  <2> DEFINE new == val * TrueBase + D
             p == P(e)
  <2>7. Alike(Partial[s], val * P(End - s) + D * p)
    <3>1. val * P(End - s) \in Int /\ D * p \in Int
      BY <1>2, <1>4, <2>4, <2>6
    <3> HIDE DEF p
    <3>2. Alike(Partial[s - 1] + D * p, val * P(End - s) + D * p)
      BY <1>1, <2>5, <3>1, AlikeProducts
    <3> QED
      BY <2>5, <3>2 DEF p
  <2>8. val * P(End - s) + D * p = new * p /\ new \in Int /\ new * p \in Int
    <3>1. p \in Nat /\ P(End - s) = TrueBase * p
      BY <2>6
    <3> HIDE DEF p
    <3>2. val * (TrueBase * p) = (val * TrueBase) * p
      BY <1>2, <1>4, <3>1
    <3> QED
      BY <1>2, <1>4, <2>4, <3>1, <3>2
  <2>9. val' \in Longs /\ Alike(val', new) /\ val' \in Int
    <3>1. val' = AsLong(new)
      BY <1>1, <2>1 DEF D
    <3>2. new \in Int
      BY <2>8
    <3> HIDE DEF new
    <3>3. val' \in Longs /\ Alike(val', new)
      BY <3>1, <3>2, AsLongIs
    <3> QED
      BY <3>3, Half DEF Longs
  <2>10. Alike(Partial[s], val' * p)
    <3>1. p \in Int /\ new \in Int /\ val' * p \in Int /\ new * p \in Int
      BY <2>6, <2>8, <2>9
    <3>2. Alike(Partial[s], new * p)
      BY <2>7, <2>8
    <3> HIDE DEF p, new
    <3>3. Alike(val' * p, new * p)
      BY <2>9, <3>1, AlikeProducts
    <3>4. Alike(new * p, val' * p)
      BY <3>1, <3>3, AlikeItself, AlikeTransitive
    <3> QED
      BY <2>5, <3>1, <3>2, <3>4, AlikeTransitive
  <2>11. (Alike(Partial[s - 1], val * Power(TrueBase, End - s)))'
    <3>1. Alike(Partial[s' - 1], val' * Power(TrueBase, End - s'))
      BY <2>1, <2>3, <2>10 DEF P
    <3> QED
      BY <1>3, <3>1
  <2>12. s' \in DOMAIN mem /\ s' \in Start .. End
    BY <1>2, <2>1, <2>3
  <2>13. Reading'
    BY <1>0, <1>1, <1>2, <1>3, <2>1, <2>9, <2>11, <2>12 DEF Reading
  <2> QED
    BY <2>1, <2>13 DEF ReadsNumber, EndsAtNoDigit
<1>6. CASE ~(Digit(mem[s]) < base)
  <2>1. result' = (IF neg THEN AsLong(-val) ELSE val) /\ pc' = "done" /\ s' = s /\ val' = val
    BY <1>6 DEF Digits
  <2>2. s = End
    BY <1>1, <1>2, <1>6
  <2>3. Alike(Value, val) /\ Value \in Int
    <3>1. End - s = 0 /\ P(0) = 1
      BY <1>2, <2>2, PowerIs
    <3>2. val * P(End - s) = val
      BY <1>4, <3>1
    <3>3. Alike(Partial[End - 1], val)
      BY <1>1, <2>2, <3>2
    <3>4. End - 1 \in Start - 1 .. End - 1
      BY <1>2
    <3>5. Partial[End - 1] \in Int
      BY <3>4, PartialIs
    <3> QED
      BY <3>3, <3>5 DEF Value
  <2>4. Alike(val, Value) /\ Alike(-val, -Value)
    BY <1>4, <2>3, AlikeTransitive, AlikeItself
  <2>5. AsLong(Value) = val
    BY <1>1, <2>3, <2>4, AsLongOf
  <2>6. AsLong(-val) \in Longs /\ AsLong(-val) \in Int /\ Alike(AsLong(-val), -val) /\ -val \in Int /\ -Value \in Int
    BY <1>4, <2>3, AsLongIs, Half DEF Longs
  <2>7. Alike(AsLong(-val), -Value)
    BY <2>4, <2>6, AlikeTransitive
  <2>8. AsLong(-Value) = AsLong(-val)
    BY <2>6, <2>7, AsLongOf
  <2>9. result' = AsLong(IF mem[First] = 45 THEN -Value ELSE Value) /\ result' \in Int
    BY <1>1, <1>4, <2>1, <2>5, <2>6, <2>8 DEF Minus
  <2>10. ReadsNumber' /\ EndsAtNoDigit'
    BY <1>0, <1>3, <2>1, <2>2, <2>9 DEF ReadsNumber, EndsAtNoDigit
  <2>11. Reading'
    BY <1>0, <1>1, <1>2, <2>1 DEF Reading
  <2> QED
    BY <2>9, <2>10, <2>11
<1> QED
  BY <1>5, <1>6

-----------------------------------------------------------------------------
(* The invariant of the functions on strings. *)

\* Where these functions can be.
Stages ==
  /\ call.fn \in Looks => pc \in {"call", "done"}
  /\ call.fn \in Copies => pc \in {"call", "copy", "done"}

Returned ==
  /\ StringsAsPromised
  /\ pc = "cld" => result = dst

Types ==
  /\ DOMAIN mem = DOMAIN before
  /\ result \in Int /\ d \in Nat /\ s \in Nat /\ left \in Nat
  /\ neg \in BOOLEAN /\ base \in Nat /\ val \in Longs
  /\ unit \in {1, WORD} /\ ecx \in Nat /\ DF \in BOOLEAN

StringIInv == Called /\ Intact /\ Stages /\ Copying /\ Reading /\ Returned /\ Types

\* A call begins within the invariant.
LEMMA InitStringIInv == Init => StringIInv
<1> SUFFICES ASSUME Init PROVE StringIInv
  OBVIOUS
<1>1. pc = "call" /\ mem = before /\ result = 0 /\ unit = 1 /\ ecx = 0 /\ DF = FALSE /\ d = 0 /\ s = 0 /\ left = 0
      /\ neg = FALSE /\ base = 0 /\ val = 0
  BY DEF Init, MemoryInit, StringsInit
<1>2. Called
  BY CalledInit
<1>3. 0 \in Longs
  BY Half, StrtolAssumption DEF Longs
<1>4. Types
  <2>1. neg \in BOOLEAN /\ val \in Longs /\ DOMAIN mem = DOMAIN before /\ unit \in {1, WORD} /\ DF \in BOOLEAN
    BY <1>1, <1>3
  <2>2. result \in Int /\ d \in Nat /\ s \in Nat /\ left \in Nat /\ base \in Nat /\ ecx \in Nat
    BY <1>1
  <2> QED
    BY <2>1, <2>2 DEF Types
<1>5. Returned
  BY <1>1 DEF Returned, StringsAsPromised, CopiesString, CopyResult, ComparesAtFirstDifference,
     FindsFirst, ReadsNumber, EndsAtNoDigit
<1>6. Reading
  <2>1. call.fn = "strtol" => s \in DOMAIN mem
    <3> SUFFICES ASSUME call.fn = "strtol" PROVE s \in DOMAIN mem
      OBVIOUS
    <3>1. StringMemory(mem)
      BY <1>1, <1>2 DEF Called
    <3> QED
      BY <1>1, <3>1, StringMemoryIs
  <2> QED
    BY <1>1, <1>3, <2>1 DEF Reading
<1>7. Intact /\ Stages /\ Copying
  BY <1>1 DEF Intact, Stages, Copying
<1> QED
  BY <1>2, <1>4, <1>5, <1>6, <1>7 DEF StringIInv

MemorySteps == memmove_up \/ memmove_down \/ memset \/ memset_nothing \/ movs \/ stos \/ Repeated \/ cld

\* The functions on memory.
LEMMA MemoryStep ==
  ASSUME MemoryIInv, StringIInv, MemorySteps, UNCHANGED <<places, number>>
  PROVE  Intact' /\ Stages' /\ Copying' /\ Reading' /\ Returned' /\ Types'
<1>1. (Moves \/ Sets) /\ call' = call /\ before' = before /\ d' = d /\ s' = s /\ left' = left
      /\ neg' = neg /\ base' = base /\ val' = val
  BY DEF MemorySteps, memmove_up, memmove_down, memset, memset_nothing, movs, stos, Repeated, cld,
     MemoryIInv, Courses, Moves, Sets, calling, places, number
<1>2. pc' \in {"movs", "stos", "cld", "done"}
  BY DEF MemorySteps, memmove_up, memmove_down, memset, memset_nothing, movs, stos, Repeated, cld
<1>3. call.fn \notin Looks \cup Copies \cup {"strtol"}
  BY <1>1 DEF Moves, Sets, Looks, Copies
<1>4. Intact' /\ Stages' /\ Copying' /\ Reading'
  BY <1>1, <1>2, <1>3 DEF Intact, Stages, Copying, Reading
<1>5. /\ DOMAIN mem' = DOMAIN before'
      /\ unit' \in {1, WORD} /\ ecx' \in Nat
  <2>1. DOMAIN mem = DOMAIN before /\ unit \in {1, WORD} /\ ecx \in Nat
    BY DEF StringIInv, Types
  <2>2. DOMAIN mem' = DOMAIN mem
    BY DEF MemorySteps, memmove_up, memmove_down, memset, memset_nothing, movs, stos, Repeated, cld, Address
  <2>3. \A addresses, length : Unit(addresses, length) \in {1, WORD}
    BY DEF Unit
  <2>4. CASE memmove_up \/ memmove_down \/ memset
    <3>1. unit' \in {1, WORD}
      BY <2>3, <2>4 DEF memmove_up, memmove_down, memset
    <3>2. ecx' \in Nat
      <4>1. (Progress /\ pc \in {"movs", "stos"})'
        BY <2>4, StartsMoving, StartsSetting
      <4> QED
        BY <4>1 DEF Progress
    <3> QED
      BY <1>1, <2>1, <2>2, <3>1, <3>2
  <2>5. CASE memset_nothing \/ movs \/ stos \/ Repeated \/ cld
    BY <1>1, <2>1, <2>2, <2>5 DEF memset_nothing, movs, stos, Repeated, cld, registers
  <2> QED
    BY <2>4, <2>5 DEF MemorySteps
<1>6. result' \in Int /\ (pc' \in {"cld", "done"} => result' = dst)
  <2>1. dst \in Nat /\ result \in Int
    BY <1>1 DEF MemoryIInv, InRange, StringIInv, Types
  <2>2. CASE memset_nothing \/ Repeated
    BY <2>1, <2>2 DEF memset_nothing, Repeated
  <2>3. CASE cld
    BY <2>1, <2>3 DEF cld, StringIInv, Returned
  <2>4. CASE memmove_up \/ memmove_down \/ memset \/ movs \/ stos
    BY <2>1, <2>4 DEF memmove_up, memmove_down, memset, movs, stos
  <2> QED
    BY <2>2, <2>3, <2>4 DEF MemorySteps
<1>7. DF' \in BOOLEAN
  <2>1. DF \in BOOLEAN
    BY DEF StringIInv, Types
  <2> QED
    BY <2>1 DEF MemorySteps, memmove_up, memmove_down, memset, memset_nothing, movs, stos, Repeated, cld,
       registers
<1>9. Types'
  BY <1>1, <1>5, <1>6, <1>7 DEF StringIInv, Types
<1>8. Returned'
  <2>1. CopyResult'
    BY <1>1, <1>3, <1>6 DEF CopyResult, Copies, dst
  <2>2. CopiesString' /\ ComparesAtFirstDifference' /\ FindsFirst' /\ ReadsNumber' /\ EndsAtNoDigit'
    BY <1>1, <1>3 DEF CopiesString, ComparesAtFirstDifference, FindsFirst, ReadsNumber, EndsAtNoDigit, Looks
  <2> QED
    BY <1>1, <1>6, <2>1, <2>2 DEF Returned, StringsAsPromised, dst
<1> QED
  BY <1>4, <1>8, <1>9

\* The functions that look.
LEMMA LookStep ==
  ASSUME StringIInv, Look, UNCHANGED <<registers, number>>
  PROVE  Intact' /\ Stages' /\ Copying' /\ Reading' /\ Returned' /\ Types'
<1>0. Called /\ Intact /\ Types /\ Reading /\ Returned
  BY DEF StringIInv
<1>1. /\ call.fn \in Looks /\ mem = before /\ mem' = mem /\ before' = before /\ call' = call
      /\ pc' = "done" /\ d' = d /\ s' = s /\ left' = left /\ neg' = neg /\ base' = base /\ val' = val
      /\ unit' = unit /\ ecx' = ecx /\ DF' = DF
  BY <1>0 DEF Look, Intact, calling, places, registers, number
<1>2. Intact' /\ Stages' /\ Copying' /\ Reading'
  BY <1>1 DEF Intact, Stages, Copying, Reading, Looks, Copies
<1>3. FindsFirst'
  BY <1>0, LookFinds
<1>4. ComparesAtFirstDifference'
  <2>1. CASE call.fn \in {"strcmp", "strncmp", "memcmp"}
    BY <1>0, <2>1, LookCompares
  <2>2. CASE call.fn \notin {"strcmp", "strncmp", "memcmp"}
    BY <1>1, <2>2 DEF ComparesAtFirstDifference
  <2> QED
    BY <2>1, <2>2
<1>5. Returned'
  BY <1>1, <1>3, <1>4 DEF Returned, StringsAsPromised, CopiesString, CopyResult, ReadsNumber,
     EndsAtNoDigit, Looks, Copies
<1>6. result' \in Int
  <2>1. /\ StringMemory(before) /\ call.p \in DOMAIN before /\ call.q \in DOMAIN before
        /\ call.n \in Nat /\ call.p \in Nat /\ \A a \in DOMAIN before : before[a] \in Nat
        /\ call.fn \in {"strchr", "strfind"} => call.c \in Nat \ {0}
    BY <1>0, <1>1, StringMemoryIs DEF Called
  <2>2. Length(before, call.p) \in Nat
    BY <2>1, LengthIs
  <2>3. Before(before, call.p, {0, call.c}) \in Nat
    BY <2>1, BeforeIs
  <2>4. CASE call.fn \in {"strcmp", "strncmp", "memcmp"}
    <3>1. IF Differ' = {} THEN result' = 0
          ELSE \E k \in Differ' : result' = before[call.p + k] - before[call.q + k]
      BY <1>1, <1>4, <2>4 DEF ComparesAtFirstDifference
    <3>2. \A k \in Differ' : call.p + k \in DOMAIN before /\ call.q + k \in DOMAIN before
      BY <1>1 DEF Differ, Address
    <3> QED
      BY <2>1, <3>1, <3>2
  <2>5. CASE call.fn = "strlen"
    BY <1>1, <1>3, <2>2, <2>5 DEF FindsFirst
  <2>6. CASE call.fn = "strnlen"
    BY <1>1, <1>3, <2>1, <2>2, <2>6 DEF FindsFirst, Least
  <2>7. CASE call.fn = "strchr"
    <3>1. result' = strchr(before, call.p, call.c)
      BY <1>1, <2>7 DEF Look, Looked
    <3>2. LET at == call.p + Before(before, call.p, {0, call.c}) IN result' = at \/ result' = Null
      BY <2>1, <2>7, <3>1, strchrIs
    <3> QED
      BY <2>1, <2>3, <3>2 DEF Null
  <2>8. CASE call.fn = "strfind"
    BY <1>1, <1>3, <2>1, <2>3, <2>8 DEF FindsFirst
  <2>9. CASE call.fn = "memfind"
    BY <1>1, <1>3, <2>1, <2>9 DEF FindsFirst
  <2> QED
    BY <1>1, <2>4, <2>5, <2>6, <2>7, <2>8, <2>9 DEF Looks
<1>7. Types'
  BY <1>0, <1>1, <1>6 DEF Types
<1> QED
  BY <1>2, <1>5, <1>7

\* The functions that copy.
LEMMA CopySteps ==
  ASSUME StringIInv, StartCopy \/ CopyAll \/ CopyPadding \/ CopyLimited, UNCHANGED <<registers, number>>
  PROVE  Intact' /\ Stages' /\ Copying' /\ Reading' /\ Returned' /\ Types'
<1>0. Called /\ Intact /\ Types /\ Reading /\ Returned /\ Copying
  BY DEF StringIInv
<1>1. /\ call.fn \in Copies /\ before' = before /\ call' = call /\ pc' \in {"copy", "done"}
      /\ neg' = neg /\ base' = base /\ val' = val /\ unit' = unit /\ ecx' = ecx /\ DF' = DF
  BY DEF StartCopy, CopyAll, CopyPadding, CopyLimited, Copies, calling, registers, number
<1>2. Intact' /\ Stages' /\ Reading'
  BY <1>1 DEF Intact, Stages, Reading, Looks, Copies
<1>3. Copying' /\ CopiesString' /\ CopyResult'
  <2>1. CASE StartCopy
    BY <1>0, <2>1, StartCopyStep DEF CopiesString, CopyResult
  <2>2. CASE CopyAll \/ CopyPadding \/ CopyLimited
    BY <1>0, <2>2, CopyAllStep, CopyPaddingStep, CopyLimitedStep
  <2> QED
    BY <2>1, <2>2
<1>4. Returned'
  <2>1. ComparesAtFirstDifference' /\ FindsFirst' /\ ReadsNumber' /\ EndsAtNoDigit'
    BY <1>1 DEF ComparesAtFirstDifference, FindsFirst, ReadsNumber, EndsAtNoDigit, Copies
  <2> QED
    BY <1>1, <1>3, <2>1 DEF Returned, StringsAsPromised
<1>5. DOMAIN mem' = DOMAIN before'
  BY <1>0, <1>1 DEF Types, StartCopy, CopyAll, CopyPadding, CopyLimited
<1>6. call.p \in Nat /\ call.q \in Nat /\ call.n \in Nat /\ From \in Nat
  BY <1>0, <1>1, CopyFacts
<1>7. d' \in Nat /\ s' \in Nat /\ left' \in Nat /\ result' \in Int
  <2>1. d \in Nat /\ s \in Nat /\ left \in Nat /\ result \in Int
    BY <1>0 DEF Types
  <2>2. CASE StartCopy
    <3>1. s' = call.q /\ left' = call.n /\ result' = result
      BY <2>2 DEF StartCopy
    <3>2. call.fn = "strcat" => strlen(mem, call.p) \in Nat
      <4>1. mem = before /\ StringMemory(before) /\ call.p \in DOMAIN before
        BY <1>0, <1>1, <2>2 DEF StartCopy, Intact, Called
      <4> QED
        BY <4>1, strlenIs, LengthIs
    <3>3. d' \in Nat
      BY <1>6, <2>2, <3>2 DEF StartCopy
    <3> QED
      BY <1>6, <2>1, <3>1, <3>3
  <2>3. CASE CopyAll
    BY <1>6, <2>1, <2>3 DEF CopyAll
  <2>4. CASE CopyPadding
    BY <1>6, <2>1, <2>4 DEF CopyPadding
  <2>5. CASE CopyLimited
    BY <1>6, <2>1, <2>5 DEF CopyLimited
  <2> QED
    BY <2>2, <2>3, <2>4, <2>5
<1>8. Types'
  BY <1>0, <1>1, <1>5, <1>7 DEF Types
<1> QED
  BY <1>2, <1>3, <1>4, <1>8

\* strtol.
LEMMA NumberSteps ==
  ASSUME StringIInv, StrtolNext, UNCHANGED registers
  PROVE  Intact' /\ Stages' /\ Copying' /\ Reading' /\ Returned' /\ Types'
<1>0. Called /\ Intact /\ Types /\ Reading /\ Returned
  BY DEF StringIInv
<1>1. /\ call.fn = "strtol" /\ mem' = mem /\ before' = before /\ call' = call /\ d' = d /\ left' = left
      /\ pc' \in {"space", "sign", "prefix", "digits", "done"} /\ unit' = unit /\ ecx' = ecx /\ DF' = DF
  BY <1>0 DEF StrtolNext, strtol, Space, Sign, Prefix, Digits, calling, registers, Reading
<1>2. Intact' /\ Stages' /\ Copying'
  BY <1>0, <1>1 DEF Intact, Stages, Copying, Looks, Copies
<1>3. Reading' /\ ReadsNumber' /\ EndsAtNoDigit' /\ (pc' = "done" => result' \in Int)
  <2>1. CASE Digits
    BY <1>0, <2>1, DigitsStep
  <2>2. CASE Prefix
    BY <1>0, <2>2, PrefixStep DEF ReadsNumber, EndsAtNoDigit
  <2>3. CASE strtol \/ Space \/ Sign
    BY <1>0, <2>3, strtolStep DEF ReadsNumber, EndsAtNoDigit
  <2> QED
    BY <2>1, <2>2, <2>3 DEF StrtolNext
<1>4. result' \in Int
  <2>1. pc' # "done" => result' = result
    BY DEF StrtolNext, strtol, Space, Sign, Prefix, Digits
  <2> QED
    BY <1>0, <1>3, <2>1 DEF Types
<1>5. Returned'
  BY <1>1, <1>3 DEF Returned, StringsAsPromised, CopiesString, CopyResult, ComparesAtFirstDifference,
     FindsFirst, Copies
<1>6. Types'
  <2>1. s' \in Nat /\ base' \in Nat /\ neg' \in BOOLEAN /\ val' \in Longs
    <3>1. s' \in DOMAIN mem' /\ base' \in Nat /\ neg' \in BOOLEAN /\ val' \in Longs
      BY <1>1, <1>3 DEF Reading
    <3>2. \A a \in DOMAIN mem : a \in Nat
      BY <1>0, <1>1, NumberParts
    <3> QED
      BY <1>1, <3>1, <3>2
  <2> QED
    BY <1>0, <1>1, <1>4, <2>1 DEF Types
<1> QED
  BY <1>2, <1>3, <1>5, <1>6

\* Every step of every function keeps the invariant of the strings.
LEMMA StepStringIInv == MemoryIInv /\ StringIInv /\ [Next]_vars => StringIInv'
<1> SUFFICES ASSUME MemoryIInv, StringIInv, [Next]_vars PROVE StringIInv'
  OBVIOUS
<1>1. Called'
  BY CalledStep DEF StringIInv
<1>2. CASE MemoryNext /\ UNCHANGED <<places, number>>
  BY <1>1, <1>2, MemoryStep DEF MemoryNext, MemorySteps, StringIInv
<1>3. CASE StringsNext /\ UNCHANGED <<registers, number>>
  BY <1>1, <1>3, LookStep, CopySteps DEF StringsNext, StringIInv
<1>4. CASE StrtolNext /\ UNCHANGED registers
  BY <1>1, <1>4, NumberSteps DEF StringIInv
<1>5. CASE UNCHANGED vars
  <2>0. Called /\ Intact /\ Stages /\ Copying /\ Reading /\ Returned /\ Types
    BY DEF StringIInv
  <2>1. UNCHANGED <<mem, before, call, pc, result, d, s, left, neg, base, val, unit, ecx, DF>>
    BY <1>5 DEF vars, calling, registers, places, number
  <2>2. UNCHANGED calling
    BY <2>1 DEF calling
  <2>3. Intact' /\ Stages' /\ Types'
    BY <2>0, <2>1 DEF Intact, Stages, Types
  <2>4. Copying'
    <3>1. From' = From /\ Source' = Source /\ Total' = Total
      BY <2>2, Same
    <3>2. mem = Copied_to(d) => (mem = Copied_to(d))'
      BY <2>1, <2>2, CopiedTo
    <3> QED
      BY <2>0, <2>1, <3>1, <3>2 DEF Copying
  <2>5. Reading'
    BY <2>0, <2>1, SameNumber DEF Reading
  <2>6. Returned'
    <3>1. Target' = Target /\ Differ' = Differ /\ Value' = Value /\ End' = End /\ First' = First
      BY <2>1, <2>2, Same, SameNumber DEF Differ, Address
    <3> QED
      BY <2>0, <2>1, <3>1 DEF Returned, StringsAsPromised, CopiesString, CopyResult,
         ComparesAtFirstDifference, FindsFirst, ReadsNumber, EndsAtNoDigit, Address, dst
  <2> QED
    BY <1>1, <2>3, <2>4, <2>5, <2>6 DEF StringIInv
<1> QED
  BY <1>2, <1>3, <1>4, <1>5 DEF Next

\* However the strings lie, the functions on strings copy what they promise and nothing else,
\* compare at the first difference, find the first place, and strtol reads the number that
\* the digits mean, modulo the width of a long, and stops at the first that is none.
THEOREM StringsCorrect == Spec => []StringsAsPromised
<1>1. MemoryIInv /\ StringIInv => StringsAsPromised
  BY DEF StringIInv, Returned
<1> QED
  BY <1>1, InitMemoryIInv, InitStringIInv, StepMemoryIInv, StepStringIInv, PTL DEF Spec

\* All that is in memory stays bytes, those copied too.
LEMMA BytesKept ==
  ASSUME MemoryIInv, StringIInv
  PROVE  mem \in [DOMAIN before -> 0 .. BYTES - 1]
<1>0. Called /\ Intact /\ Stages /\ Copying /\ Returned /\ Types /\ BYTES \in Nat \ {0}
  BY MemoryAssumption DEF StringIInv
<1>1. before \in [DOMAIN before -> 0 .. BYTES - 1]
  <2>1. CASE Moves \/ Sets
    BY <1>0, <2>1 DEF Called
  <2>2. CASE ~(Moves \/ Sets)
    <3>1. StringMemory(before)
      BY <1>0, <2>2 DEF Called, Moves, Sets
    <3> QED
      BY <3>1, StringMemoryIs
  <2> QED
    BY <2>1, <2>2
<1>2. CASE mem = before
  BY <1>1, <1>2
<1>3. CASE call.fn \in Copies /\ pc # "call"
  <2>1. \A k \in Nat : Char(k) \in 0 .. BYTES - 1
    BY <1>0, <1>3, CopyFacts
  <2>2. From \in Nat /\ Total \in Nat
    BY <1>0, <1>3, CopyFacts
  <2>3. CASE pc = "copy"
    <3>1. mem = Copied_to(d) /\ d \in Nat
      BY <1>0, <2>3 DEF Copying, Types
    <3>2. \A a \in From .. d - 1 : Char(a - From) \in 0 .. BYTES - 1
      BY <2>1, <2>2, <3>1
    <3> QED
      BY <1>1, <3>1, <3>2 DEF Copied_to
  <2>4. CASE pc = "done"
    <3>1. mem = [a \in DOMAIN before |-> IF a \in DOMAIN Target THEN Target[a] ELSE before[a]]
      BY <1>0, <1>3, <2>4 DEF Returned, StringsAsPromised, CopiesString, Types, Address
    <3>2. \A a \in DOMAIN Target : Target[a] \in 0 .. BYTES - 1
      <4> SUFFICES ASSUME NEW a \in From .. From + Total - 1 PROVE Target[a] \in 0 .. BYTES - 1
        BY <1>0, <1>3, TargetIs
      <4>1. Target[a] = 0 \/ Target[a] = Char(a - From)
        BY <1>0, <1>3, TargetIs
      <4>2. a - From \in Nat
        BY <2>2
      <4> QED
        BY <1>0, <2>1, <4>1, <4>2
    <3> QED
      BY <1>1, <3>1, <3>2
  <2> QED
    BY <1>0, <1>3, <2>3, <2>4 DEF Stages
<1>4. CASE Moves \/ Sets
  <2>1. /\ DOMAIN before \subseteq Nat /\ dst \in Nat /\ src \in Nat /\ call.n \in Nat
        /\ src .. src + call.n - 1 \subseteq DOMAIN before
    BY <1>4 DEF MemoryIInv, InRange
  <2>2. ASSUME NEW lo \in Int, NEW hi \in Int, dst <= lo, hi <= dst + call.n - 1
        PROVE  Moved(lo, hi) \in [DOMAIN before -> 0 .. BYTES - 1]
    <3>1. \A a \in lo .. hi : a - dst + src \in DOMAIN before
      <4>1. \A a \in lo .. hi : a - dst + src \in src .. src + call.n - 1
        BY <2>1, <2>2
      <4> QED
        BY <2>1, <4>1
    <3> QED
      BY <1>1, <3>1 DEF Moved
  <2>3. ASSUME Sets, NEW hi PROVE Filled(hi) \in [DOMAIN before -> 0 .. BYTES - 1]
    <3>1. call.c \in Nat
      BY <1>0, <2>3 DEF Called, Sets
    <3>2. call.c % BYTES \in 0 .. BYTES - 1
      BY <1>0, <3>1
    <3> QED
      BY <1>1, <3>2 DEF Filled
  <2>4. dst \in Int /\ dst + call.n - 1 \in Int /\ dst <= dst /\ dst + call.n - 1 <= dst + call.n - 1
    BY <2>1
  <2>5. CASE Moves /\ pc = "movs"
    <3>1. /\ edi \in Int /\ Rest \in 0 .. call.n
          /\ ~DF => edi = dst + call.n - Rest /\ mem = Moved(dst, edi - 1)
          /\ DF => mem = Moved(dst + Rest, dst + call.n - 1)
      BY <2>5 DEF MemoryIInv, Progress
    <3>2. CASE DF
      <4>1. dst + Rest \in Int /\ dst <= dst + Rest
        BY <2>1, <3>1
      <4> QED
        BY <2>2, <2>4, <3>1, <3>2, <4>1
    <3>3. CASE ~DF
      <4>1. edi - 1 \in Int /\ edi - 1 <= dst + call.n - 1
        BY <2>1, <3>1, <3>3
      <4> QED
        BY <2>2, <2>4, <3>1, <3>3, <4>1
    <3> QED
      BY <3>2, <3>3
  <2>6. CASE Moves /\ pc \in {"cld", "done"}
    <3>1. mem = Moved(dst, dst + call.n - 1)
      BY <2>6 DEF MemoryIInv, Results
    <3> QED
      BY <2>2, <2>4, <3>1
  <2>7. CASE Sets /\ pc \in {"stos", "done"}
    <3>1. \E hi : mem = Filled(hi)
      BY <2>7 DEF MemoryIInv, Progress, Results
    <3> QED
      BY <2>3, <2>7, <3>1
  <2>8. CASE pc = "call"
    BY <1>1, <1>4, <2>8 DEF MemoryIInv, Results
  <2> QED
    BY <1>4, <2>5, <2>6, <2>7, <2>8 DEF MemoryIInv, Courses
<1> QED
  BY <1>0, <1>2, <1>3, <1>4 DEF Called, Intact, Moves, Sets

\* What the instruction reads and writes is in the ranges of the call.
LEMMA InstructionInRange ==
  ASSUME MemoryIInv, StringIInv
  PROVE  /\ pc \in {"movs", "stos"} /\ ecx > 0 => Written \subseteq DOMAIN before
         /\ pc = "movs" /\ ecx > 0 => esi .. esi + unit - 1 \subseteq DOMAIN before
<1> SUFFICES ASSUME pc \in {"movs", "stos"}, ecx > 0
             PROVE  /\ Written \subseteq DOMAIN before
                    /\ pc = "movs" => esi .. esi + unit - 1 \subseteq DOMAIN before
  OBVIOUS
<1>1. /\ unit \in Nat \ {0} /\ ecx \in Nat /\ edi \in Int /\ Rest \in 0 .. call.n
      /\ pc = "movs" => /\ esi = edi - dst + src
                        /\ ~DF => edi = dst + call.n - Rest
                        /\ DF => edi + unit = dst + Rest
      /\ pc = "stos" => edi = dst + call.n - Rest
  BY DEF MemoryIInv, Progress
<1>2. /\ dst \in Nat /\ src \in Nat /\ call.n \in Nat
      /\ dst .. dst + call.n - 1 \subseteq DOMAIN before
      /\ src .. src + call.n - 1 \subseteq DOMAIN before
  BY DEF MemoryIInv, Courses, InRange, Moves, Sets
<1>3. unit <= Rest
  <2>1. ecx - 1 \in Nat /\ (ecx - 1) * unit = ecx * unit - unit /\ (ecx - 1) * unit \in Nat
    BY <1>1, OneLess
  <2>2. ecx * unit \in Nat
    BY <1>1
  <2> QED
    BY <1>1, <2>1, <2>2 DEF Rest
<1> DEFINE rest == Rest
<1>4. rest \in 0 .. call.n /\ unit <= rest
  BY <1>1, <1>3
<1>5. dst <= edi /\ edi + unit - 1 <= dst + call.n - 1
  <2>1. edi = dst + call.n - rest \/ edi + unit = dst + rest
    BY <1>1
  <2> HIDE DEF rest
  <2> QED
    BY <1>1, <1>2, <1>4, <2>1
<1>6. edi .. edi + unit - 1 \subseteq dst .. dst + call.n - 1
  BY <1>1, <1>2, <1>5
<1>7. pc = "movs" => esi .. esi + unit - 1 \subseteq src .. src + call.n - 1
  BY <1>1, <1>2, <1>5
<1> QED
  BY <1>2, <1>6, <1>7 DEF Written

\* Memory holds bytes, the pointers of the loops that store stay within it, and the value is a
\* long: no function reads or writes outside its blocks or overflows what it counts in.
THEOREM StrtolTypeCorrect == Spec => []StrtolTypeOK
<1>1. MemoryIInv /\ StringIInv => StrtolTypeOK
  <2> SUFFICES ASSUME MemoryIInv, StringIInv PROVE StrtolTypeOK
    OBVIOUS
  <2>0. Called /\ Intact /\ Stages /\ Copying /\ Reading /\ Types
    BY DEF StringIInv
  <2>1. MemoryTypeOK
    BY <2>0, BytesKept, InstructionInRange DEF MemoryTypeOK, Types, Address
  <2>2. pc = "copy" => s \in Address
    <3> SUFFICES ASSUME pc = "copy" PROVE s \in DOMAIN before
      BY <2>0 DEF Types, Address
    <3>1. call.fn \in Copies /\ d \in From .. From + Total
      BY <2>0 DEF Copying
    <3>2. From \in Nat /\ Source \in Nat /\ Total \in Nat /\ call.n \in Nat
      BY <2>0, <3>1, CopyFacts
    <3>3. \E k \in 0 .. Source : s = call.q + k
      <4>1. CASE call.fn \in {"strcpy", "strcat"}
        <5>1. d < From + Total /\ s = call.q + (d - From) /\ Total = Source + 1
          BY <2>0, <4>1 DEF Copying, Total
        <5>2. d - From \in 0 .. Source
          BY <3>1, <3>2, <5>1
        <5> QED
          BY <5>1, <5>2
      <4>2. CASE call.fn = "strncpy"
        <5>1. s = call.q + Least(d - From, Source)
          BY <2>0, <4>2 DEF Copying
        <5>2. Least(d - From, Source) \in 0 .. Source
          BY <3>1, <3>2 DEF Least
        <5> QED
          BY <5>1, <5>2
      <4>3. CASE call.fn = "strlcpy"
        <5>1. /\ s = call.q + (d - From) /\ (call.n > 0 => d < From + Total)
              /\ Total = IF call.n = 0 THEN 0 ELSE Least(Source, call.n - 1) + 1
          BY <2>0, <4>3 DEF Copying, Total
        <5>2. d - From \in 0 .. Source
          BY <3>1, <3>2, <5>1 DEF Least
        <5> QED
          BY <5>1, <5>2
      <4> QED
        BY <3>1, <4>1, <4>2, <4>3 DEF Copies
    <3> QED
      BY <2>0, <3>1, <3>3, CopyFacts
  <2>3. StringsTypeOK
    BY <2>0, <2>2 DEF StringsTypeOK, Types
  <2>4. pc \in {"call", "movs", "stos", "cld", "copy", "space", "sign", "prefix", "digits", "done"}
    BY <2>0 DEF Called, Stages, Reading, MemoryIInv, Courses, Moves, Sets
  <2>5. call.fn = "strtol" => s \in Address
    BY <2>0 DEF Reading, Address
  <2> QED
    BY <2>0, <2>1, <2>3, <2>4, <2>5 DEF StrtolTypeOK, Types, Longs
<1> QED
  BY <1>1, InitMemoryIInv, InitStringIInv, StepMemoryIInv, StepStringIInv, PTL DEF Spec

-----------------------------------------------------------------------------
(* Formatted output: sequences of sequences. *)

(* Sequences. *)

\* The first k of the sequences, one after the other.
Upto(seqs, k) == FlattenSeq(SubSeq(seqs, 1, k))

\* FlattenSeq takes the sequences one by one.
LEMMA UptoIs ==
  ASSUME NEW S, NEW seqs \in Seq(Seq(S))
  PROVE  /\ Upto(seqs, 0) = <<>> /\ Upto(seqs, Len(seqs)) = FlattenSeq(seqs)
         /\ \A k \in 0 .. Len(seqs) : Upto(seqs, k) \in Seq(S)
         /\ \A k \in 0 .. Len(seqs) - 1 : Upto(seqs, k + 1) = Upto(seqs, k) \o seqs[k + 1]
<1> DEFINE A == Seq(S)
           n == Len(seqs)
           h == [x \in Nat \X A |-> IF x[1] + 1 <= n THEN x[2] \o seqs[x[1] + 1] ELSE x[2]]
<1>0. n \in Nat /\ \A k \in 1 .. n : seqs[k] \in A
  OBVIOUS
<1>1. h \in [Nat \X A -> A]
  <2>1. ASSUME NEW x \in Nat \X A PROVE h[x] \in A
    <3>1. x[1] \in Nat /\ x[2] \in A
      BY <2>1
    <3>2. CASE x[1] + 1 <= n
      <4>1. seqs[x[1] + 1] \in A
        BY <1>0, <3>1, <3>2
      <4>2. x[2] \o seqs[x[1] + 1] \in A
        BY <3>1, <4>1
      <4> QED
        BY <3>2, <4>2
    <3>3. CASE ~(x[1] + 1 <= n)
      BY <3>1, <3>3
    <3> QED
      BY <3>2, <3>3
  <2> HIDE DEF A
  <2> QED
    BY <2>1
<1>2. PICK F \in [Nat -> A] : F[0] = <<>> /\ \A k \in Nat : F[k + 1] = h[<<k, F[k]>>]
  <2>1. PICK empty \in A : empty = <<>>
    BY EmptySeq
  <2> HIDE DEF h, A
  <2>2. \E f \in [Nat -> A] : Recurs(f, empty, h)
    BY <1>1, <2>1, Recursion
  <2> QED
    BY <2>1, <2>2 DEF Recurs
<1>3. \A k \in Nat : F[k] \in A
  BY <1>2
<1>4. ASSUME NEW k \in 0 .. n - 1 PROVE F[k + 1] = F[k] \o seqs[k + 1]
  <2>1. k \in Nat /\ k + 1 <= n /\ F[k] \in A
    BY <1>0, <1>3
  <2>2. <<k, F[k]>> \in Nat \X A
    BY <2>1
  <2>3. h[<<k, F[k]>>] = F[k] \o seqs[k + 1]
    BY <2>1, <2>2
  <2> HIDE DEF h
  <2> QED
    BY <1>2, <2>1, <2>3
<1>5. ASSUME NEW k \in 0 .. n PROVE Upto(seqs, k) = F[k]
  <2> DEFINE t == SubSeq(seqs, 1, k)
  <2>1. Len(t) = k /\ \A i \in 1 .. k : t[i] = seqs[i]
    <3>1. k \in Int /\ \A i \in 1 .. k : seqs[i] \in A
      BY <1>0
    <3> HIDE DEF A
    <3> QED
      BY <1>0, <3>1, SubSeqProperties
  <2>2. CASE k = 0
    <3>1. t = <<>>
      BY <2>1, <2>2, SubSeqEmpty
    <3> QED
      BY <1>2, <2>1, <2>2, <3>1 DEF Upto, FlattenSeq
  <2>3. CASE k # 0
    <3> DEFINE Is(g) == g = [i \in 1 .. k |-> IF i = 1 THEN t[i] ELSE g[i - 1] \o t[i]]
               f == [i \in 1 .. k |-> F[i]]
    <3>1. Is(f)
      <4>1. ASSUME NEW i \in 1 .. k PROVE f[i] = IF i = 1 THEN t[i] ELSE f[i - 1] \o t[i]
        <5>1. i - 1 \in 0 .. n - 1 /\ i - 1 + 1 = i /\ t[i] = seqs[i] /\ seqs[i] \in A
          <6> HIDE DEF t, A
          <6> QED
            BY <1>0, <2>1
        <5>2. F[i] = F[i - 1] \o seqs[i]
          BY <1>4, <5>1
        <5>3. CASE i = 1
          <6>0. i - 1 = 0
            BY <5>3
          <6>1. F[i] = <<>> \o seqs[i]
            BY <1>2, <5>2, <6>0
          <6> QED
            BY <5>1, <5>3, <6>1, ConcatEmptySeq
        <5>4. CASE i # 1
          <6>1. i - 1 \in 1 .. k
            BY <5>4
          <6> QED
            BY <5>1, <5>2, <5>4, <6>1
        <5> QED
          BY <5>3, <5>4
      <4> HIDE DEF t
      <4> QED
        BY <4>1
    <3>2. PICK g : Is(g) /\ Upto(seqs, k) = g[k]
      <4> HIDE DEF f
      <4> QED
        BY <2>1, <2>3, <3>1, Zenon DEF Upto, FlattenSeq
    <3>3. \A i \in 1 .. k : g[i] = IF i = 1 THEN t[i] ELSE g[i - 1] \o t[i]
      <4> HIDE DEF t
      <4> QED
        BY <3>2
    <3>4. \A i \in 1 .. k : f[i] = IF i = 1 THEN t[i] ELSE f[i - 1] \o t[i]
      <4> HIDE DEF t, f
      <4> QED
        BY <3>1
    <3> DEFINE T == {i \in 1 .. k : g[i] # f[i]}
    <3>5. ASSUME T # {} PROVE FALSE
      <4>1. T \subseteq Nat
        OBVIOUS
      <4>2. PICK i \in T : \A j \in T : i <= j
        BY <3>5, <4>1, Smallest
      <4>3. i \in 1 .. k /\ g[i] # f[i]
        OBVIOUS
      <4>4. i # 1
        BY <3>3, <3>4, <4>3
      <4>5. i - 1 \in 1 .. k /\ i - 1 \notin T
        BY <4>2, <4>3, <4>4
      <4>6. g[i - 1] = f[i - 1]
        BY <4>5
      <4> HIDE DEF t, f, T
      <4> QED
        BY <3>3, <3>4, <4>3, <4>4, <4>6
    <3>6. k \in 1 .. k
      BY <2>3
    <3> QED
      BY <3>2, <3>5, <3>6
  <2> QED
    BY <2>2, <2>3
<1>6. Upto(seqs, Len(seqs)) = FlattenSeq(seqs)
  <2>1. SubSeq(seqs, 1, Len(seqs)) = seqs
    BY SubSeqFull
  <2> QED
    BY <2>1 DEF Upto
<1>7. Upto(seqs, 0) = <<>>
  <2>1. 0 \in 0 .. n
    BY <1>0
  <2> QED
    BY <1>2, <1>5, <2>1
<1>8. \A k \in 0 .. Len(seqs) : Upto(seqs, k) \in Seq(S)
  BY <1>0, <1>3, <1>5
<1>9. ASSUME NEW k \in 0 .. Len(seqs) - 1 PROVE Upto(seqs, k + 1) = Upto(seqs, k) \o seqs[k + 1]
  <2>1. k \in 0 .. n /\ k + 1 \in 0 .. n
    BY <1>0
  <2> HIDE DEF h, n
  <2> QED
    BY <1>4, <1>5, <2>1 DEF n
<1> QED
  BY <1>6, <1>7, <1>8, <1>9

\* e is found in t, after n others.
FoundAt(e, n, t) == n + Len(e) <= Len(t) /\ \A j \in 1 .. Len(e) : t[n + j] = e[j]

\* The second part of a concatenation is found after the first.
LEMMA PieceAtEnd ==
  ASSUME NEW S, NEW a \in Seq(S), NEW b \in Seq(S)
  PROVE  FoundAt(b, Len(a), a \o b)
<1>1. PICK t \in Seq(S) : t = a \o b
  BY ConcatProperties
<1>2. Len(t) = Len(a) + Len(b) /\ \A i \in 1 .. Len(a) + Len(b) : t[i] = IF i <= Len(a) THEN a[i] ELSE b[i - Len(a)]
  BY <1>1, ConcatProperties
<1>3. PICK x \in Nat : x = Len(a)
  BY LenProperties
<1>4. PICK y \in Nat : y = Len(b)
  BY LenProperties
<1>5. Len(t) = x + y /\ \A i \in 1 .. x + y : t[i] = IF i <= x THEN a[i] ELSE b[i - x]
  BY <1>2, <1>3, <1>4
<1>6. ASSUME NEW j \in 1 .. y PROVE t[x + j] = b[j]
  <2>1. x + j \in 1 .. x + y /\ ~(x + j <= x) /\ x + j - x = j
    OBVIOUS
  <2>2. t[x + j] = IF x + j <= x THEN a[x + j] ELSE b[x + j - x]
    BY <1>5, <2>1
  <2> QED
    BY <2>1, <2>2
<1>7. x + y <= Len(t)
  BY <1>5
<1> QED
  BY <1>1, <1>3, <1>4, <1>6, <1>7 DEF FoundAt

\* What is found in the first part of a concatenation is found in the whole.
LEMMA PieceBefore ==
  ASSUME NEW S, NEW a \in Seq(S), NEW b \in Seq(S), NEW e \in Seq(S), NEW n \in Nat, FoundAt(e, n, a)
  PROVE  FoundAt(e, n, a \o b)
<1>1. PICK t \in Seq(S) : t = a \o b
  BY ConcatProperties
<1>2. Len(t) = Len(a) + Len(b) /\ \A i \in 1 .. Len(a) + Len(b) : t[i] = IF i <= Len(a) THEN a[i] ELSE b[i - Len(a)]
  BY <1>1, ConcatProperties
<1>3. PICK x \in Nat : x = Len(a)
  BY LenProperties
<1>4. PICK y \in Nat : y = Len(b)
  BY LenProperties
<1>5. PICK w \in Nat : w = Len(e)
  BY LenProperties
<1>6. Len(t) = x + y /\ \A i \in 1 .. x + y : t[i] = IF i <= x THEN a[i] ELSE b[i - x]
  BY <1>2, <1>3, <1>4
<1>7. n + w <= x /\ \A j \in 1 .. w : a[n + j] = e[j]
  BY <1>3, <1>5 DEF FoundAt
<1>8. ASSUME NEW j \in 1 .. w PROVE t[n + j] = e[j]
  <2>1. n + j \in 1 .. x + y /\ n + j <= x
    BY <1>7
  <2>2. t[n + j] = IF n + j <= x THEN a[n + j] ELSE b[n + j - x]
    BY <1>6, <2>1
  <2> QED
    BY <1>7, <2>1, <2>2
<1>9. n + w <= Len(t)
  BY <1>6, <1>7
<1> QED
  BY <1>1, <1>5, <1>8, <1>9 DEF FoundAt

\* Each of the sequences is found in all of them together.
LEMMA PieceOfAll ==
  ASSUME NEW S, NEW seqs \in Seq(Seq(S)), NEW k \in 0 .. Len(seqs) - 1
  PROVE  /\ Len(Upto(seqs, k)) + Len(seqs[k + 1]) <= Len(FlattenSeq(seqs))
         /\ \A j \in 1 .. Len(seqs[k + 1]) : FlattenSeq(seqs)[Len(Upto(seqs, k)) + j] = seqs[k + 1][j]
<1> DEFINE n == Len(seqs)
           U(m) == Upto(seqs, m)
           Holds(m) == FoundAt(seqs[k + 1], Len(U(k)), U(m))
           T == {m \in k + 1 .. n : ~Holds(m)}
<1>0. n \in Nat /\ k \in Nat /\ k + 1 \in 1 .. n /\ \A m \in 1 .. n : seqs[m] \in Seq(S)
  OBVIOUS
<1>1. /\ U(n) = FlattenSeq(seqs) /\ \A m \in 0 .. n : U(m) \in Seq(S)
      /\ \A m \in 0 .. n - 1 : U(m + 1) = U(m) \o seqs[m + 1]
  BY UptoIs
<1> HIDE DEF U
<1>2. ASSUME T # {} PROVE FALSE
  <2>1. T \subseteq Nat
    BY <1>0
  <2>2. PICK m \in T : \A i \in T : m <= i
    BY <1>2, <2>1, Smallest
  <2>3. m \in k + 1 .. n /\ ~Holds(m) /\ m - 1 \in 0 .. n - 1 /\ m - 1 + 1 = m
    BY <1>0
  <2>4. /\ U(m) = U(m - 1) \o seqs[m] /\ U(m - 1) \in Seq(S) /\ seqs[m] \in Seq(S)
        /\ U(k) \in Seq(S) /\ seqs[k + 1] \in Seq(S)
    <3>1. m - 1 \in 0 .. n /\ m \in 1 .. n /\ k \in 0 .. n
      BY <1>0, <2>3
    <3> QED
      BY <1>0, <1>1, <2>3, <3>1
  <2>5. CASE m = k + 1
    <3>1. m - 1 = k
      BY <1>0, <2>5
    <3>2. Holds(m)
      BY <2>4, <2>5, <3>1, PieceAtEnd
    <3> QED
      BY <2>3, <3>2
  <2>6. CASE m # k + 1
    <3>1. m - 1 \in k + 1 .. n /\ m - 1 < m
      BY <2>3, <2>6
    <3>2. Holds(m - 1)
      BY <2>2, <2>3, <3>1
    <3>3. FoundAt(seqs[k + 1], Len(U(k)), U(m - 1) \o seqs[m])
      BY <2>4, <3>2, PieceBefore, LenProperties, Zenon
    <3>4. Holds(m)
      BY <2>4, <3>3, Zenon
    <3> QED
      BY <2>3, <3>4
  <2> QED
    BY <2>5, <2>6
<1>3. n \in k + 1 .. n
  BY <1>0
<1>4. Holds(n)
  BY <1>2, <1>3
<1> QED
  BY <1>1, <1>4 DEF U, FoundAt

-----------------------------------------------------------------------------
(* Numerals. *)

\* A sequence of one.
LEMMA Single ==
  ASSUME NEW S, NEW x \in S
  PROVE  <<x>> \in Seq(S) /\ Len(<<x>>) = 1 /\ <<x>>[1] = x
  OBVIOUS

\* One more element at the end of a sequence.
LEMMA OneMore ==
  ASSUME NEW S, NEW a \in Seq(S), NEW x \in S
  PROVE  /\ a \o <<x>> \in Seq(S) /\ Len(a \o <<x>>) = Len(a) + 1
         /\ \A i \in 1 .. Len(a) : (a \o <<x>>)[i] = a[i]
         /\ (a \o <<x>>)[Len(a) + 1] = x
<1>1. PICK t \in Seq(S) : t = <<x>> /\ Len(t) = 1 /\ t[1] = x
  BY Single
<1>2. /\ a \o t \in Seq(S) /\ Len(a \o t) = Len(a) + Len(t)
      /\ \A i \in 1 .. Len(a) + Len(t) : (a \o t)[i] = IF i <= Len(a) THEN a[i] ELSE t[i - Len(a)]
  BY ConcatProperties
<1>3. Len(a) \in Nat
  OBVIOUS
<1>4. (a \o t)[Len(a) + 1] = t[Len(a) + 1 - Len(a)] /\ Len(a) + 1 - Len(a) = 1
  BY <1>1, <1>2, <1>3
<1> QED
  BY <1>1, <1>2, <1>3, <1>4

\* What a quotient is.
LEMMA Quotient ==
  ASSUME NEW a \in Nat, NEW c \in Nat \ {0}
  PROVE  /\ a \div c \in Nat /\ c * (a \div c) <= a /\ a < c * (a \div c) + c
         /\ \A q \in Nat : c * q <= a /\ a < c * q + c => a \div c = q
<1> DEFINE r == a \div c
<1>1. r \in Nat /\ c * r <= a /\ a < c * r + c
  OBVIOUS
<1> HIDE DEF r
<1>2. ASSUME NEW q \in Nat, c * q <= a, a < c * q + c PROVE r = q
  <2>1. ASSUME NEW i \in Nat, NEW j \in Nat, i < j PROVE c * i + c <= c * j
    <3>1. PICK e \in Nat : j = i + 1 + e
      <4>1. j - i - 1 \in Nat /\ j = i + 1 + (j - i - 1)
        BY <2>1
      <4> QED
        BY <4>1
    <3>2. c * j = c * i + c + c * e /\ c * e \in Nat /\ c * i \in Nat
      BY <3>1
    <3> QED
      BY <3>2
  <2>2. c * r \in Nat /\ c * q \in Nat
    BY <1>1
  <2>3. ~(r < q) /\ ~(q < r)
    BY <1>1, <1>2, <2>1, <2>2
  <2> QED
    BY <1>1, <2>3
<1> QED
  BY <1>1, <1>2 DEF r

\* To divide by one number and then by another is to divide by their product.
LEMMA Quotients ==
  ASSUME NEW a \in Nat, NEW c \in Nat \ {0}, NEW e \in Nat \ {0}
  PROVE  e * c \in Nat \ {0} /\ (a \div c) \div e = a \div (e * c)
<1> DEFINE q == a \div c
           r == q \div e
<1>1. q \in Nat /\ c * q <= a /\ a < c * q + c
  BY Quotient
<1>2. r \in Nat /\ e * r <= q /\ q < e * r + e
  <2> HIDE DEF q
  <2> QED
    BY <1>1, Quotient
<1>3. e * c \in Nat \ {0}
  OBVIOUS
<1> HIDE DEF q, r
<1>4. c * (e * r) <= c * q /\ c * (q + 1) <= c * (e * r + e)
  <2>1. ASSUME NEW i \in Nat, NEW j \in Nat, i <= j PROVE c * i <= c * j
    <3>1. PICK k \in Nat : j = i + k
      <4>1. j - i \in Nat /\ j = i + (j - i)
        BY <2>1
      <4> QED
        BY <4>1
    <3>2. c * j = c * i + c * k /\ c * k \in Nat /\ c * i \in Nat
      BY <3>1
    <3> QED
      BY <3>2
  <2>2. e * r \in Nat /\ e * r + e \in Nat /\ q + 1 \in Nat /\ q + 1 <= e * r + e
    BY <1>1, <1>2
  <2> QED
    BY <1>1, <1>2, <2>1, <2>2
<1>5. /\ c * (e * r) = (e * c) * r /\ c * (q + 1) = c * q + c
      /\ c * (e * r + e) = (e * c) * r + e * c
      /\ (e * c) * r \in Nat /\ c * q \in Nat
  BY <1>1, <1>2
<1>6. (e * c) * r <= a /\ a < (e * c) * r + e * c
  <2> DEFINE u == (e * c) * r
             v == c * q
             w == e * c
             x == c * (e * r)
             y == c * (q + 1)
             z == c * (e * r + e)
  <2>1. x <= v /\ y <= z /\ x = u /\ y = v + c /\ z = u + w /\ v <= a /\ a < v + c
    BY <1>1, <1>4, <1>5
  <2>2. u \in Nat /\ v \in Nat /\ w \in Nat
    BY <1>3, <1>5
  <2> HIDE DEF u, v, w, x, y, z
  <2>3. u <= a /\ a < u + w
    BY <2>1, <2>2
  <2> QED
    BY <2>3 DEF u, w
<1>7. a \div (e * c) = r
  <2> DEFINE w == e * c
  <2>1. w \in Nat \ {0} /\ w * r <= a /\ a < w * r + w
    BY <1>3, <1>6
  <2> HIDE DEF w
  <2>2. a \div w = r
    BY <1>2, <2>1, Quotient
  <2> QED
    BY <2>2 DEF w
<1> QED
  BY <1>3, <1>7 DEF q, r

\* Powers grow, beyond what they are of.
LEMMA PowersGrow ==
  ASSUME NEW b \in Nat \ {0, 1}
  PROVE  /\ \A i \in Nat : Power(b, i) \in Nat \ {0} /\ i < Power(b, i)
         /\ \A i \in Nat : \A j \in Nat : i <= j => Power(b, i) <= Power(b, j)
<1>1. Power(b, 0) = 1 /\ \A i \in Nat : Power(b, i) \in Nat /\ Power(b, i + 1) = b * Power(b, i)
  BY PowerIs
<1> DEFINE P(i) == Power(b, i)
<1> HIDE DEF P
<1>2. P(0) = 1 /\ \A i \in Nat : P(i) \in Nat /\ P(i + 1) = b * P(i) /\ P(i) <= P(i + 1) /\ 2 * P(i) <= P(i + 1)
  <2>1. P(0) = 1 /\ \A i \in Nat : P(i) \in Nat /\ P(i + 1) = b * P(i)
    BY <1>1 DEF P
  <2>2. ASSUME NEW n \in Nat PROVE n <= b * n /\ 2 * n <= b * n
    <3>1. PICK c \in Nat : b = 2 + c
      <4>1. b - 2 \in Nat /\ b = 2 + (b - 2)
        OBVIOUS
      <4> QED
        BY <4>1
    <3>2. b * n = 2 * n + c * n /\ c * n \in Nat
      BY <3>1
    <3> QED
      BY <3>2
  <2> QED
    BY <2>1, <2>2
<1>3. \A i \in Nat : P(i) \in Nat /\ i < P(i)
  <2> DEFINE T == {i \in Nat : ~(i < P(i))}
  <2>1. ASSUME T # {} PROVE FALSE
    <3>1. PICK i \in T : \A j \in T : i <= j
      BY <2>1, Smallest
    <3>2. i \in Nat /\ ~(i < P(i)) /\ i # 0
      BY <1>2
    <3>3. i - 1 \in Nat /\ i - 1 + 1 = i /\ i - 1 < i
      BY <3>2
    <3>4. i - 1 < P(i - 1)
      BY <3>1, <3>2, <3>3
    <3>5. P(i - 1) \in Nat /\ 2 * P(i - 1) <= P(i) /\ P(i) \in Nat
      BY <1>2, <3>2, <3>3
    <3> QED
      BY <3>2, <3>4, <3>5
  <2> QED
    BY <1>2, <2>1
<1>4. ASSUME NEW i \in Nat, NEW k \in Nat PROVE P(i) <= P(i + k)
  <2> DEFINE T == {n \in Nat : ~(P(i) <= P(i + n))}
  <2>1. ASSUME T # {} PROVE FALSE
    <3>1. PICK n \in T : \A j \in T : n <= j
      BY <2>1, Smallest
    <3>2. n \in Nat /\ ~(P(i) <= P(i + n)) /\ n # 0
      <4>1. i + 0 = i /\ P(i) \in Nat
        BY <1>2
      <4>2. P(i) <= P(i)
        BY <4>1
      <4> QED
        BY <4>1, <4>2
    <3>3. n - 1 \in Nat /\ i + (n - 1) + 1 = i + n /\ n - 1 < n /\ i + (n - 1) \in Nat /\ i + n \in Nat
      BY <3>2
    <3>4. P(i) <= P(i + (n - 1))
      BY <3>1, <3>2, <3>3
    <3>5. P(i + (n - 1)) <= P(i + (n - 1) + 1) /\ P(i + (n - 1)) \in Nat /\ P(i) \in Nat /\ P(i + n) \in Nat
      BY <1>2, <3>3
    <3>6. P(i + (n - 1) + 1) = P(i + n)
      BY <3>3
    <3> QED
      BY <3>2, <3>4, <3>5, <3>6
  <2> QED
    BY <2>1
<1>5. ASSUME NEW i \in Nat, NEW j \in Nat, i <= j PROVE P(i) <= P(j)
  <2>1. j - i \in Nat /\ i + (j - i) = j
    BY <1>5
  <2>2. P(i) <= P(i + (j - i))
    BY <1>4, <2>1
  <2> QED
    BY <2>1, <2>2
<1> QED
  BY <1>3, <1>5 DEF P

\* The characters that vprintfmt has of its own.
LEMMA CharacterIs ==
  /\ \A e \in 0 .. 15 : DigitChar(e) \in STRING
  /\ \A e \in 1 .. 6 : error_string[e] \in STRING
  /\ {" ", "-", "#", ".", "*", "l", "%", "x", "?", "(", "n", "u", ")", "error ", "0"} \subseteq STRING
<1>1. Atoms \subseteq STRING
  BY PrintfmtAssumption
<1>2. ASSUME NEW e \in 0 .. 15 PROVE DigitChar(e) \in STRING
  <2>1. e + 1 \in 1 .. 16
    OBVIOUS
  <2>2. DigitChars[e + 1] \in Atoms
    BY <2>1, Zenon DEF Atoms
  <2> QED
    BY <1>1, <2>2 DEF DigitChar
<1>3. ASSUME NEW e \in 1 .. 6 PROVE error_string[e] \in STRING
  <2>1. error_string[e] \in Atoms
    BY Zenon DEF Atoms
  <2> QED
    BY <1>1, <2>1
<1>4. {" ", "-", "#", ".", "*", "l", "%", "x", "?", "(", "n", "u", ")", "error "} \subseteq STRING
  BY <1>1, Zenon DEF Atoms
<1>5. "0" \in STRING
  <2>1. DigitChar(0) = "0"
    BY DEF DigitChar, DigitChars
  <2> QED
    BY <1>2, <2>1
<1> QED
  BY <1>2, <1>3, <1>4, <1>5

\* How many digits v has.
HasSize(v, b, k) == v < Power(b, k) /\ (k = 1 \/ v >= Power(b, k - 1))
SizeOf(v, b) == CHOOSE k \in 1 .. v + 1 : HasSize(v, b, k)

\* A number has one size only, and at least one digit.
LEMMA SizeIs ==
  ASSUME NEW v \in Nat, NEW b \in Nat \ {0, 1}
  PROVE  /\ SizeOf(v, b) \in Nat \ {0} /\ HasSize(v, b, SizeOf(v, b))
         /\ \A k \in Nat \ {0} : HasSize(v, b, k) => k = SizeOf(v, b)
<1> DEFINE P(i) == Power(b, i)
           T == {k \in 1 .. v + 1 : v < P(k)}
<1>1. /\ \A i \in Nat : P(i) \in Nat /\ i < P(i)
      /\ \A i \in Nat : \A j \in Nat : i <= j => P(i) <= P(j)
  BY PowersGrow
<1> HIDE DEF P
<1>2. T # {} /\ T \subseteq Nat
  <2>1. v + 1 \in Nat /\ v + 1 < P(v + 1) /\ P(v + 1) \in Nat
    BY <1>1
  <2>2. v + 1 \in T
    BY <2>1
  <2> QED
    BY <2>2
<1>3. PICK k \in T : \A i \in T : k <= i
  BY <1>2, Smallest
<1>4. k \in 1 .. v + 1 /\ HasSize(v, b, k)
  <2>1. CASE k = 1
    BY <2>1 DEF HasSize, P
  <2>2. CASE k # 1
    <3>1. k - 1 \in 1 .. v + 1 /\ k - 1 < k /\ k - 1 \in Nat
      BY <2>2
    <3>2. ~(v < P(k - 1)) /\ P(k - 1) \in Nat
      BY <1>1, <1>3, <3>1
    <3> QED
      BY <2>2, <3>2 DEF HasSize, P
  <2> QED
    BY <2>1, <2>2
<1>5. SizeOf(v, b) \in 1 .. v + 1 /\ HasSize(v, b, SizeOf(v, b))
  <2>1. \E i \in 1 .. v + 1 : HasSize(v, b, i)
    BY <1>4
  <2> QED
    BY <2>1, Zenon DEF SizeOf
<1>6. ASSUME NEW i \in Nat \ {0}, NEW j \in Nat \ {0}, HasSize(v, b, i), HasSize(v, b, j) PROVE ~(i < j)
  <2>1. SUFFICES ASSUME i < j PROVE FALSE
    OBVIOUS
  <2>2. i <= j - 1 /\ j # 1 /\ j - 1 \in Nat
    BY <2>1
  <2>3. v < P(i) /\ v >= P(j - 1)
    BY <1>6, <2>2 DEF HasSize, P
  <2>4. P(i) <= P(j - 1) /\ P(i) \in Nat /\ P(j - 1) \in Nat
    BY <1>1, <2>2
  <2> QED
    BY <2>3, <2>4
<1>7. ASSUME NEW i \in Nat \ {0}, HasSize(v, b, i) PROVE i = SizeOf(v, b)
  <2>1. ~(i < SizeOf(v, b)) /\ ~(SizeOf(v, b) < i) /\ SizeOf(v, b) \in Nat
    BY <1>5, <1>6, <1>7
  <2> QED
    BY <2>1
<1> QED
  BY <1>5, <1>7

\* A numeral: its digits, from the most significant one.
LEMMA NumeralIs ==
  ASSUME NEW v \in Nat, NEW b \in 2 .. 16
  PROVE  /\ Numeral(v, b) = [k \in 1 .. SizeOf(v, b) |-> DigitChar((v \div Power(b, SizeOf(v, b) - k)) % b)]
         /\ Numeral(v, b) \in Seq(STRING) /\ Len(Numeral(v, b)) = SizeOf(v, b)
         /\ \A k \in 1 .. SizeOf(v, b) : Numeral(v, b)[k] = DigitChar((v \div Power(b, SizeOf(v, b) - k)) % b)
<1> DEFINE n == SizeOf(v, b)
           at(k) == DigitChar((v \div Power(b, n - k)) % b)
<1>1. Numeral(v, b) = [k \in 1 .. n |-> at(k)]
  BY Zenon DEF Numeral, SizeOf, HasSize
<1>2. n \in Nat
  BY SizeIs
<1>3. ASSUME NEW k \in 1 .. n PROVE at(k) \in STRING
  <2> HIDE DEF n
  <2>1. n - k \in Nat
    BY <1>2
  <2>2. Power(b, n - k) \in Nat \ {0}
    BY <2>1, PowersGrow
  <2>3. v \div Power(b, n - k) \in Nat
    BY <2>2, Quotient
  <2>4. (v \div Power(b, n - k)) % b \in 0 .. 15
    <3> DEFINE q == v \div Power(b, n - k)
    <3>1. q \in Nat
      BY <2>3
    <3> HIDE DEF q
    <3>2. q % b \in 0 .. 15
      BY <3>1
    <3> QED
      BY <3>2 DEF q
  <2>5. \A e \in 0 .. 15 : DigitChar(e) \in STRING
    BY CharacterIs
  <2> QED
    BY <2>4, <2>5
<1> HIDE DEF n, at
<1>5. \A k \in 1 .. n : Numeral(v, b)[k] = at(k)
  BY <1>1
<1>4. [k \in 1 .. n |-> at(k)] \in Seq(STRING) /\ Len([k \in 1 .. n |-> at(k)]) = n
  BY <1>2, <1>3
<1> QED
  BY <1>1, <1>4, <1>5, Zenon DEF n, at

\* A number below the base is its own digit.
LEMMA NumeralSmall ==
  ASSUME NEW b \in 2 .. 16, NEW v \in 0 .. b - 1
  PROVE  Numeral(v, b) = <<DigitChar(v)>> /\ SizeOf(v, b) = 1
<1>1. Power(b, 0) = 1 /\ Power(b, 1) = b
  <2>1. b \in Nat /\ 0 \in Nat /\ 0 + 1 = 1
    OBVIOUS
  <2>2. Power(b, 0) = 1 /\ Power(b, 0 + 1) = b * Power(b, 0)
    BY <2>1, PowerIs
  <2> QED
    BY <2>1, <2>2
<1>2. HasSize(v, b, 1)
  BY <1>1 DEF HasSize
<1>3. SizeOf(v, b) = 1
  BY <1>2, SizeIs
<1>4. (v \div Power(b, 0)) % b = v
  BY <1>1
<1>5. v \in Nat /\ Numeral(v, b) \in Seq(STRING) /\ Len(Numeral(v, b)) = 1
      /\ Numeral(v, b) = [k \in 1 .. 1 |-> DigitChar((v \div Power(b, 1 - k)) % b)]
  <2>1. v \in Nat /\ b \in 2 .. 16
    OBVIOUS
  <2>2. /\ Numeral(v, b) = [k \in 1 .. SizeOf(v, b) |-> DigitChar((v \div Power(b, SizeOf(v, b) - k)) % b)]
        /\ Numeral(v, b) \in Seq(STRING) /\ Len(Numeral(v, b)) = SizeOf(v, b)
    BY <2>1, NumeralIs, Zenon
  <2> QED
    BY <1>3, <2>1, <2>2, Zenon
<1>6. Numeral(v, b)[1] = DigitChar((v \div Power(b, 1 - 1)) % b) /\ 1 - 1 = 0
  <2> DEFINE at(k) == DigitChar((v \div Power(b, 1 - k)) % b)
  <2>1. Numeral(v, b)[1] = at(1)
    <3>1. Numeral(v, b) = [k \in 1 .. 1 |-> at(k)]
      BY <1>5
    <3> HIDE DEF at
    <3> QED
      BY <3>1
  <2> QED
    BY <2>1
<1>7. Numeral(v, b)[1] = DigitChar(v)
  BY <1>4, <1>6
<1> QED
  BY <1>3, <1>5, <1>7

\* What a digit more adds to a numeral.
LEMMA NumeralStep ==
  ASSUME NEW b \in 2 .. 16, NEW v \in Nat, v >= b
  PROVE  /\ v \div b \in Nat /\ v \div b < v
         /\ Numeral(v, b) = Numeral(v \div b, b) \o <<DigitChar(v % b)>>
         /\ SizeOf(v, b) = SizeOf(v \div b, b) + 1
<1> DEFINE q == v \div b
           P(i) == Power(b, i)
           m == SizeOf(q, b)
<1>1. q \in Nat /\ b * q <= v /\ v < b * q + b
  BY Quotient
<1> HIDE DEF P, m, q
<1>2. q < v
  <2>1. q >= 1
    <3>1. CASE q = 0
      BY <1>1, <3>1
    <3> QED
      BY <1>1, <3>1
  <2>2. b * q = 2 * q + (b - 2) * q /\ (b - 2) * q \in Nat
    BY <1>1
  <2> QED
    BY <1>1, <2>1, <2>2
<1>3. P(0) = 1 /\ \A i \in Nat : P(i) \in Nat \ {0} /\ P(i + 1) = b * P(i)
  <2>1. b \in Nat /\ b \in Nat \ {0, 1}
    OBVIOUS
  <2>2. Power(b, 0) = 1 /\ \A i \in Nat : Power(b, i + 1) = b * Power(b, i)
    BY <2>1, PowerIs
  <2>3. \A i \in Nat : Power(b, i) \in Nat \ {0}
    BY <2>1, PowersGrow
  <2> QED
    BY <2>2, <2>3 DEF P
<1>4. m \in Nat \ {0} /\ q < P(m) /\ (m = 1 \/ q >= P(m - 1))
  BY <1>1, SizeIs DEF m, HasSize, P
<1>5. \A i \in Nat : \A j \in Nat : i <= j => b * i <= b * j
  <2>1. ASSUME NEW i \in Nat, NEW j \in Nat, i <= j PROVE b * i <= b * j
    <3>1. PICK k \in Nat : j = i + k
      <4>1. j - i \in Nat /\ j = i + (j - i)
        BY <2>1
      <4> QED
        BY <4>1
    <3>2. b * j = b * i + b * k /\ b * k \in Nat /\ b * i \in Nat
      BY <3>1
    <3> QED
      BY <3>2
  <2> QED
    BY <2>1
<1>6. v < P(m + 1) /\ (v >= P(m))
  <2>1. b * (q + 1) <= b * P(m) /\ P(m) \in Nat /\ P(m + 1) = b * P(m)
    BY <1>1, <1>3, <1>4, <1>5
  <2>2. b * (q + 1) = b * q + b
    BY <1>1
  <2>3. v < P(m + 1)
    BY <1>1, <2>1, <2>2
  <2>4. CASE m = 1
    <3>1. P(0 + 1) = b
      BY <1>3
    <3> QED
      BY <2>3, <2>4, <3>1
  <2>5. CASE m # 1
    <3>1. m - 1 \in Nat /\ m - 1 + 1 = m /\ q >= P(m - 1) /\ P(m - 1) \in Nat
      BY <1>3, <1>4, <2>5
    <3>2. P(m) = b * P(m - 1) /\ b * P(m - 1) <= b * q
      BY <1>1, <1>3, <1>5, <3>1
    <3> QED
      BY <1>1, <2>1, <2>3, <3>2
  <2> QED
    BY <2>4, <2>5
<1>7. SizeOf(v, b) = m + 1
  <2>1. HasSize(v, b, m + 1) /\ m + 1 \in Nat \ {0}
    BY <1>4, <1>6 DEF HasSize, P
  <2> QED
    BY <2>1, SizeIs
<1> DEFINE big == Numeral(v, b)
           small == Numeral(q, b)
           last == DigitChar(v % b)
<1>8. /\ \A k \in 1 .. m + 1 : big[k] = DigitChar((v \div P(m + 1 - k)) % b)
      /\ \A k \in 1 .. m : small[k] = DigitChar((q \div P(m - k)) % b)
      /\ big \in Seq(STRING) /\ small \in Seq(STRING) /\ Len(big) = m + 1 /\ Len(small) = m
  <2>1. /\ \A k \in 1 .. SizeOf(v, b) : big[k] = DigitChar((v \div P(SizeOf(v, b) - k)) % b)
        /\ big \in Seq(STRING) /\ Len(big) = SizeOf(v, b)
    BY NumeralIs, Zenon DEF P
  <2>2. /\ \A k \in 1 .. SizeOf(q, b) : small[k] = DigitChar((q \div P(SizeOf(q, b) - k)) % b)
        /\ small \in Seq(STRING) /\ Len(small) = SizeOf(q, b)
    BY <1>1, NumeralIs, Zenon DEF P
  <2> HIDE DEF big, small
  <2>3. SizeOf(q, b) = m
    BY Zenon DEF m
  <2> QED
    BY <1>7, <2>1, <2>2, <2>3
<1>9. ASSUME NEW k \in 1 .. m PROVE big[k] = small[k]
  <2>1. m - k \in Nat /\ m + 1 - k = m - k + 1 /\ k \in 1 .. m + 1
    BY <1>4
  <2>2. P(m + 1 - k) = b * P(m - k) /\ P(m - k) \in Nat \ {0}
    BY <1>3, <2>1
  <2>3. (v \div b) \div P(m - k) = v \div (P(m - k) * b)
    BY <2>2, Quotients
  <2>4. P(m - k) * b = b * P(m - k)
    BY <2>2
  <2>5. q \div P(m - k) = v \div P(m + 1 - k)
    BY <2>2, <2>3, <2>4 DEF q
  <2> HIDE DEF big, small
  <2> QED
    BY <1>8, <2>1, <2>5
<1>10. big[m + 1] = last
  <2>1. m + 1 \in 1 .. m + 1 /\ m + 1 - (m + 1) = 0
    BY <1>4
  <2>2. big[m + 1] = DigitChar((v \div P(0)) % b)
    <3> HIDE DEF big
    <3> QED
      BY <1>8, <2>1
  <2>3. v \div P(0) = v
    BY <1>3
  <2> QED
    BY <2>2, <2>3
<1>11. last \in STRING
  <2>1. m + 1 \in 1 .. Len(big)
    BY <1>4, <1>8
  <2>2. big[m + 1] \in STRING
    <3> HIDE DEF big
    <3> QED
      BY <1>8, <2>1
  <2> QED
    BY <1>10, <2>2
<1>12. big = small \o <<last>>
  <2> HIDE DEF big, small, last
  <2>1. /\ small \o <<last>> \in Seq(STRING) /\ Len(small \o <<last>>) = Len(small) + 1
        /\ \A k \in 1 .. Len(small) : (small \o <<last>>)[k] = small[k]
        /\ (small \o <<last>>)[Len(small) + 1] = last
    BY <1>8, <1>11, OneMore, Zenon
  <2>2. ASSUME NEW k \in 1 .. m + 1 PROVE big[k] = (small \o <<last>>)[k]
    <3>1. k \in 1 .. m \/ k = m + 1
      BY <1>4
    <3> QED
      BY <1>8, <1>9, <1>10, <2>1, <3>1
  <2> QED
    <3>1. Len(small \o <<last>>) = m + 1 /\ Len(big) = m + 1
      BY <1>8, <2>1
    <3>2. \A k \in 1 .. Len(big) : big[k] = (small \o <<last>>)[k]
      BY <2>2, <3>1
    <3>3. Len(big) = Len(small \o <<last>>)
      BY <3>1
    <3> QED
      BY <1>8, <2>1, <3>2, <3>3, SeqEqual, Zenon
<1> QED
  BY <1>1, <1>2, <1>7, <1>12 DEF m, q

\* A character n times.
LEMMA RepeatIs ==
  ASSUME NEW S, NEW c \in S, NEW n \in Int
  PROVE  /\ Repeat(c, n) \in Seq(S) /\ Len(Repeat(c, n)) = IF n > 0 THEN n ELSE 0
         /\ n <= 0 => Repeat(c, n) = <<>>
<1>1. CASE n > 0
  <2>1. n \in Nat /\ Repeat(c, n) = [k \in 1 .. n |-> c]
    BY <1>1 DEF Repeat
  <2>2. [k \in 1 .. n |-> c] \in Seq(S) /\ Len([k \in 1 .. n |-> c]) = n
    BY <2>1
  <2> QED
    BY <1>1, <2>1, <2>2
<1>2. CASE ~(n > 0)
  <2>1. Repeat(c, n) = <<>>
    BY <1>2 DEF Repeat
  <2> QED
    BY <1>2, <2>1, EmptySeq
<1> QED
  BY <1>1, <1>2

\* printnum prints the numeral, with padding ahead of it.
Padded(c, n, t) == Repeat(c, n - Len(t)) \o t

\* What printnum prints, for any number, base, width and padding.
LEMMA printnumIs ==
  ASSUME NEW v \in Nat, NEW b \in 2 .. 16, NEW w \in Int, NEW c \in STRING
  PROVE  /\ printnum(v, b, w, c) = Padded(c, w, Numeral(v, b))
         /\ printnum(v, b, w, c) \in Seq(STRING)
<1> DEFINE Step(g, n, l) == (IF n >= b THEN g[<<n \div b, l - 1>>] ELSE Repeat(c, l - 1)) \o <<DigitChar(n % b)>>
           Is(g) == g = [x \in Nat \X Int |-> (IF x[1] >= b THEN g[<<x[1] \div b, x[2] - 1>>] ELSE Repeat(c, x[2] - 1))
                                             \o <<DigitChar(x[1] % b)>>]
           f == [x \in Nat \X Int |-> Padded(c, x[2], Numeral(x[1], b))]
<1>a. \A n \in Nat, l \in Int : f[<<n, l>>] = Padded(c, l, Numeral(n, b))
  OBVIOUS
<1> HIDE DEF f
<1>0. ASSUME NEW n \in Nat PROVE n % b \in 0 .. 15 /\ DigitChar(n % b) \in STRING
  <2>1. n % b \in 0 .. 15
    OBVIOUS
  <2> QED
    BY <2>1, CharacterIs
<1>1. ASSUME NEW n \in Nat, NEW l \in Int
      PROVE  Padded(c, l, Numeral(n, b)) = Step(f, n, l) /\ Padded(c, l, Numeral(n, b)) \in Seq(STRING)
  <2> DEFINE t == Numeral(n, b)
             e == DigitChar(n % b)
  <2>1. t \in Seq(STRING) /\ Len(t) \in Nat /\ e \in STRING /\ Repeat(c, l - Len(t)) \in Seq(STRING)
    <3>1. t \in Seq(STRING)
      BY NumeralIs
    <3>2. Len(t) \in Nat
      BY <3>1, LenProperties, Zenon
    <3>3. l - Len(t) \in Int
      BY <3>2
    <3> QED
      BY <1>0, <3>1, <3>2, <3>3, RepeatIs, Zenon
  <2>2. Padded(c, l, t) \in Seq(STRING)
    BY <2>1, ConcatProperties, Zenon DEF Padded
  <2>3. CASE n < b
    <3>1. t = <<DigitChar(n)>> /\ Len(t) = 1
      <4>1. n \in 0 .. b - 1
        BY <2>3
      <4> QED
        BY <4>1, NumeralSmall, NumeralIs
    <3>2. n % b = n /\ ~(n >= b)
      BY <2>3
    <3> QED
      BY <2>2, <3>1, <3>2 DEF Padded
  <2>4. CASE n >= b
    <3> DEFINE q == n \div b
               u == Numeral(q, b)
               r == Repeat(c, l - 1 - Len(u))
    <3>1. q \in Nat /\ t = u \o <<e>> /\ Len(t) = Len(u) + 1
      BY <2>4, NumeralStep, NumeralIs
    <3>2. u \in Seq(STRING) /\ Len(u) \in Nat /\ r \in Seq(STRING) /\ <<e>> \in Seq(STRING)
      <4> HIDE DEF q
      <4>1. u \in Seq(STRING)
        BY <3>1, NumeralIs
      <4>2. Len(u) \in Nat
        BY <4>1, LenProperties, Zenon
      <4>3. l - 1 - Len(u) \in Int
        BY <4>2
      <4> QED
        BY <2>1, <4>1, <4>2, <4>3, RepeatIs, Single, Zenon
    <3>3. f[<<q, l - 1>>] = r \o u
      <4> HIDE DEF q
      <4>1. f[<<q, l - 1>>] = Padded(c, l - 1, Numeral(q, b))
        <5>1. l - 1 \in Int
          OBVIOUS
        <5> QED
          BY <3>1, <5>1, <1>a, Zenon
      <4> QED
        BY <4>1 DEF Padded
    <3>4. (r \o u) \o <<e>> = r \o (u \o <<e>>)
      <4> HIDE DEF r, u, e
      <4> QED
        <5>1. \A x \in Seq(STRING), y \in Seq(STRING), z \in Seq(STRING) : (x \o y) \o z = x \o (y \o z)
          BY ConcatAssociative
        <5> QED
          BY <3>2, <5>1, Zenon
    <3>5. l - Len(t) = l - 1 - Len(u)
      BY <3>1, <3>2
    <3>6. Padded(c, l, t) = r \o (u \o <<e>>)
      <4> HIDE DEF u, t, e
      <4> QED
        BY <3>1, <3>5 DEF Padded
    <3> HIDE DEF r, u, t, q
    <3>7. Step(f, n, l) = (r \o u) \o <<e>>
      BY <2>4, <3>3 DEF q
    <3> QED
      BY <2>2, <3>4, <3>6, <3>7 DEF t
  <2>5. n < b \/ n >= b
    OBVIOUS
  <2> QED
    BY <2>3, <2>4, <2>5, Zenon
<1>2. Is(f)
  <2>1. f = [x \in Nat \X Int |-> Padded(c, x[2], Numeral(x[1], b))]
    BY DEF f
  <2>2. ASSUME NEW x \in Nat \X Int
        PROVE  Padded(c, x[2], Numeral(x[1], b)) =
                 (IF x[1] >= b THEN f[<<x[1] \div b, x[2] - 1>>] ELSE Repeat(c, x[2] - 1)) \o <<DigitChar(x[1] % b)>>
    <3>1. x[1] \in Nat /\ x[2] \in Int
      OBVIOUS
    <3> QED
      BY <1>1, <3>1, Zenon
  <2> QED
    BY <2>1, <2>2, Zenon
<1>3. PICK g : Is(g) /\ printnum(v, b, w, c) = g[<<v, w>>]
  BY <1>2, Zenon DEF printnum
<1>4. ASSUME NEW n \in Nat, NEW l \in Int PROVE g[<<n, l>>] = Step(g, n, l)
  <2>1. <<n, l>> \in Nat \X Int /\ <<n, l>>[1] = n /\ <<n, l>>[2] = l
    OBVIOUS
  <2>2. \A x \in Nat \X Int : g[x] = (IF x[1] >= b THEN g[<<x[1] \div b, x[2] - 1>>] ELSE Repeat(c, x[2] - 1))
                                       \o <<DigitChar(x[1] % b)>>
    BY <1>3, Zenon
  <2> QED
    BY <2>1, <2>2, Zenon
<1>5. \A n \in Nat, l \in Int : f[<<n, l>>] = Step(f, n, l) /\ f[<<n, l>>] \in Seq(STRING)
  BY <1>1, <1>a
<1> DEFINE T == {n \in Nat : \E l \in Int : g[<<n, l>>] # f[<<n, l>>]}
<1>6. ASSUME T # {} PROVE FALSE
  <2>1. T \subseteq Nat
    OBVIOUS
  <2>2. PICK n \in T : \A i \in T : n <= i
    BY <1>6, <2>1, Smallest
  <2>3. PICK l \in Int : g[<<n, l>>] # f[<<n, l>>]
    OBVIOUS
  <2>4. CASE n < b
    <3>1. ~(n >= b) /\ n \in Nat
      BY <2>4
    <3> HIDE DEF T
    <3> QED
      BY <1>4, <1>5, <2>3, <3>1
  <2>5. CASE n >= b
    <3>1. n \in Nat /\ n \div b \in Nat /\ n \div b < n /\ l - 1 \in Int
      BY <2>5, NumeralStep
    <3>2. n \div b \notin T
      <4> DEFINE q == n \div b
      <4>1. q < n /\ q \in Nat
        BY <3>1
      <4> HIDE DEF q, T
      <4>2. q \notin T
        BY <2>1, <2>2, <4>1
      <4> QED
        BY <4>2 DEF q
    <3>3. g[<<n \div b, l - 1>>] = f[<<n \div b, l - 1>>]
      BY <3>1, <3>2
    <3> HIDE DEF T
    <3> QED
      BY <1>4, <1>5, <2>3, <2>5, <3>1, <3>3
  <2> QED
    BY <2>4, <2>5
<1>7. g[<<v, w>>] = f[<<v, w>>]
  BY <1>6
<1>8. f[<<v, w>>] = Padded(c, w, Numeral(v, b)) /\ f[<<v, w>>] \in Seq(STRING)
  BY <1>5, <1>a
<1> QED
  BY <1>3, <1>7, <1>8

-----------------------------------------------------------------------------
(* Numbers in a format. *)

\* The digits of decimal numbers, and what they count.
LEMMA DecimalDigit ==
  /\ \A x : IsDigit(x) <=> x \in {"0", "1", "2", "3", "4", "5", "6", "7", "8", "9"}
  /\ \A e \in 0 .. 9 : /\ IsDigit(DigitChar(e)) /\ ValueOf(DigitChar(e)) = e
                       /\ (DigitChar(e) = "0" <=> e = 0)
<1>1. /\ DigitChar(0) = "0" /\ DigitChar(1) = "1" /\ DigitChar(2) = "2" /\ DigitChar(3) = "3"
      /\ DigitChar(4) = "4" /\ DigitChar(5) = "5" /\ DigitChar(6) = "6" /\ DigitChar(7) = "7"
      /\ DigitChar(8) = "8" /\ DigitChar(9) = "9"
  BY DEF DigitChar, DigitChars
<1>2. \A e \in 0 .. 9 : e = 0 \/ e = 1 \/ e = 2 \/ e = 3 \/ e = 4 \/ e = 5 \/ e = 6 \/ e = 7 \/ e = 8 \/ e = 9
  OBVIOUS
<1>3. /\ 0 \in 0 .. 9 /\ 1 \in 0 .. 9 /\ 2 \in 0 .. 9 /\ 3 \in 0 .. 9 /\ 4 \in 0 .. 9
      /\ 5 \in 0 .. 9 /\ 6 \in 0 .. 9 /\ 7 \in 0 .. 9 /\ 8 \in 0 .. 9 /\ 9 \in 0 .. 9
  OBVIOUS
<1>4. ASSUME NEW x PROVE IsDigit(x) <=> x \in {"0", "1", "2", "3", "4", "5", "6", "7", "8", "9"}
  <2>1. ASSUME IsDigit(x) PROVE x \in {"0", "1", "2", "3", "4", "5", "6", "7", "8", "9"}
    BY <1>1, <1>2, <2>1, Zenon DEF IsDigit
  <2>2. ASSUME x \in {"0", "1", "2", "3", "4", "5", "6", "7", "8", "9"} PROVE IsDigit(x)
    BY <1>1, <1>3, <2>2, Zenon DEF IsDigit
  <2> QED
    BY <2>1, <2>2
<1>5. ASSUME NEW i \in 0 .. 9, NEW j \in 0 .. 9, DigitChar(i) = DigitChar(j) PROVE i = j
  BY <1>1, <1>2, <1>5
<1>6. ASSUME NEW e \in 0 .. 9
      PROVE  IsDigit(DigitChar(e)) /\ ValueOf(DigitChar(e)) = e /\ (DigitChar(e) = "0" <=> e = 0)
  <2>1. IsDigit(DigitChar(e))
    BY Zenon DEF IsDigit
  <2>2. PICK i \in 0 .. 9 : i = ValueOf(DigitChar(e)) /\ DigitChar(e) = DigitChar(i)
    BY Zenon DEF ValueOf
  <2>3. i = e
    BY <1>5, <2>2
  <2>4. DigitChar(e) = "0" <=> e = 0
    BY <1>1, <1>3, <1>5, Zenon
  <2> QED
    BY <2>1, <2>2, <2>3, <2>4
<1> QED
  BY <1>4, <1>6

\* What has been read of a decimal number v when i of its digits have been.
ReadOf(v, i) == v \div Power(10, SizeOf(v, 10) - i)

\* Reading the digits of v from the left comes to v.
LEMMA ReadingIs ==
  ASSUME NEW v \in Nat \ {0}
  PROVE  LET n == Len(Numeral(v, 10)) IN
         /\ n \in Nat \ {0} /\ ReadOf(v, n) = v
         /\ \A i \in 1 .. n : IsDigit(Numeral(v, 10)[i]) /\ ReadOf(v, i) \in Nat
         /\ Numeral(v, 10)[1] # "0" /\ ValueOf(Numeral(v, 10)[1]) = ReadOf(v, 1)
         /\ \A i \in 1 .. n - 1 : ReadOf(v, i + 1) = ReadOf(v, i) * 10 + ValueOf(Numeral(v, 10)[i + 1])
<1> DEFINE n == SizeOf(v, 10)
           P(i) == Power(10, i)
           R(i) == v \div P(n - i)
           t == Numeral(v, 10)
<1>1. P(0) = 1 /\ \A i \in Nat : P(i) \in Nat \ {0} /\ P(i + 1) = 10 * P(i)
  <2>1. 10 \in Nat /\ 10 \in Nat \ {0, 1}
    OBVIOUS
  <2>2. Power(10, 0) = 1 /\ \A i \in Nat : Power(10, i + 1) = 10 * Power(10, i)
    BY <2>1, PowerIs
  <2>3. \A i \in Nat : Power(10, i) \in Nat \ {0}
    BY <2>1, PowersGrow
  <2> QED
    BY <2>2, <2>3
<1>2. 10 \in 2 .. 16 /\ v \in Nat
  OBVIOUS
<1>3. Len(t) = n /\ \A i \in 1 .. n : t[i] = DigitChar(R(i) % 10)
  BY <1>2, NumeralIs, Zenon
<1>4. n \in Nat \ {0} /\ v < P(n) /\ (n = 1 \/ v >= P(n - 1))
  <2>1. 10 \in Nat \ {0, 1}
    OBVIOUS
  <2> QED
    BY <1>2, <2>1, SizeIs DEF HasSize
<1> HIDE DEF n, P, t
<1>5. ASSUME NEW i \in 1 .. n PROVE R(i) \in Nat
  <2>1. n - i \in Nat
    BY <1>4
  <2>2. P(n - i) \in Nat \ {0}
    BY <1>1, <2>1
  <2> QED
    BY <1>2, <2>2, Quotient
<1>6. R(n) = v
  <2>1. n - n = 0
    BY <1>4
  <2> QED
    BY <1>1, <2>1
<1>7. R(1) \in 1 .. 9
  <2>1. n - 1 \in Nat /\ n - 1 + 1 = n /\ v >= P(n - 1)
    BY <1>1, <1>4
  <2>2. P(n) = 10 * P(n - 1) /\ P(n - 1) \in Nat \ {0}
    BY <1>1, <2>1
  <2> DEFINE q == R(1)
             m == P(n - 1)
  <2>3. q \in Nat /\ m * q <= v /\ v < m * q + m
    BY <1>2, <2>2, Quotient
  <2>4. v < 10 * m /\ v >= m /\ m \in Nat \ {0}
    BY <1>4, <2>1, <2>2
  <2> HIDE DEF q, m
  <2>5. q # 0
    BY <2>3, <2>4
  <2>6. ASSUME q >= 10 PROVE FALSE
    <3>1. PICK e \in Nat : q = 10 + e
      <4>1. q - 10 \in Nat /\ q = 10 + (q - 10)
        BY <2>3, <2>6
      <4> QED
        BY <4>1
    <3>2. m * q = 10 * m + m * e /\ m * e \in Nat
      BY <2>4, <3>1
    <3> QED
      BY <2>3, <2>4, <3>2
  <2>7. q \in 1 .. 9
    BY <2>3, <2>5, <2>6
  <2> QED
    BY <2>7 DEF q
<1>8. ASSUME NEW i \in 1 .. n - 1 PROVE R(i + 1) = R(i) * 10 + (R(i + 1) % 10)
  <2>1. n - (i + 1) \in Nat /\ n - i = n - (i + 1) + 1 /\ i + 1 \in 1 .. n
    BY <1>4
  <2>2. P(n - i) = 10 * P(n - (i + 1)) /\ P(n - (i + 1)) \in Nat \ {0}
    BY <1>1, <2>1
  <2>3. R(i + 1) \div 10 = R(i)
    BY <1>2, <2>2, Quotients
  <2>4. R(i + 1) \in Nat
    BY <1>5, <2>1
  <2> HIDE DEF R
  <2> QED
    BY <2>3, <2>4
<1>9. ASSUME NEW i \in 1 .. n PROVE IsDigit(t[i]) /\ ValueOf(t[i]) = R(i) % 10 /\ (t[i] = "0" <=> R(i) % 10 = 0)
  <2>1. R(i) \in Nat
    BY <1>5
  <2> HIDE DEF R
  <2>2. R(i) % 10 \in 0 .. 9
    BY <2>1
  <2> QED
    BY <1>3, <2>2, DecimalDigit, Zenon
<1>10. \A i : ReadOf(v, i) = R(i)
  BY DEF ReadOf, n, P
<1> HIDE DEF R
<1>11. 1 \in 1 .. n /\ R(1) % 10 = R(1) /\ R(1) % 10 # 0
  BY <1>4, <1>7
<1>12. \A i \in 1 .. n - 1 : i + 1 \in 1 .. n /\ R(i + 1) = R(i) * 10 + ValueOf(t[i + 1])
  BY <1>4, <1>8, <1>9
<1> QED
  BY <1>3, <1>4, <1>5, <1>6, <1>9, <1>10, <1>11, <1>12 DEF t

\* The pieces of the format, of the arguments, and of what is to be printed, one for
\* each directive with the text before it.
Piece(p) == p.before \o <<"%">> \o Text(p)
Pieces(c) == [k \in DOMAIN c.parts |-> c.parts[k].before \o <<"%">> \o Text(c.parts[k])]
ArgPieces(c) == [k \in DOMAIN c.parts |-> Arguments(c.parts[k])]
OutPieces(c) == [k \in DOMAIN c.parts |-> c.parts[k].before \o Meaning(c.parts[k])]

\* Where the k-th of them end.
Offset(c, k) == Len(Upto(Pieces(c), k))
Taken(c, k) == Len(Upto(ArgPieces(c), k))

\* The text that follows the k-th directive.
Between(c, k) == IF k < Len(c.parts) THEN c.parts[k + 1].before ELSE c.rest

Exact(p) == ~PadsRight(p) /\ ~SignInField(p) /\ ~MinusAndZero(p) /\ ~NoPrecision(p)
AllExact(c) == \A k \in DOMAIN c.parts : Exact(c.parts[k])

\* What has been printed is the first k directives, and then t.
Printed(k, t) == AllExact(printf) => out = Upto(OutPieces(printf), k) \o t

\* In the text b after directive k, i characters from its beginning.
InText(k, b, i) ==
  /\ k \in 0 .. Len(printf.parts) /\ b = Between(printf, k) /\ i \in 0 .. Len(b)
  /\ fmt = Offset(printf, k) + i /\ ap = Taken(printf, k)
  /\ Printed(k, SubSeq(b, 1, i))

\* t characters of directive k + 1, which is p, have been taken.
At(k, p, t) == fmt = Offset(printf, k) + Len(p.before) + 1 + t

\* In the text of a directive that was not recognised.
Unknown(p) == p.conv \notin Conversions \cup {"%"}
InUnknown(k, p, t) ==
  /\ k \in 0 .. Len(printf.parts) - 1 /\ p = printf.parts[k + 1] /\ Unknown(p)
  /\ t \in 0 .. Len(Text(p)) - 1 /\ At(k, p, t)
  /\ ap = Taken(printf, k + 1)
  /\ Printed(k, p.before \o (<<"%">> \o SubSeq(Text(p), 1, t)))

\* The t flags that have been seen.
Seen(p, t, flag) == \E i \in 1 .. t : p.flags[i] = flag
PadChars == {" ", "-", "0"}
Padding(p, t) ==
  /\ padc = " " => ~Seen(p, t, "-") /\ ~Seen(p, t, "0")
  /\ padc # " " => Seen(p, t, padc)
HasFlags(p, t) == Padding(p, t) /\ altflag = Seen(p, t, "#")

\* Where, in a directive, flags, width and precision end, and what width and precision
\* are then.
FlagsEnd(p) == Len(p.flags)
WidthEnd(p) == Len(p.flags) + Len(WidthText(p))
PrecisionEnd(p) == Len(p.flags) + Len(WidthText(p)) + Len(PrecisionText(p))
HasPrecision(p) == p.pstar \/ p.prec >= 0
WidthOf(p) == IF p.wstar \/ p.width > 0 THEN p.width ELSE -1
WidthAtEnd(p) == IF HasPrecision(p) /\ WidthOf(p) = -1 THEN 0 ELSE WidthOf(p)
PrecisionOf(p) == IF p.pstar \/ p.prec > 0 THEN p.prec ELSE -1
WidthStars(p) == IF p.wstar THEN 1 ELSE 0
Stars(p) == WidthStars(p) + IF p.pstar THEN 1 ELSE 0

\* In directive k + 1, which is p: t characters of it taken, the width, the precision and the
\* "l"s that there have been, and how many arguments.
Directive(k, p, t, w, pr, l, stars) ==
  /\ k \in 0 .. Len(printf.parts) - 1 /\ p = printf.parts[k + 1] /\ At(k, p, t)
  /\ padc \in PadChars /\ width = w /\ precision = pr /\ lflag = l /\ ap = Taken(printf, k) + stars
  /\ Printed(k, p.before)

InFlags(k, p, t) ==
  /\ mode = "switch" /\ t \in 0 .. FlagsEnd(p)
  /\ Directive(k, p, t, -1, -1, 0, 0) /\ HasFlags(p, t)
InWidth(k, p, i) ==
  /\ mode = "number" /\ ~p.wstar /\ p.width > 0 /\ i \in 1 .. Len(WidthText(p))
  /\ Directive(k, p, FlagsEnd(p) + i, -1, ReadOf(p.width, i), 0, 0) /\ HasFlags(p, FlagsEnd(p))
AfterWidth(k, p) ==
  /\ mode = "switch"
  /\ Directive(k, p, WidthEnd(p), WidthOf(p), -1, 0, WidthStars(p)) /\ HasFlags(p, FlagsEnd(p))
AfterDot(k, p) ==
  /\ mode = "switch" /\ HasPrecision(p)
  /\ Directive(k, p, WidthEnd(p) + 1, WidthAtEnd(p), -1, 0, WidthStars(p)) /\ HasFlags(p, FlagsEnd(p))
InPrecision(k, p, i) ==
  /\ mode = "number" /\ ~p.pstar /\ p.prec > 0 /\ i \in 1 .. Len(Numeral(p.prec, 10))
  /\ Directive(k, p, WidthEnd(p) + 1 + i, WidthAtEnd(p), ReadOf(p.prec, i), 0, WidthStars(p))
  /\ HasFlags(p, FlagsEnd(p))
InEnding(k, p, i) ==
  /\ mode = "switch" /\ i \in 0 .. p.longs
  /\ Directive(k, p, PrecisionEnd(p) + i, WidthAtEnd(p), PrecisionOf(p), i, Stars(p))
  /\ NoPrecision(p) \/ Padding(p, FlagsEnd(p))
  /\ altflag = Seen(p, FlagsEnd(p), "#")

\* Where the walk is.
TextWalk == \E k : (\E b, i : InText(k, b, i)) \/ (\E p, t : InUnknown(k, p, t))
DirectiveWalk ==
  \E k, p : \/ \E i \in Nat : InFlags(k, p, i) \/ InWidth(k, p, i) \/ InPrecision(k, p, i) \/ InEnding(k, p, i)
            \/ AfterWidth(k, p) \/ AfterDot(k, p)
Walk ==
  /\ printf \in Printfs /\ out \in Seq(STRING)
  /\ mode \in {"start", "text", "switch", "number", "done"}
  /\ mode = "start" => fmt = 0 /\ ap = 0 /\ out = <<>>
  /\ mode = "text" => TextWalk
  /\ mode \in {"switch", "number"} => DirectiveWalk
  /\ mode = "done" => returned = -E_INVAL \/ Printed(Len(printf.parts), printf.rest)
-----------------------------------------------------------------------------
(* Directives. *)

\* A sequence over a set is one over a larger set.
LEMMA Wider ==
  ASSUME NEW S, NEW T, S \subseteq T, NEW t \in Seq(S)
  PROVE  t \in Seq(T)
  OBVIOUS

\* What a directive has.
LEMMA PartIs ==
  ASSUME NEW p \in Part
  PROVE  /\ p.before \in Seq(Plain) /\ p.before \in Seq(STRING)
         /\ p.flags \in Seq({"-", "0", "#"}) /\ p.flags \in Seq(STRING)
         /\ p.width \in Nat /\ p.prec \in Int /\ p.wstar \in BOOLEAN /\ p.pstar \in BOOLEAN
         /\ p.longs \in Nat /\ p.conv \in STRING /\ p.conv \notin Modifiers /\ ~IsDigit(p.conv)
         /\ p.arg.num \in Int /\ p.arg.str \in Seq(STRING)
         /\ ~p.pstar => p.prec >= -1
<1>1. Plain \subseteq STRING /\ {"-", "0", "#"} \subseteq STRING /\ STRING \ {"NUL"} \subseteq STRING
  <2>1. {"-", "0", "#"} \subseteq STRING
    BY CharacterIs, Zenon
  <2> QED
    BY <2>1 DEF Plain
<1>2. /\ p.before \in Seq(Plain) /\ p.flags \in Seq({"-", "0", "#"})
      /\ p.width \in 0 .. INT \div 2 - 1 /\ p.prec \in -(INT \div 2) .. INT \div 2 - 1
      /\ p.wstar \in BOOLEAN /\ p.pstar \in BOOLEAN
      /\ p.longs \in Nat /\ p.conv \in STRING \ Modifiers /\ ~IsDigit(p.conv)
      /\ p.arg.num \in -(LONGLONG \div 2) .. LONGLONG - 1 /\ p.arg.str \in Seq(STRING \ {"NUL"})
      /\ ~p.pstar => p.prec >= -1
  BY DEF Part
<1>3. INT \div 2 \in Int /\ LONGLONG \div 2 \in Int
  BY PrintfmtAssumption
<1>4. p.width \in Nat /\ p.prec \in Int /\ p.arg.num \in Int
  <2> DEFINE h == INT \div 2
             l == LONGLONG \div 2
  <2>1. h \in Int /\ l \in Int /\ LONGLONG \in Int
    BY <1>3, PrintfmtAssumption
  <2>2. p.width \in 0 .. h - 1 /\ p.prec \in -h .. h - 1 /\ p.arg.num \in -l .. LONGLONG - 1
    BY <1>2
  <2> HIDE DEF h, l
  <2> QED
    BY <2>1, <2>2
<1>5. p.before \in Seq(STRING) /\ p.flags \in Seq(STRING) /\ p.arg.str \in Seq(STRING)
  BY <1>1, <1>2, Wider, Zenon
<1> QED
  BY <1>2, <1>4, <1>5, Zenon

\* Two sequences after one another.
LEMMA Two ==
  ASSUME NEW S, NEW a \in Seq(S), NEW b \in Seq(S)
  PROVE  /\ a \o b \in Seq(S) /\ Len(a \o b) = Len(a) + Len(b) /\ Len(a) \in Nat /\ Len(b) \in Nat
         /\ \A i \in 1 .. Len(a) : (a \o b)[i] = a[i]
         /\ \A i \in 1 .. Len(b) : (a \o b)[Len(a) + i] = b[i]
<1>1. /\ a \o b \in Seq(S) /\ Len(a \o b) = Len(a) + Len(b)
      /\ \A i \in 1 .. Len(a) + Len(b) : (a \o b)[i] = IF i <= Len(a) THEN a[i] ELSE b[i - Len(a)]
  BY ConcatProperties
<1>2. Len(a) \in Nat /\ Len(b) \in Nat
  OBVIOUS
<1>3. ASSUME NEW i \in 1 .. Len(b) PROVE (a \o b)[Len(a) + i] = b[i]
  <2>1. Len(a) + i \in 1 .. Len(a) + Len(b) /\ ~(Len(a) + i <= Len(a)) /\ Len(a) + i - Len(a) = i
    BY <1>2
  <2> QED
    BY <1>1, <2>1
<1>4. ASSUME NEW i \in 1 .. Len(a) PROVE (a \o b)[i] = a[i]
  <2>1. i \in 1 .. Len(a) + Len(b) /\ i <= Len(a)
    BY <1>2
  <2> QED
    BY <1>1, <2>1
<1> QED
  BY <1>1, <1>2, <1>3, <1>4

\* The text of the width.
LEMMA WidthTextIs ==
  ASSUME NEW p \in Part
  PROVE  /\ WidthText(p) \in Seq(STRING) /\ Len(WidthText(p)) \in Nat
         /\ p.wstar => Len(WidthText(p)) = 1 /\ WidthText(p)[1] = "*"
         /\ ~p.wstar /\ p.width > 0 => WidthText(p) = Numeral(p.width, 10) /\ Len(WidthText(p)) >= 1
         /\ ~p.wstar /\ p.width = 0 => Len(WidthText(p)) = 0
<1>1. p.width \in Nat /\ p.wstar \in BOOLEAN
  BY PartIs
<1>2. CASE p.wstar
  <2>1. "*" \in STRING
    BY CharacterIs, Zenon
  <2>2. <<"*">> \in Seq(STRING) /\ Len(<<"*">>) = 1 /\ <<"*">>[1] = "*"
    BY <2>1, Single, Zenon
  <2>3. WidthText(p) = <<"*">>
    BY <1>2 DEF WidthText
  <2> QED
    BY <1>2, <2>2, <2>3, Zenon
<1>3. CASE ~p.wstar /\ p.width > 0
  <2>1. WidthText(p) = Numeral(p.width, 10) /\ p.width \in Nat \ {0}
    BY <1>1, <1>3 DEF WidthText
  <2>2. 10 \in 2 .. 16
    OBVIOUS
  <2>3. Numeral(p.width, 10) \in Seq(STRING)
    BY <1>1, <2>2, NumeralIs, Zenon
  <2>4. Len(Numeral(p.width, 10)) \in Nat \ {0}
    BY <2>1, ReadingIs
  <2> QED
    BY <1>3, <2>1, <2>3, <2>4
<1>4. CASE ~p.wstar /\ p.width = 0
  <2>1. WidthText(p) = <<>>
    BY <1>4 DEF WidthText
  <2> QED
    BY <1>4, <2>1, EmptySeq
<1> QED
  BY <1>1, <1>2, <1>3, <1>4

\* The same of strings.
LEMMA TwoStrings ==
  \A a \in Seq(STRING), b \in Seq(STRING) :
     /\ a \o b \in Seq(STRING) /\ Len(a \o b) = Len(a) + Len(b) /\ Len(a) \in Nat /\ Len(b) \in Nat
     /\ \A i \in 1 .. Len(a) : (a \o b)[i] = a[i]
     /\ \A i \in 1 .. Len(b) : (a \o b)[Len(a) + i] = b[i]
<1> DEFINE A == STRING
<1> HIDE DEF A
<1>1. \A a \in Seq(A), b \in Seq(A) :
        /\ a \o b \in Seq(A) /\ Len(a \o b) = Len(a) + Len(b) /\ Len(a) \in Nat /\ Len(b) \in Nat
        /\ \A i \in 1 .. Len(a) : (a \o b)[i] = a[i]
        /\ \A i \in 1 .. Len(b) : (a \o b)[Len(a) + i] = b[i]
  BY Two
<1> QED
  BY <1>1, Zenon DEF A

\* The text of the precision.
LEMMA PrecisionTextIs ==
  ASSUME NEW p \in Part
  PROVE  /\ PrecisionText(p) \in Seq(STRING) /\ Len(PrecisionText(p)) \in Nat
         /\ HasPrecision(p) => Len(PrecisionText(p)) >= 2 /\ PrecisionText(p)[1] = "."
         /\ ~HasPrecision(p) => Len(PrecisionText(p)) = 0
         /\ p.pstar => Len(PrecisionText(p)) = 2 /\ PrecisionText(p)[2] = "*"
         /\ ~p.pstar /\ p.prec >= 0 =>
              /\ Len(PrecisionText(p)) = 1 + Len(Numeral(p.prec, 10))
              /\ \A i \in 1 .. Len(Numeral(p.prec, 10)) : PrecisionText(p)[1 + i] = Numeral(p.prec, 10)[i]
         /\ p.prec = 0 => Len(Numeral(p.prec, 10)) = 1 /\ Numeral(p.prec, 10)[1] = "0"
<1>1. p.prec \in Int /\ p.pstar \in BOOLEAN /\ (~p.pstar => p.prec >= -1)
  BY PartIs
<1>2. "." \in STRING /\ "*" \in STRING
  BY CharacterIs, Zenon
<1>3. <<".">> \in Seq(STRING) /\ Len(<<".">>) = 1 /\ <<".">>[1] = "."
  BY <1>2, Single, Zenon
<1>4. ASSUME p.prec >= 0 PROVE Numeral(p.prec, 10) \in Seq(STRING) /\ Len(Numeral(p.prec, 10)) \in Nat \ {0}
  <2>1. 10 \in 2 .. 16 /\ 10 \in Nat \ {0, 1} /\ p.prec \in Nat
    BY <1>1, <1>4
  <2>2. Numeral(p.prec, 10) \in Seq(STRING) /\ Len(Numeral(p.prec, 10)) = SizeOf(p.prec, 10)
    BY <2>1, NumeralIs, Zenon
  <2>3. SizeOf(p.prec, 10) \in Nat \ {0}
    BY <2>1, SizeIs
  <2> QED
    BY <2>2, <2>3
<1>5. ASSUME p.prec = 0 PROVE Len(Numeral(p.prec, 10)) = 1 /\ Numeral(p.prec, 10)[1] = "0"
  <2>1. 10 \in 2 .. 16 /\ 0 \in 0 .. 10 - 1
    OBVIOUS
  <2>2. Numeral(0, 10) = <<DigitChar(0)>>
    BY <2>1, NumeralSmall
  <2>3. DigitChar(0) = "0"
    BY DEF DigitChar, DigitChars
  <2>4. <<"0">>[1] = "0" /\ Len(<<"0">>) = 1
    OBVIOUS
  <2> QED
    BY <1>5, <2>2, <2>3, <2>4
<1>6. CASE p.pstar
  <2>1. PrecisionText(p) = <<".", "*">> /\ HasPrecision(p)
    BY <1>6 DEF PrecisionText, HasPrecision
  <2> DEFINE t == <<".", "*">>
  <2>2. t \in Seq(STRING) /\ Len(t) = 2 /\ t[1] = "." /\ t[2] = "*"
    BY <1>2
  <2> HIDE DEF t
  <2> QED
    BY <1>5, <1>6, <2>1, <2>2 DEF t
<1>7. CASE ~p.pstar /\ p.prec >= 0
  <2>1. PrecisionText(p) = <<".">> \o Numeral(p.prec, 10) /\ HasPrecision(p)
    BY <1>7 DEF PrecisionText, HasPrecision
  <2> DEFINE a == <<".">>
             b == Numeral(p.prec, 10)
             t == a \o b
  <2>2. a \in Seq(STRING) /\ Len(a) = 1 /\ a[1] = "." /\ b \in Seq(STRING) /\ Len(b) \in Nat \ {0}
    BY <1>3, <1>4, <1>7
  <2> HIDE DEF a, b
  <2>3. /\ t \in Seq(STRING) /\ Len(t) = Len(a) + Len(b)
        /\ \A i \in 1 .. Len(a) : t[i] = a[i]
        /\ \A i \in 1 .. Len(b) : t[Len(a) + i] = b[i]
    BY <2>2, TwoStrings, Zenon
  <2>4. 1 \in 1 .. Len(a)
    BY <2>2
  <2> HIDE DEF t
  <2>5. Len(t) = 1 + Len(b) /\ Len(t) >= 2 /\ t[1] = "." /\ Len(t) \in Nat
    BY <2>2, <2>3, <2>4
  <2>6. \A i \in 1 .. Len(b) : t[1 + i] = b[i]
    BY <2>2, <2>3, <2>4
  <2>7. PrecisionText(p) = t
    BY <2>1 DEF t, a, b
  <2> QED
    BY <1>5, <1>7, <2>1, <2>3, <2>5, <2>6, <2>7 DEF b
<1>8. CASE ~p.pstar /\ ~(p.prec >= 0)
  <2>1. PrecisionText(p) = <<>> /\ ~HasPrecision(p)
    BY <1>8 DEF PrecisionText, HasPrecision
  <2> QED
    BY <1>5, <1>8, <2>1, EmptySeq
<1> QED
  BY <1>1, <1>6, <1>7, <1>8

\* The text after the precision.
LEMMA EndingIs ==
  ASSUME NEW p \in Part
  PROVE  /\ Ending(p) \in Seq(STRING)
         /\ Len(Ending(p)) = p.longs + (IF p.conv = "NUL" THEN 0 ELSE 1)
         /\ \A i \in 1 .. p.longs : Ending(p)[i] = "l"
         /\ p.conv # "NUL" => Ending(p)[p.longs + 1] = p.conv
<1> DEFINE a == [k \in 1 .. p.longs |-> "l"]
<1>1. p.longs \in Nat /\ p.conv \in STRING
  BY PartIs
<1>2. a \in Seq(STRING) /\ Len(a) = p.longs /\ \A i \in 1 .. p.longs : a[i] = "l"
  <2>1. "l" \in STRING
    BY CharacterIs, Zenon
  <2> QED
    BY <1>1, <2>1
<1>3. Ending(p) = a \o (IF p.conv = "NUL" THEN <<>> ELSE <<p.conv>>)
  BY DEF Ending
<1> HIDE DEF a
<1>4. CASE p.conv = "NUL"
  <2>1. Ending(p) = a \o <<>>
    BY <1>3, <1>4
  <2>2. a \o <<>> = a
    BY <1>2, ConcatEmptySeq
  <2> QED
    BY <1>1, <1>2, <1>4, <2>1, <2>2
<1>5. CASE p.conv # "NUL"
  <2>1. Ending(p) = a \o <<p.conv>>
    BY <1>3, <1>5
  <2>2. /\ a \o <<p.conv>> \in Seq(STRING) /\ Len(a \o <<p.conv>>) = Len(a) + 1
        /\ \A i \in 1 .. Len(a) : (a \o <<p.conv>>)[i] = a[i]
        /\ (a \o <<p.conv>>)[Len(a) + 1] = p.conv
    BY <1>1, <1>2, OneMore, Zenon
  <2> QED
    BY <1>1, <1>2, <1>5, <2>1, <2>2
<1> QED
  BY <1>4, <1>5

\* The text of a directive, character by character: flags, width, precision, "l"s and conversion.
LEMMA TextIs ==
  ASSUME NEW p \in Part
  PROVE  /\ Text(p) \in Seq(STRING)
         /\ FlagsEnd(p) \in Nat /\ WidthEnd(p) = FlagsEnd(p) + Len(WidthText(p)) /\ WidthEnd(p) \in Nat
         /\ PrecisionEnd(p) = WidthEnd(p) + Len(PrecisionText(p)) /\ PrecisionEnd(p) \in Nat
         /\ Len(Text(p)) = PrecisionEnd(p) + p.longs + (IF p.conv = "NUL" THEN 0 ELSE 1)
         /\ \A i \in 1 .. FlagsEnd(p) : Text(p)[i] = p.flags[i]
         /\ \A i \in 1 .. Len(WidthText(p)) : Text(p)[FlagsEnd(p) + i] = WidthText(p)[i]
         /\ \A i \in 1 .. Len(PrecisionText(p)) : Text(p)[WidthEnd(p) + i] = PrecisionText(p)[i]
         /\ \A i \in 1 .. p.longs : Text(p)[PrecisionEnd(p) + i] = "l"
         /\ p.conv # "NUL" => Text(p)[PrecisionEnd(p) + p.longs + 1] = p.conv
<1> DEFINE a == p.flags
           b == WidthText(p)
           c == PrecisionText(p)
           e == Ending(p)
           ab == a \o b
           abc == ab \o c
           t == abc \o e
<1>1. a \in Seq(STRING) /\ b \in Seq(STRING) /\ c \in Seq(STRING) /\ e \in Seq(STRING)
  BY PartIs, WidthTextIs, PrecisionTextIs, EndingIs, Zenon
<1>2. /\ Len(e) = p.longs + (IF p.conv = "NUL" THEN 0 ELSE 1)
      /\ \A i \in 1 .. p.longs : e[i] = "l"
      /\ p.conv # "NUL" => e[p.longs + 1] = p.conv
      /\ p.longs \in Nat
  BY EndingIs, PartIs
<1>3. Text(p) = t
  BY DEF Text
<1>4. /\ FlagsEnd(p) = Len(a) /\ WidthEnd(p) = Len(a) + Len(b) /\ PrecisionEnd(p) = Len(a) + Len(b) + Len(c)
      /\ Len(b) = Len(WidthText(p)) /\ Len(c) = Len(PrecisionText(p))
  BY DEF FlagsEnd, WidthEnd, PrecisionEnd
<1> HIDE DEF a, b, c, e
<1>5. /\ ab \in Seq(STRING) /\ Len(ab) = Len(a) + Len(b) /\ Len(a) \in Nat /\ Len(b) \in Nat
      /\ \A i \in 1 .. Len(a) : ab[i] = a[i]
      /\ \A i \in 1 .. Len(b) : ab[Len(a) + i] = b[i]
  BY <1>1, TwoStrings, Zenon
<1> HIDE DEF ab
<1>6. /\ abc \in Seq(STRING) /\ Len(abc) = Len(ab) + Len(c) /\ Len(c) \in Nat
      /\ \A i \in 1 .. Len(ab) : abc[i] = ab[i]
      /\ \A i \in 1 .. Len(c) : abc[Len(ab) + i] = c[i]
  BY <1>1, <1>5, TwoStrings, Zenon
<1> HIDE DEF abc
<1>7. /\ t \in Seq(STRING) /\ Len(t) = Len(abc) + Len(e) /\ Len(e) \in Nat
      /\ \A i \in 1 .. Len(abc) : t[i] = abc[i]
      /\ \A i \in 1 .. Len(e) : t[Len(abc) + i] = e[i]
  BY <1>1, <1>6, TwoStrings, Zenon
<1> HIDE DEF t
<1>8. \A i \in 1 .. Len(a) : t[i] = a[i]
  BY <1>5, <1>6, <1>7
<1>9. \A i \in 1 .. Len(b) : t[Len(a) + i] = b[i]
  <2>1. \A i \in 1 .. Len(b) : Len(a) + i \in 1 .. Len(ab) /\ Len(a) + i \in 1 .. Len(abc)
    BY <1>5, <1>6
  <2> QED
    BY <1>5, <1>6, <1>7, <2>1
<1>10. \A i \in 1 .. Len(c) : t[Len(a) + Len(b) + i] = c[i]
  BY <1>5, <1>6, <1>7
<1>11. \A i \in 1 .. p.longs : t[Len(a) + Len(b) + Len(c) + i] = "l"
  <2>1. \A i \in 1 .. p.longs : i \in 1 .. Len(e)
    BY <1>2
  <2> QED
    BY <1>2, <1>5, <1>6, <1>7, <2>1
<1>12. p.conv # "NUL" => t[Len(a) + Len(b) + Len(c) + p.longs + 1] = p.conv
  <2>1. SUFFICES ASSUME p.conv # "NUL" PROVE t[Len(a) + Len(b) + Len(c) + p.longs + 1] = p.conv
    OBVIOUS
  <2>2. p.longs + 1 \in 1 .. Len(e) /\ Len(a) + Len(b) + Len(c) + p.longs + 1 = Len(abc) + (p.longs + 1)
    BY <1>2, <1>5, <1>6, <2>1
  <2> QED
    BY <1>2, <1>7, <2>1, <2>2
<1>13. /\ t \in Seq(STRING) /\ Len(a) \in Nat /\ Len(a) + Len(b) \in Nat /\ Len(a) + Len(b) + Len(c) \in Nat
       /\ Len(t) = Len(a) + Len(b) + Len(c) + p.longs + (IF p.conv = "NUL" THEN 0 ELSE 1)
  BY <1>2, <1>5, <1>6, <1>7
<1> QED
  BY <1>3, <1>4, <1>8, <1>9, <1>10, <1>11, <1>12, <1>13, Zenon DEF a, b, c

-----------------------------------------------------------------------------
(* Conversions. *)

\* Nothing before or after a text.
LEMMA NoText ==
  /\ <<>> \in Seq(STRING) /\ Len(<<>>) = 0
  /\ \A t \in Seq(STRING) : <<>> \o t = t /\ t \o <<>> = t
<1>1. <<>> \in Seq(STRING) /\ Len(<<>>) = 0
  BY EmptySeq
<1>2. \A t \in Seq(STRING) : <<>> \o t = t /\ t \o <<>> = t
  BY ConcatEmptySeq
<1> QED
  BY <1>1, <1>2

\* What repeats characters of a format.
LEMMA RepeatedText ==
  \A c \in STRING, n \in Int : Repeat(c, n) \in Seq(STRING) /\ (n <= 0 => Repeat(c, n) = <<>>)
<1> DEFINE A == STRING
<1> HIDE DEF A
<1>1. \A c \in A, n \in Int : Repeat(c, n) \in Seq(A) /\ (n <= 0 => Repeat(c, n) = <<>>)
  BY RepeatIs
<1> QED
  BY <1>1, Zenon DEF A

\* A field is a text.
LEMMA FieldIs ==
  ASSUME NEW p \in Part, NEW sign \in Seq(STRING), NEW t \in Seq(STRING)
  PROVE  Field(p, sign, t) \in Seq(STRING)
<1> DEFINE n == p.width - Len(sign) - Len(t)
<1>1. n \in Int
  BY PartIs
<1>2. " " \in STRING /\ "0" \in STRING
  BY CharacterIs, Zenon
<1> HIDE DEF n
<1>3. Repeat(" ", n) \in Seq(STRING) /\ Repeat("0", n) \in Seq(STRING)
  BY <1>1, <1>2, RepeatedText, Zenon
<1>4. /\ sign \o t \o Repeat(" ", n) \in Seq(STRING)
      /\ sign \o Repeat("0", n) \o t \in Seq(STRING)
      /\ Repeat(" ", n) \o sign \o t \in Seq(STRING)
  BY <1>3, TwoStrings, Zenon
<1>5. Field(p, sign, t) = IF Has(p, "-") THEN sign \o t \o Repeat(" ", n)
                          ELSE IF Has(p, "0") THEN sign \o Repeat("0", n) \o t
                          ELSE Repeat(" ", n) \o sign \o t
  BY Zenon DEF Field, n
<1> QED
  BY <1>4, <1>5, Zenon

\* What is padded to the width of a directive.
LEMMA WidthPads ==
  ASSUME NEW p \in Part
  PROVE  /\ WidthAtEnd(p) \in Int
         /\ \A n \in Nat, c \in STRING : Repeat(c, WidthAtEnd(p) - n) = Repeat(c, p.width - n)
<1>1. p.width \in Nat
  BY PartIs
<1>2. WidthAtEnd(p) = p.width \/ (WidthAtEnd(p) = -1 /\ p.width = 0)
  BY <1>1 DEF WidthAtEnd, WidthOf
<1>3. ASSUME NEW n \in Nat, NEW c \in STRING, WidthAtEnd(p) # p.width
      PROVE  Repeat(c, WidthAtEnd(p) - n) = Repeat(c, p.width - n)
  <2>1. /\ WidthAtEnd(p) - n \in Int /\ p.width - n \in Int
        /\ WidthAtEnd(p) - n <= 0 /\ p.width - n <= 0
    BY <1>1, <1>2, <1>3
  <2> QED
    BY <2>1, RepeatedText, Zenon
<1> QED
  BY <1>1, <1>2, <1>3

\* The padding character that the flags of a directive stand for.
LEMMA PaddingIs ==
  ASSUME NEW p \in Part, ~MinusAndZero(p), padc \in PadChars, Padding(p, FlagsEnd(p))
  PROVE  /\ Has(p, "-") <=> padc = "-"
         /\ Has(p, "0") <=> padc = "0"
<1>1. DOMAIN p.flags = 1 .. FlagsEnd(p)
  BY PartIs DEF FlagsEnd
<1>2. \A x : Seen(p, FlagsEnd(p), x) <=> Has(p, x)
  BY <1>1, Zenon DEF Seen, Has
<1> QED
  BY <1>2 DEF Padding, PadChars, MinusAndZero

\* A number without sign, printed to the width of a directive.
LEMMA PlainNumber ==
  ASSUME NEW p \in Part, padc \in PadChars, width = WidthAtEnd(p), NEW v \in Nat, NEW b \in 2 .. 16
  PROVE  /\ printnum(v, b, width, padc) \in Seq(STRING) /\ Numeral(v, b) \in Seq(STRING)
         /\ ~MinusAndZero(p) /\ Padding(p, FlagsEnd(p)) /\ (p.width <= Len(Numeral(v, b)) \/ ~Has(p, "-"))
            => printnum(v, b, width, padc) = Field(p, <<>>, Numeral(v, b))
         /\ \A sign \in Seq(STRING) :
              p.width <= Len(Numeral(v, b)) => sign \o printnum(v, b, width, padc) = Field(p, sign, Numeral(v, b))
<1> DEFINE t == Numeral(v, b)
           n == Len(t)
<1>1. padc \in STRING /\ " " \in STRING /\ "0" \in STRING
  BY CharacterIs DEF PadChars
<1>2. width \in Int /\ p.width \in Nat
  BY WidthPads, PartIs
<1>3. printnum(v, b, width, padc) = Padded(padc, width, t) /\ printnum(v, b, width, padc) \in Seq(STRING)
  BY <1>1, <1>2, printnumIs
<1>4. t \in Seq(STRING) /\ n \in Nat
  <2>1. t \in Seq(STRING)
    BY NumeralIs
  <2> QED
    BY <2>1, LenProperties, Zenon
<1> HIDE DEF t
<1>5. Padded(padc, width, t) = Repeat(padc, p.width - n) \o t
  BY <1>1, <1>4, WidthPads DEF Padded
<1>6. p.width - n \in Int /\ p.width - Len(<<>>) - n = p.width - n
  BY <1>2, <1>4, NoText
<1>7. \A c \in STRING : Repeat(c, p.width - n) \in Seq(STRING) /\ (p.width <= n => Repeat(c, p.width - n) = <<>>)
  <2>1. p.width <= n => p.width - n <= 0
    BY <1>2, <1>4
  <2> QED
    BY <1>6, <2>1, RepeatedText, Zenon
<1>8. ASSUME ~MinusAndZero(p), Padding(p, FlagsEnd(p)), p.width <= n \/ ~Has(p, "-")
      PROVE  printnum(v, b, width, padc) = Field(p, <<>>, t)
  <2>1. (Has(p, "-") <=> padc = "-") /\ (Has(p, "0") <=> padc = "0")
    BY <1>8, PaddingIs
  <2>2. /\ <<>> \o t = t /\ t \o <<>> = t
        /\ \A c \in STRING : <<>> \o Repeat(c, p.width - n) = Repeat(c, p.width - n)
                             /\ Repeat(c, p.width - n) \o <<>> = Repeat(c, p.width - n)
    BY <1>4, <1>7, NoText, Zenon
  <2>3. Field(p, <<>>, t) = IF Has(p, "-") THEN <<>> \o t \o Repeat(" ", p.width - n)
                            ELSE IF Has(p, "0") THEN <<>> \o Repeat("0", p.width - n) \o t
                            ELSE Repeat(" ", p.width - n) \o <<>> \o t
    BY <1>6, Zenon DEF Field
  <2>4. CASE Has(p, "-")
    <3>1. Repeat(padc, p.width - n) = <<>> /\ Repeat(" ", p.width - n) = <<>>
      BY <1>1, <1>7, <1>8, <2>4, Zenon
    <3>2. Field(p, <<>>, t) = t
      BY <2>2, <2>3, <2>4, <3>1, Zenon
    <3> QED
      BY <1>3, <1>5, <2>2, <3>1, <3>2, Zenon
  <2>5. CASE ~Has(p, "-") /\ Has(p, "0")
    <3>1. padc = "0"
      BY <2>1, <2>5
    <3>2. Field(p, <<>>, t) = Repeat("0", p.width - n) \o t
      BY <1>1, <2>2, <2>3, <2>5, Zenon
    <3> QED
      BY <1>3, <1>5, <3>1, <3>2, Zenon
  <2>6. CASE ~Has(p, "-") /\ ~Has(p, "0")
    <3>1. padc = " "
      BY <2>1, <2>6 DEF PadChars
    <3>2. Field(p, <<>>, t) = Repeat(" ", p.width - n) \o t
      BY <1>1, <2>2, <2>3, <2>6, Zenon
    <3> QED
      BY <1>3, <1>5, <3>1, <3>2, Zenon
  <2> QED
    BY <2>4, <2>5, <2>6, Zenon
<1>9. ASSUME NEW sign \in Seq(STRING), p.width <= n
      PROVE  sign \o printnum(v, b, width, padc) = Field(p, sign, t)
  <2> DEFINE m == p.width - Len(sign) - n
  <2>1. m \in Int /\ m <= 0
    <3>1. Len(sign) \in Nat
      BY LenProperties, Zenon
    <3> QED
      BY <1>2, <1>4, <1>9, <3>1
  <2>2. Field(p, sign, t) = IF Has(p, "-") THEN sign \o t \o Repeat(" ", m)
                            ELSE IF Has(p, "0") THEN sign \o Repeat("0", m) \o t
                            ELSE Repeat(" ", m) \o sign \o t
    BY Zenon DEF Field
  <2> HIDE DEF m
  <2>3. Repeat(" ", m) = <<>> /\ Repeat("0", m) = <<>>
    BY <1>1, <2>1, RepeatedText, Zenon
  <2>4. sign \o t \in Seq(STRING)
    BY <1>4, TwoStrings, Zenon
  <2>5. sign \o t \o <<>> = sign \o t /\ sign \o <<>> \o t = sign \o t /\ <<>> \o sign \o t = sign \o t
    BY <1>4, <2>4, NoText, Zenon
  <2>6. printnum(v, b, width, padc) = t
    <3>1. Repeat(padc, p.width - n) = <<>>
      BY <1>1, <1>7, <1>9, Zenon
    <3> QED
      BY <1>3, <1>4, <1>5, <3>1, NoText, Zenon
  <2>7. Field(p, sign, t) = sign \o t
    BY <2>2, <2>3, <2>5, Zenon
  <2> QED
    BY <2>6, <2>7, Zenon
<1> QED
  BY <1>3, <1>4, <1>8, <1>9, Zenon DEF t

\* Numbers are printed as they are meant to be.
LEMMA NumberConverted ==
  ASSUME NEW p \in Part, Numeric(p), padc \in PadChars, width = WidthAtEnd(p), lflag = p.longs, ch = p.conv
  PROVE  /\ NumberText(p.arg.num) \in Seq(STRING)
         /\ Exact(p) /\ Padding(p, FlagsEnd(p)) => NumberText(p.arg.num) = Meaning(p)
<1> DEFINE num == p.arg.num
           v == IF p.conv = "d" THEN Magnitude(num) ELSE num % ModulusOf(p)
           b == Base(p)
           sign == SignOf(p)
           printed == printnum(v, b, width, padc)
<1>1. num \in Int /\ p.width \in Nat /\ INT \in Nat \ {0} /\ LONGLONG \in Nat \ {0}
  BY PartIs, PrintfmtAssumption
<1>2. v \in Nat /\ b \in 2 .. 16
  <2>1. ModulusOf(p) \in Nat \ {0}
    BY <1>1 DEF ModulusOf
  <2>2. num % ModulusOf(p) \in Nat
    <3> DEFINE m == ModulusOf(p)
    <3> HIDE DEF num, m
    <3>1. m \in Nat \ {0}
      BY <2>1 DEF m
    <3>2. num % m \in Nat
      BY <1>1, <3>1
    <3> QED
      BY <3>2 DEF m
  <2>3. Magnitude(num) \in Nat
    BY <1>1 DEF Magnitude
  <2>4. b \in 2 .. 16
    BY DEF Base
  <2> QED
    BY <2>2, <2>3, <2>4
<1>3. sign \in Seq(STRING)
  <2>1. "0" \in STRING /\ "x" \in STRING /\ "-" \in STRING
    BY CharacterIs, Zenon
  <2>2. <<"-">> \in Seq(STRING) /\ <<>> \in Seq(STRING)
    BY <2>1, Single, NoText, Zenon
  <2>3. <<"0", "x">> \in Seq(STRING)
    BY <2>1
  <2> QED
    BY <2>2, <2>3 DEF SignOf, Signed
<1>4. Meaning(p) = Field(p, sign, Numeral(v, b))
  <2>1. p.conv \notin {"s", "c", "%", "e"}
    BY DEF Numeric
  <2>2. Meaning(p) = Field(p, SignOf(p), Absolute(p))
    BY <2>1 DEF Meaning
  <2> QED
    BY <2>2, Zenon DEF Absolute
<1>5. printed \in Seq(STRING) /\ Numeral(v, b) \in Seq(STRING)
  BY <1>2, PlainNumber, Zenon
<1>7. NumberText(num) = sign \o printed
  <2>1. <<>> \o printed = printed
    BY <1>5, NoText, Zenon
  <2>2. CASE p.conv = "d"
    <3>1. v = Magnitude(num) /\ b = 10 /\ sign = Signed(num)
      BY <2>2 DEF Base, SignOf
    <3>2. NumberText(num) = Signed(num) \o printnum(Magnitude(num), 10, width, padc)
      BY <2>2 DEF NumberText
    <3> QED
      BY <3>1, <3>2, Zenon
  <2>3. CASE p.conv = "p"
    <3>1. v = num % INT /\ b = 16 /\ sign = <<"0", "x">>
      BY <2>3 DEF Base, SignOf, ModulusOf
    <3>2. NumberText(num) = <<"0", "x">> \o printnum(num % INT, 16, width, padc)
      BY <2>3 DEF NumberText
    <3> QED
      BY <3>1, <3>2, Zenon
  <2>4. CASE p.conv \in {"u", "o", "x"}
    <3>1. v = getuint(num) /\ sign = <<>>
      BY <2>4 DEF SignOf, ModulusOf, getuint, Modulus
    <3>2. NumberText(num) = printnum(getuint(num), b, width, padc)
      BY <2>4 DEF NumberText, Base
    <3> QED
      BY <2>1, <3>1, <3>2, Zenon
  <2> QED
    BY <2>2, <2>3, <2>4 DEF Numeric
<1> HIDE DEF printed, v, b, sign, num
<1>8. ASSUME Exact(p), Padding(p, FlagsEnd(p)) PROVE sign \o printed = Field(p, sign, Numeral(v, b))
  <2> DEFINE n == Len(Numeral(v, b))
  <2>0. Absolute(p) = Numeral(v, b)
    BY Zenon DEF Absolute, v, b, num
  <2>1. ~(Has(p, "-") /\ p.width > n) /\ (sign # <<>> => ~(p.width > n)) /\ ~MinusAndZero(p)
    BY <1>8, <2>0, Zenon DEF Exact, PadsRight, SignInField, sign
  <2>2. n \in Nat
    BY <1>5, LenProperties, Zenon
  <2>3. CASE p.width <= n
    BY <1>2, <1>3, <2>3, PlainNumber, Zenon DEF printed
  <2>4. CASE ~(p.width <= n)
    <3>1. sign = <<>> /\ ~Has(p, "-")
      BY <1>1, <2>1, <2>2, <2>4
    <3>2. printed = Field(p, <<>>, Numeral(v, b))
      BY <1>2, <1>8, <2>1, <3>1, PlainNumber, Zenon DEF printed
    <3>3. <<>> \o printed = printed
      BY <1>5, NoText, Zenon
    <3> QED
      BY <3>1, <3>2, <3>3, Zenon
  <2> QED
    BY <2>3, <2>4
<1>9. sign \o printed \in Seq(STRING)
  BY <1>3, <1>5, TwoStrings, Zenon
<1> QED
  BY <1>4, <1>7, <1>8, <1>9, Zenon DEF num

\* The first characters of a text.
LEMMA FirstOf ==
  \A t \in Seq(STRING) : \A n \in 0 .. Len(t) :
     SubSeq(t, 1, n) \in Seq(STRING) /\ Len(SubSeq(t, 1, n)) = n /\ \A i \in 1 .. n : SubSeq(t, 1, n)[i] = t[i]
<1> DEFINE A == STRING
<1> HIDE DEF A
<1>1. \A t \in Seq(A) : \A n \in 0 .. Len(t) :
        SubSeq(t, 1, n) \in Seq(A) /\ Len(SubSeq(t, 1, n)) = n /\ \A i \in 1 .. n : SubSeq(t, 1, n)[i] = t[i]
  BY SubSeqProperties
<1> QED
  BY <1>1, Zenon DEF A

\* A text has the same length when some of its characters are shown as others.
LEMMA ShownIs ==
  ASSUME NEW t \in Seq(STRING), NEW seen \in BOOLEAN
  PROVE  LET u == [k \in DOMAIN t |-> IF seen /\ t[k] \in {"CTRL", "HIGH"} THEN "?" ELSE t[k]] IN
         u \in Seq(STRING) /\ Len(u) = Len(t)
<1> DEFINE A == STRING
           at(k) == IF seen /\ t[k] \in {"CTRL", "HIGH"} THEN "?" ELSE t[k]
           n == Len(t)
<1>1. "?" \in A
  BY CharacterIs, Zenon
<1>2. t \in Seq(A)
  OBVIOUS
<1> HIDE DEF A
<1>3. n \in Nat /\ DOMAIN t = 1 .. n /\ \A k \in 1 .. n : t[k] \in A
  BY <1>2
<1>4. \A k \in 1 .. n : at(k) \in A
  BY <1>1, <1>3
<1> HIDE DEF at, n
<1>5. [k \in 1 .. n |-> at(k)] \in Seq(A) /\ Len([k \in 1 .. n |-> at(k)]) = n
  BY <1>3, <1>4
<1>6. [k \in DOMAIN t |-> at(k)] = [k \in 1 .. n |-> at(k)]
  BY <1>3
<1>7. [k \in DOMAIN t |-> at(k)] \in Seq(A) /\ Len([k \in DOMAIN t |-> at(k)]) = n
  BY <1>5, <1>6
<1> QED
  BY <1>7, Zenon DEF A, at, n

\* Strings are printed as they are meant to be.
LEMMA StringConverted ==
  ASSUME NEW p \in Part, p.conv = "s", padc \in PadChars, width = WidthAtEnd(p), precision = PrecisionOf(p),
         altflag = Seen(p, FlagsEnd(p), "#")
  PROVE  /\ String(p.arg.str) \in Seq(STRING)
         /\ Exact(p) /\ Padding(p, FlagsEnd(p)) => String(p.arg.str) = StringMeaning(p)
<1> DEFINE null == <<"(", "n", "u", "l", "l", ")">>
           s1 == IF p.arg.str = NULL THEN null ELSE p.arg.str
           n == IF precision >= 0 /\ precision < Len(s1) THEN precision ELSE Len(s1)
           kept == SubSeq(s1, 1, n)
           meant == IF p.prec >= 0 /\ p.prec < Len(s1) THEN SubSeq(s1, 1, p.prec) ELSE s1
           Show(t) == [k \in DOMAIN t |-> IF Has(p, "#") /\ t[k] \in {"CTRL", "HIGH"} THEN "?" ELSE t[k]]
           right == IF padc = "-" THEN <<>> ELSE Repeat(padc, width - n)
           left1 == IF padc = "-" THEN Repeat(" ", width - n) ELSE <<>>
<1>1. /\ p.arg.str \in Seq(STRING) /\ p.prec \in Int /\ p.width \in Nat /\ p.pstar \in BOOLEAN
      /\ ~p.pstar => p.prec >= -1
  BY PartIs
<1>2. s1 \in Seq(STRING) /\ Len(s1) \in Nat
  <2>1. "(" \in STRING /\ "n" \in STRING /\ "u" \in STRING /\ "l" \in STRING /\ ")" \in STRING
    BY CharacterIs, Zenon
  <2> DEFINE A == STRING
  <2> HIDE DEF A
  <2>2. "(" \in A /\ "n" \in A /\ "u" \in A /\ "l" \in A /\ ")" \in A
    BY <2>1 DEF A
  <2>3. null \in Seq(A)
    BY <2>2
  <2>4. null \in Seq(STRING)
    BY <2>3, Zenon DEF A
  <2>5. s1 \in Seq(STRING)
    BY <1>1, <2>4, Zenon
  <2> QED
    BY <2>5, LenProperties, Zenon
<1>3. PrecisionOf(p) \in Int
  BY <1>1 DEF PrecisionOf
<1> HIDE DEF s1
<1>4. n \in 0 .. Len(s1)
  BY <1>2, <1>3
<1> HIDE DEF n
<1>5. kept \in Seq(STRING) /\ Len(kept) = n /\ n \in Nat
  <2>1. kept \in Seq(STRING) /\ Len(kept) = n
    BY <1>2, <1>4, FirstOf, Zenon
  <2> QED
    BY <1>2, <1>4, <2>1
<1>6. altflag = Has(p, "#") /\ Has(p, "#") \in BOOLEAN
  <2>1. DOMAIN p.flags = 1 .. FlagsEnd(p)
    BY PartIs DEF FlagsEnd
  <2> QED
    BY <2>1, Zenon DEF Seen, Has
<1>7. \A t \in Seq(STRING) : Show(t) \in Seq(STRING) /\ Len(Show(t)) = Len(t)
  BY <1>6, ShownIs, Zenon
<1>8. " " \in STRING /\ padc \in STRING /\ "0" \in STRING
  BY CharacterIs DEF PadChars
<1>9. String(p.arg.str) = right \o Show(kept) \o left1
  <2>1. Shown(kept) = Show(kept)
    BY <1>6, Zenon DEF Shown
  <2> HIDE DEF Show
  <2>2. String(p.arg.str) = right \o Shown(kept) \o left1
    BY Zenon DEF String, s1, n
  <2> QED
    BY <2>1, <2>2, Zenon
<1>10. StringMeaning(p) = Field(p, <<>>, Show(meant))
  BY Zenon DEF StringMeaning, s1
<1>12. width \in Int /\ \A k \in Nat, c \in STRING : Repeat(c, width - k) = Repeat(c, p.width - k)
  BY WidthPads
<1> HIDE DEF Show, kept, meant
<1>13. Show(kept) \in Seq(STRING) /\ Len(Show(kept)) = n
  BY <1>5, <1>7, Zenon
<1>14. width - n \in Int /\ right \in Seq(STRING) /\ left1 \in Seq(STRING)
  <2>1. width - n \in Int
    BY <1>5, <1>12
  <2> QED
    BY <1>8, <2>1, RepeatedText, NoText, Zenon
<1>15. String(p.arg.str) \in Seq(STRING)
  <2> HIDE DEF right, left1
  <2>1. right \o Show(kept) \in Seq(STRING)
    BY <1>13, <1>14, TwoStrings, Zenon
  <2>2. right \o Show(kept) \o left1 \in Seq(STRING)
    BY <1>14, <2>1, TwoStrings, Zenon
  <2> QED
    BY <1>9, <2>2, Zenon
<1>16. ASSUME Exact(p), Padding(p, FlagsEnd(p)) PROVE right \o Show(kept) \o left1 = Field(p, <<>>, Show(kept)) /\ meant = kept
  <2>1. (Has(p, "-") <=> padc = "-") /\ (Has(p, "0") <=> padc = "0")
    BY <1>16, PaddingIs DEF Exact
  <2>2. precision = p.prec
    BY <1>1, <1>16 DEF PrecisionOf, Exact, NoPrecision
  <2>3. meant = kept
    <3>1. CASE p.prec >= 0 /\ p.prec < Len(s1)
      BY <2>2, <3>1 DEF meant, kept, n
    <3>2. CASE ~(p.prec >= 0 /\ p.prec < Len(s1))
      <4>1. SubSeq(s1, 1, Len(s1)) = s1
        BY <1>2, SubSeqFull, Zenon
      <4> QED
        BY <2>2, <3>2, <4>1 DEF meant, kept, n
    <3> QED
      BY <3>1, <3>2
  <2> DEFINE t == Show(kept)
             m == p.width - n
  <2>4. t \in Seq(STRING) /\ p.width - Len(<<>>) - Len(t) = m
    BY <1>1, <1>5, <1>13, NoText
  <2>5. Field(p, <<>>, t) = IF Has(p, "-") THEN <<>> \o t \o Repeat(" ", m)
                            ELSE IF Has(p, "0") THEN <<>> \o Repeat("0", m) \o t
                            ELSE Repeat(" ", m) \o <<>> \o t
    BY <2>4, Zenon DEF Field
  <2>6. \A c \in STRING : Repeat(c, width - n) = Repeat(c, m) /\ Repeat(c, m) \in Seq(STRING)
    <3>1. m \in Int
      BY <1>1, <1>5
    <3> QED
      BY <1>5, <1>12, <3>1, RepeatedText, Zenon
  <2> HIDE DEF t, m
  <2>7. /\ <<>> \o t = t
        /\ \A c \in STRING : /\ <<>> \o Repeat(c, m) = Repeat(c, m) /\ Repeat(c, m) \o <<>> = Repeat(c, m)
                             /\ Repeat(c, m) \o t \o <<>> = Repeat(c, m) \o t
    <3>1. \A c \in STRING : Repeat(c, m) \o t \in Seq(STRING)
      BY <2>4, <2>6, TwoStrings, Zenon DEF t
    <3> QED
      BY <2>4, <2>6, <3>1, NoText, Zenon DEF t
  <2>8. CASE padc = "-"
    <3>1. right = <<>> /\ left1 = Repeat(" ", m)
      BY <1>8, <2>6, <2>8, Zenon
    <3> HIDE DEF right, left1
    <3> QED
      BY <2>1, <2>3, <2>5, <2>7, <2>8, <3>1, Zenon DEF t
  <2>9. CASE padc # "-"
    <3>1. right = Repeat(padc, m) /\ left1 = <<>>
      BY <1>8, <2>6, <2>9, Zenon
    <3>2. right \o t \o left1 = Repeat(padc, m) \o t
      <4> HIDE DEF right, left1
      <4> QED
        BY <1>8, <2>7, <3>1, Zenon
    <3>3. CASE padc = "0"
      BY <1>8, <2>1, <2>3, <2>5, <2>7, <2>9, <3>2, <3>3, Zenon DEF t
    <3>4. CASE padc # "0"
      <4>1. padc = " "
        BY <2>9, <3>4 DEF PadChars
      <4> QED
        BY <1>8, <2>1, <2>3, <2>5, <2>7, <2>9, <3>2, <3>4, <4>1, Zenon DEF t
    <3> QED
      BY <3>3, <3>4
  <2> QED
    BY <2>8, <2>9
<1> HIDE DEF right, left1
<1> QED
  BY <1>9, <1>10, <1>15, <1>16, Zenon

\* Error codes are printed as they are meant to be.
LEMMA ErrorConverted ==
  ASSUME NEW p \in Part
  PROVE  /\ Error(p.arg.num) \in Seq(STRING) /\ ErrorMeaning(p) \in Seq(STRING)
         /\ Error(p.arg.num) = ErrorMeaning(p)
<1> DEFINE err == Magnitude(p.arg.num)
<1>1. err \in Nat
  BY PartIs DEF Magnitude
<1>2. "error " \in STRING /\ " " \in STRING /\ \A e \in 1 .. 6 : error_string[e] \in STRING
  BY CharacterIs, Zenon
<1>3. Error(p.arg.num) = IF err \in DOMAIN error_string THEN <<error_string[err]>>
                         ELSE <<"error ">> \o printnum(err, 10, -1, " ")
  BY Zenon DEF Error, Magnitude
<1>4. ErrorMeaning(p) = IF err \in DOMAIN error_string THEN <<error_string[err]>> ELSE <<"error ">> \o Numeral(err, 10)
  BY Zenon DEF ErrorMeaning
<1> HIDE DEF err
<1>5. CASE err \in DOMAIN error_string
  <2>1. err \in 1 .. 6
    BY <1>5 DEF error_string
  <2>2. <<error_string[err]>> \in Seq(STRING)
    BY <1>2, <2>1, Single, Zenon
  <2> QED
    BY <1>3, <1>4, <1>5, <2>2, Zenon
<1>6. CASE err \notin DOMAIN error_string
  <2> DEFINE t == Numeral(err, 10)
  <2>0. 10 \in 2 .. 16 /\ -1 \in Int
    OBVIOUS
  <2>1. t \in Seq(STRING)
    BY <1>1, <2>0, NumeralIs, Zenon
  <2>2. Len(t) \in Nat
    BY <2>1, LenProperties, Zenon
  <2> DEFINE m == -1 - Len(t)
  <2>3. m \in Int /\ m <= 0
    BY <2>2
  <2>4. printnum(err, 10, -1, " ") = Repeat(" ", m) \o t
    BY <1>1, <1>2, <2>0, printnumIs, Zenon DEF Padded
  <2> HIDE DEF m, t
  <2>5. Repeat(" ", m) = <<>>
    BY <1>2, <2>3, RepeatedText, Zenon
  <2>6. printnum(err, 10, -1, " ") = t
    BY <2>1, <2>4, <2>5, NoText, Zenon
  <2>7. <<"error ">> \in Seq(STRING)
    BY <1>2, Single, Zenon
  <2>8. <<"error ">> \o t \in Seq(STRING)
    BY <2>1, <2>7, TwoStrings, Zenon
  <2> QED
    BY <1>3, <1>4, <1>6, <2>6, <2>8, Zenon DEF t
<1> QED
  BY <1>5, <1>6

\* What a directive means is a text.
LEMMA MeaningIs ==
  ASSUME NEW p \in Part
  PROVE  Meaning(p) \in Seq(STRING)
<1>1. CASE Numeric(p)
  <2>1. p.conv \notin {"s", "c", "%", "e"}
    BY <1>1 DEF Numeric
  <2>2. Meaning(p) = Field(p, SignOf(p), Absolute(p))
    BY <1>1, <2>1 DEF Meaning
  <2>3. SignOf(p) \in Seq(STRING) /\ Absolute(p) \in Seq(STRING)
    <3>1. "0" \in STRING /\ "x" \in STRING /\ "-" \in STRING
      BY CharacterIs, Zenon
    <3>2. <<"-">> \in Seq(STRING) /\ <<>> \in Seq(STRING)
      BY <3>1, Single, NoText, Zenon
    <3>3. <<"0", "x">> \in Seq(STRING)
      BY <3>1
    <3>4. SignOf(p) \in Seq(STRING)
      BY <3>2, <3>3 DEF SignOf, Signed
    <3> DEFINE num == p.arg.num
               m == ModulusOf(p)
               v == IF p.conv = "d" THEN Magnitude(num) ELSE num % m
    <3>5. num \in Int /\ m \in Nat \ {0}
      BY PartIs, PrintfmtAssumption DEF ModulusOf
    <3>6. Base(p) \in 2 .. 16
      BY DEF Base
    <3>7. Absolute(p) = Numeral(v, Base(p))
      BY Zenon DEF Absolute
    <3> HIDE DEF num, m
    <3>8. v \in Nat
      BY <3>5 DEF Magnitude
    <3> HIDE DEF v
    <3>9. Absolute(p) \in Seq(STRING)
      BY <3>6, <3>7, <3>8, NumeralIs, Zenon
    <3> QED
      BY <3>4, <3>9
  <2> QED
    BY <2>2, <2>3, FieldIs, Zenon
<1>2. CASE p.conv = "s"
  <2>1. Meaning(p) = StringMeaning(p)
    BY <1>2 DEF Meaning, Numeric
  <2> DEFINE null == <<"(", "n", "u", "l", "l", ")">>
             s1 == IF p.arg.str = NULL THEN null ELSE p.arg.str
             meant == IF p.prec >= 0 /\ p.prec < Len(s1) THEN SubSeq(s1, 1, p.prec) ELSE s1
             shown == [k \in DOMAIN meant |-> IF Has(p, "#") /\ meant[k] \in {"CTRL", "HIGH"} THEN "?" ELSE meant[k]]
  <2>2. null \in Seq(STRING)
    <3>1. "(" \in STRING /\ "n" \in STRING /\ "u" \in STRING /\ "l" \in STRING /\ ")" \in STRING
      BY CharacterIs, Zenon
    <3> DEFINE A == STRING
    <3> HIDE DEF A
    <3>2. "(" \in A /\ "n" \in A /\ "u" \in A /\ "l" \in A /\ ")" \in A
      BY <3>1 DEF A
    <3>3. null \in Seq(A)
      BY <3>2
    <3> QED
      BY <3>3, Zenon DEF A
  <2>3. s1 \in Seq(STRING)
    BY <2>2, PartIs, Zenon
  <2>4. Len(s1) \in Nat /\ p.prec \in Int
    BY <2>3, LenProperties, PartIs, Zenon
  <2>5. StringMeaning(p) = Field(p, <<>>, shown)
    BY Zenon DEF StringMeaning
  <2> HIDE DEF s1
  <2>6. p.prec >= 0 /\ p.prec < Len(s1) => p.prec \in 0 .. Len(s1)
    BY <2>4
  <2>7. meant \in Seq(STRING)
    BY <2>3, <2>6, FirstOf, Zenon
  <2> HIDE DEF meant
  <2>8. Has(p, "#") \in BOOLEAN
    BY DEF Has
  <2>9. shown \in Seq(STRING)
    BY <2>7, <2>8, ShownIs, Zenon
  <2> HIDE DEF shown
  <2>10. Field(p, <<>>, shown) \in Seq(STRING)
    BY <2>9, NoText, FieldIs, Zenon
  <2> QED
    BY <2>1, <2>5, <2>10, Zenon
<1>3. CASE p.conv = "c"
  <2>1. Meaning(p) = p.arg.str
    BY <1>3 DEF Meaning, Numeric
  <2> QED
    BY <2>1, PartIs, Zenon
<1>4. CASE p.conv = "e"
  <2>1. Meaning(p) = ErrorMeaning(p)
    BY <1>4 DEF Meaning, Numeric
  <2> QED
    BY <2>1, ErrorConverted, Zenon
<1>5. "%" \in STRING /\ <<"%">> \in Seq(STRING)
  <2>1. "%" \in STRING
    BY CharacterIs, Zenon
  <2> QED
    BY <2>1, Single, Zenon
<1>6. CASE p.conv = "%"
  <2>1. Meaning(p) = <<"%">>
    BY <1>6 DEF Meaning, Numeric
  <2> QED
    BY <1>5, <2>1, Zenon
<1>7. CASE ~Numeric(p) /\ p.conv \notin {"s", "c", "e", "%"}
  <2>1. Meaning(p) = <<"%">> \o Text(p)
    BY <1>7 DEF Meaning
  <2>2. Text(p) \in Seq(STRING)
    BY TextIs, Zenon
  <2> QED
    BY <1>5, <2>1, <2>2, TwoStrings, Zenon
<1> QED
  BY <1>1, <1>2, <1>3, <1>4, <1>6, <1>7

\* A conversion prints what the directive means.
LEMMA ConvertedIs ==
  ASSUME NEW p \in Part, p.conv \in Conversions, ch = p.conv, padc \in PadChars, lflag = p.longs,
         width = WidthAtEnd(p), precision = PrecisionOf(p), altflag = Seen(p, FlagsEnd(p), "#")
  PROVE  /\ Converted(p.arg) \in Seq(STRING)
         /\ Exact(p) /\ Padding(p, FlagsEnd(p)) => Converted(p.arg) = Meaning(p)
<1>1. CASE Numeric(p)
  <2>1. Converted(p.arg) = NumberText(p.arg.num)
    BY <1>1 DEF Converted, Numeric
  <2> QED
    BY <1>1, <2>1, NumberConverted, Zenon
<1>2. CASE p.conv = "s"
  <2>1. Converted(p.arg) = String(p.arg.str) /\ Meaning(p) = StringMeaning(p)
    BY <1>2 DEF Converted, Meaning, Numeric
  <2> QED
    BY <1>2, <2>1, StringConverted, Zenon
<1>3. CASE p.conv = "c"
  <2>1. Converted(p.arg) = p.arg.str /\ Meaning(p) = p.arg.str
    BY <1>3 DEF Converted, Meaning, Numeric
  <2> QED
    BY <2>1, PartIs, Zenon
<1>4. CASE p.conv = "e"
  <2>1. Converted(p.arg) = Error(p.arg.num) /\ Meaning(p) = ErrorMeaning(p)
    BY <1>4 DEF Converted, Meaning, Numeric
  <2> QED
    BY <2>1, ErrorConverted, Zenon
<1> QED
  BY <1>1, <1>2, <1>3, <1>4 DEF Conversions, Numeric

-----------------------------------------------------------------------------
(* Calls. *)

Argument == [num : Int, str : Seq(STRING)]

\* The arguments a directive takes: of a width, of a precision, of a conversion.
LEMMA ArgumentsAre ==
  ASSUME NEW p \in Part
  PROVE  /\ Arguments(p) \in Seq(Argument)
         /\ Len(Arguments(p)) = Stars(p) + (IF p.conv \in Conversions THEN 1 ELSE 0)
         /\ p.wstar => Arguments(p)[1].num = p.width
         /\ p.pstar => Arguments(p)[WidthStars(p) + 1].num = p.prec
         /\ p.conv \in Conversions => Arguments(p)[Stars(p) + 1] = p.arg
<1> DEFINE A == Argument
           a == Number(p.width)
           b == Number(p.prec)
           c == p.arg
           s1 == IF p.wstar THEN <<a>> ELSE <<>>
           s2 == IF p.pstar THEN <<b>> ELSE <<>>
           s3 == IF p.conv \in Conversions THEN <<c>> ELSE <<>>
<1>1. a \in A /\ b \in A /\ a.num = p.width /\ b.num = p.prec
  <2>1. p.width \in Int /\ p.prec \in Int
    BY PartIs
  <2>2. <<>> \in Seq(STRING)
    BY NoText
  <2> DEFINE T == Seq(STRING)
  <2>3. <<>> \in T
    BY <2>2
  <2> HIDE DEF T
  <2>4. \A n \in Int : Number(n) \in [num : Int, str : T] /\ Number(n).num = n
    BY <2>3 DEF Number
  <2> QED
    BY <2>1, <2>4, Zenon DEF Argument, T
<1>2. c \in A
  <2> DEFINE T == Seq(STRING)
             N == -(LONGLONG \div 2) .. LONGLONG - 1
             U == Seq(STRING \ {"NUL"})
  <2>1. c \in [num : N, str : U]
    BY Zenon DEF Part
  <2>2. c.num \in Int /\ c.str \in T
    BY PartIs
  <2> HIDE DEF T, N, U
  <2>3. c \in [num : Int, str : T]
    BY <2>1, <2>2
  <2> QED
    BY <2>3, Zenon DEF Argument, T
<1>3. Arguments(p) = s1 \o s2 \o s3
  BY Zenon DEF Arguments
<1>4. WidthStars(p) = (IF p.wstar THEN 1 ELSE 0) /\ Stars(p) = (IF p.wstar THEN 1 ELSE 0) + (IF p.pstar THEN 1 ELSE 0)
  BY DEF Stars, WidthStars
<1> HIDE DEF A, a, b, c
<1>5. s1 \in Seq(A) /\ Len(s1) = (IF p.wstar THEN 1 ELSE 0) /\ (p.wstar => s1[1] = a)
  BY <1>1
<1>6. s2 \in Seq(A) /\ Len(s2) = (IF p.pstar THEN 1 ELSE 0) /\ (p.pstar => s2[1] = b)
  BY <1>1
<1>7. s3 \in Seq(A) /\ Len(s3) = (IF p.conv \in Conversions THEN 1 ELSE 0) /\ (p.conv \in Conversions => s3[1] = c)
  BY <1>2
<1> HIDE DEF s1, s2, s3
<1> DEFINE s12 == s1 \o s2
           t == s12 \o s3
<1>8. /\ s12 \in Seq(A) /\ Len(s12) = Len(s1) + Len(s2)
      /\ \A i \in 1 .. Len(s1) : s12[i] = s1[i]
      /\ \A i \in 1 .. Len(s2) : s12[Len(s1) + i] = s2[i]
  BY <1>5, <1>6, Two
<1> HIDE DEF s12
<1>9. /\ t \in Seq(A) /\ Len(t) = Len(s12) + Len(s3)
      /\ \A i \in 1 .. Len(s12) : t[i] = s12[i]
      /\ \A i \in 1 .. Len(s3) : t[Len(s12) + i] = s3[i]
  BY <1>7, <1>8, Two
<1>10. Arguments(p) = t
  BY <1>3 DEF s12
<1> HIDE DEF t
<1>11. p.wstar => t[1] = a
  BY <1>5, <1>6, <1>8, <1>9
<1>12. p.pstar => t[Len(s1) + 1] = b
  <2>1. Len(s1) \in Nat /\ (p.pstar => Len(s1) + 1 \in 1 .. Len(s12) /\ 1 \in 1 .. Len(s2))
    BY <1>5, <1>6, <1>8
  <2> QED
    BY <1>6, <1>8, <1>9, <2>1
<1>13. p.conv \in Conversions => t[Len(s12) + 1] = c
  <2>1. p.conv \in Conversions => 1 \in 1 .. Len(s3)
    BY <1>7
  <2> QED
    BY <1>7, <1>9, <2>1
<1>14. /\ Len(s1) = WidthStars(p) /\ Len(s12) = Stars(p)
       /\ Len(t) = Stars(p) + (IF p.conv \in Conversions THEN 1 ELSE 0)
  BY <1>4, <1>5, <1>6, <1>7, <1>8, <1>9
<1> QED
  BY <1>1, <1>9, <1>10, <1>11, <1>12, <1>13, <1>14 DEF A, c

\* A call is made of texts and directives.
LEMMA PrintfIs ==
  ASSUME NEW c \in Printfs
  PROVE  /\ Len(c.parts) \in Nat /\ DOMAIN c.parts = 1 .. Len(c.parts)
         /\ \A k \in 1 .. Len(c.parts) : c.parts[k] \in Part
         /\ c.rest \in Seq(Plain) /\ c.rest \in Seq(STRING)
         /\ \A k \in 1 .. Len(c.parts) : c.parts[k].conv = "NUL" => k = Len(c.parts) /\ c.rest = <<>>
         /\ c.fmt = FlattenSeq(Pieces(c)) \o c.rest
         /\ c.args = FlattenSeq(ArgPieces(c))
         /\ Pieces(c) \in Seq(Seq(STRING)) /\ Len(Pieces(c)) = Len(c.parts)
         /\ \A k \in 1 .. Len(c.parts) : Pieces(c)[k] = Piece(c.parts[k]) /\ Piece(c.parts[k]) \in Seq(STRING)
         /\ ArgPieces(c) \in Seq(Seq(Argument)) /\ Len(ArgPieces(c)) = Len(c.parts)
         /\ \A k \in 1 .. Len(c.parts) : ArgPieces(c)[k] = Arguments(c.parts[k])
         /\ OutPieces(c) \in Seq(Seq(STRING)) /\ Len(OutPieces(c)) = Len(c.parts)
         /\ \A k \in 1 .. Len(c.parts) : OutPieces(c)[k] = c.parts[k].before \o Meaning(c.parts[k])
<1> DEFINE n == Len(c.parts)
<1>1. /\ c.parts \in Seq(Part) /\ c.rest \in Seq(Plain)
      /\ \A k \in DOMAIN c.parts : c.parts[k].conv = "NUL" => k = Len(c.parts) /\ c.rest = <<>>
  BY PrintfsAssumption
<1>2. c.fmt = FlattenSeq(Pieces(c)) \o c.rest /\ c.args = FlattenSeq(ArgPieces(c))
  BY PrintfsAssumption, Zenon DEF Pieces, ArgPieces
<1>3. n \in Nat /\ DOMAIN c.parts = 1 .. n /\ \A k \in 1 .. n : c.parts[k] \in Part
  BY <1>1
<1>4. c.rest \in Seq(STRING)
  <2>1. Plain \subseteq STRING
    BY DEF Plain
  <2> QED
    BY <1>1, <2>1, Wider, Zenon
<1> HIDE DEF n
<1> DEFINE A == Seq(STRING)
           B == Seq(Argument)
<1>5. <<"%">> \in Seq(STRING)
  BY CharacterIs, Single, Zenon
<1>6. ASSUME NEW k \in 1 .. n
      PROVE  /\ Piece(c.parts[k]) \in A /\ Arguments(c.parts[k]) \in B
             /\ c.parts[k].before \o Meaning(c.parts[k]) \in A
  <2>1. c.parts[k] \in Part
    BY <1>3
  <2>2. c.parts[k].before \in Seq(STRING) /\ Text(c.parts[k]) \in Seq(STRING) /\ Meaning(c.parts[k]) \in Seq(STRING)
    BY <2>1, PartIs, TextIs, MeaningIs, Zenon
  <2>3. c.parts[k].before \o <<"%">> \in Seq(STRING)
    BY <1>5, <2>2, TwoStrings, Zenon
  <2>4. Piece(c.parts[k]) \in Seq(STRING) /\ c.parts[k].before \o Meaning(c.parts[k]) \in Seq(STRING)
    BY <2>2, <2>3, TwoStrings, Zenon DEF Piece
  <2> QED
    BY <2>1, <2>4, ArgumentsAre, Zenon
<1> HIDE DEF A, B
<1>7. /\ [k \in 1 .. n |-> Piece(c.parts[k])] \in Seq(A)
      /\ Len([k \in 1 .. n |-> Piece(c.parts[k])]) = n
  BY <1>3, <1>6
<1>8. /\ [k \in 1 .. n |-> Arguments(c.parts[k])] \in Seq(B)
      /\ Len([k \in 1 .. n |-> Arguments(c.parts[k])]) = n
  BY <1>3, <1>6
<1>9. /\ [k \in 1 .. n |-> c.parts[k].before \o Meaning(c.parts[k])] \in Seq(A)
      /\ Len([k \in 1 .. n |-> c.parts[k].before \o Meaning(c.parts[k])]) = n
  <2> DEFINE at(k) == c.parts[k].before \o Meaning(c.parts[k])
  <2>1. \A k \in 1 .. n : at(k) \in A
    BY <1>6
  <2> HIDE DEF at
  <2>2. [k \in 1 .. n |-> at(k)] \in Seq(A) /\ Len([k \in 1 .. n |-> at(k)]) = n
    BY <1>3, <2>1
  <2> QED
    BY <2>2, Zenon DEF at
<1>10. /\ Pieces(c) = [k \in 1 .. n |-> Piece(c.parts[k])]
       /\ ArgPieces(c) = [k \in 1 .. n |-> Arguments(c.parts[k])]
       /\ OutPieces(c) = [k \in 1 .. n |-> c.parts[k].before \o Meaning(c.parts[k])]
  BY <1>3, Zenon DEF Pieces, ArgPieces, OutPieces, Piece
<1>11. \A k \in 1 .. n : /\ Pieces(c)[k] = Piece(c.parts[k])
                         /\ ArgPieces(c)[k] = Arguments(c.parts[k])
                         /\ OutPieces(c)[k] = c.parts[k].before \o Meaning(c.parts[k])
  BY <1>10, Zenon
<1>12. /\ Pieces(c) \in Seq(A) /\ Len(Pieces(c)) = n
       /\ ArgPieces(c) \in Seq(B) /\ Len(ArgPieces(c)) = n
       /\ OutPieces(c) \in Seq(A) /\ Len(OutPieces(c)) = n
  BY <1>7, <1>8, <1>9, <1>10, Zenon
<1> QED
  BY <1>1, <1>2, <1>3, <1>4, <1>6, <1>11, <1>12, Zenon DEF n, A, B

\* What UptoIs and PieceOfAll say, of strings.
LEMMA UptoStrings ==
  \A seqs \in Seq(Seq(STRING)) :
     /\ Upto(seqs, 0) = <<>> /\ Upto(seqs, Len(seqs)) = FlattenSeq(seqs)
     /\ \A k \in 0 .. Len(seqs) : Upto(seqs, k) \in Seq(STRING)
     /\ \A k \in 0 .. Len(seqs) - 1 :
          /\ Upto(seqs, k + 1) = Upto(seqs, k) \o seqs[k + 1]
          /\ Len(Upto(seqs, k)) + Len(seqs[k + 1]) <= Len(FlattenSeq(seqs))
          /\ \A j \in 1 .. Len(seqs[k + 1]) : FlattenSeq(seqs)[Len(Upto(seqs, k)) + j] = seqs[k + 1][j]
<1> DEFINE A == STRING
<1> HIDE DEF A
<1>1. ASSUME NEW seqs \in Seq(Seq(A))
      PROVE  /\ Upto(seqs, 0) = <<>> /\ Upto(seqs, Len(seqs)) = FlattenSeq(seqs)
             /\ \A k \in 0 .. Len(seqs) : Upto(seqs, k) \in Seq(A)
             /\ \A k \in 0 .. Len(seqs) - 1 : Upto(seqs, k + 1) = Upto(seqs, k) \o seqs[k + 1]
  BY UptoIs
<1>2. ASSUME NEW seqs \in Seq(Seq(A)), NEW k \in 0 .. Len(seqs) - 1
      PROVE  /\ Len(Upto(seqs, k)) + Len(seqs[k + 1]) <= Len(FlattenSeq(seqs))
             /\ \A j \in 1 .. Len(seqs[k + 1]) : FlattenSeq(seqs)[Len(Upto(seqs, k)) + j] = seqs[k + 1][j]
  BY PieceOfAll
<1> QED
  BY <1>1, <1>2, Zenon DEF A

\* Where, in a call, a directive is, and its arguments.
LEMMA DirectiveAt ==
  ASSUME NEW c \in Printfs, NEW k \in 0 .. Len(c.parts) - 1
  PROVE  LET p == c.parts[k + 1]
             n == Offset(c, k)
             m == n + Len(p.before)
         IN  /\ p \in Part /\ n \in Nat /\ Len(p.before) \in Nat /\ Len(Text(p)) \in Nat
             /\ \A i \in 1 .. Len(p.before) : c.fmt[n + i] = p.before[i]
             /\ c.fmt[m + 1] = "%"
             /\ \A i \in 1 .. Len(Text(p)) : c.fmt[m + 1 + i] = Text(p)[i]
             /\ Offset(c, k + 1) = m + 1 + Len(Text(p)) /\ Offset(c, k + 1) <= Len(c.fmt)
             /\ p.conv = "NUL" => Len(c.fmt) = Offset(c, k + 1)
             /\ Taken(c, k) \in Nat /\ Taken(c, k + 1) = Taken(c, k) + Len(Arguments(p))
             /\ \A i \in 1 .. Len(Arguments(p)) : c.args[Taken(c, k) + i] = Arguments(p)[i]
             /\ Upto(OutPieces(c), k) \in Seq(STRING)
             /\ Upto(OutPieces(c), k + 1) = Upto(OutPieces(c), k) \o (p.before \o Meaning(p))
<1> DEFINE p == c.parts[k + 1]
           z == Len(c.parts)
           n == Offset(c, k)
           m == n + Len(p.before)
           all == FlattenSeq(Pieces(c))
           piece == Piece(p)
           t == Text(p)
<1>1. k + 1 \in 1 .. z /\ k \in 0 .. z /\ k + 1 \in 0 .. z /\ z \in Nat
  BY PrintfIs
<1>2. p \in Part
  BY <1>1, PrintfIs
<1>3. p.before \in Seq(STRING) /\ t \in Seq(STRING)
  BY <1>2, PartIs, TextIs, Zenon
<1>4. Len(p.before) \in Nat /\ Len(t) \in Nat
  BY <1>3, LenProperties, Zenon
<1>5. Pieces(c) \in Seq(Seq(STRING)) /\ Len(Pieces(c)) = z /\ Pieces(c)[k + 1] = piece /\ piece \in Seq(STRING)
  BY <1>1, PrintfIs, Zenon
<1>6. /\ all \in Seq(STRING) /\ Upto(Pieces(c), z) = all
      /\ Upto(Pieces(c), k) \in Seq(STRING) /\ Upto(Pieces(c), k + 1) \in Seq(STRING)
      /\ Upto(Pieces(c), k + 1) = Upto(Pieces(c), k) \o piece
      /\ n + Len(piece) <= Len(all)
      /\ \A j \in 1 .. Len(piece) : all[n + j] = piece[j]
  <2> DEFINE seqs == Pieces(c)
  <2>1. seqs \in Seq(Seq(STRING)) /\ Len(seqs) = z /\ seqs[k + 1] = piece
    BY <1>5
  <2> HIDE DEF seqs, z, piece
  <2>2. z \in 0 .. Len(seqs) /\ k \in 0 .. Len(seqs) /\ k + 1 \in 0 .. Len(seqs) /\ k \in 0 .. Len(seqs) - 1
    BY <1>1, <2>1
  <2>3. /\ Upto(seqs, z) = FlattenSeq(seqs) /\ Upto(seqs, z) \in Seq(STRING)
        /\ Upto(seqs, k) \in Seq(STRING) /\ Upto(seqs, k + 1) \in Seq(STRING)
        /\ Upto(seqs, k + 1) = Upto(seqs, k) \o piece
        /\ Len(Upto(seqs, k)) + Len(piece) <= Len(FlattenSeq(seqs))
        /\ \A j \in 1 .. Len(piece) : FlattenSeq(seqs)[Len(Upto(seqs, k)) + j] = piece[j]
    <3>1. Upto(seqs, Len(seqs)) = FlattenSeq(seqs)
      BY <2>1, UptoStrings, Zenon
    <3>2. /\ Upto(seqs, k + 1) = Upto(seqs, k) \o seqs[k + 1]
          /\ Len(Upto(seqs, k)) + Len(seqs[k + 1]) <= Len(FlattenSeq(seqs))
          /\ \A j \in 1 .. Len(seqs[k + 1]) : FlattenSeq(seqs)[Len(Upto(seqs, k)) + j] = seqs[k + 1][j]
      BY <2>1, <2>2, UptoStrings, Zenon
    <3>3. \A i \in 0 .. Len(seqs) : Upto(seqs, i) \in Seq(STRING)
      BY <2>1, UptoStrings, Zenon
    <3> QED
      BY <2>1, <2>2, <3>1, <3>2, <3>3, Zenon
  <2> QED
    BY <2>3, Zenon DEF Offset, seqs
<1>7. n \in Nat
  BY <1>6, LenProperties, Zenon DEF Offset
<1>8. /\ Len(piece) = Len(p.before) + 1 + Len(t)
      /\ \A i \in 1 .. Len(p.before) : piece[i] = p.before[i]
      /\ piece[Len(p.before) + 1] = "%"
      /\ \A i \in 1 .. Len(t) : piece[Len(p.before) + 1 + i] = t[i]
  <2> DEFINE b == p.before
             u == b \o <<"%">>
  <2>1. "%" \in STRING
    BY CharacterIs, Zenon
  <2>2. /\ u \in Seq(STRING) /\ Len(u) = Len(b) + 1
        /\ \A i \in 1 .. Len(b) : u[i] = b[i]
        /\ u[Len(b) + 1] = "%"
    BY <1>3, <2>1, OneMore, Zenon
  <2> HIDE DEF u
  <2>3. /\ Len(u \o t) = Len(u) + Len(t)
        /\ \A i \in 1 .. Len(u) : (u \o t)[i] = u[i]
        /\ \A i \in 1 .. Len(t) : (u \o t)[Len(u) + i] = t[i]
    BY <1>3, <2>2, TwoStrings, Zenon
  <2>4. piece = u \o t
    BY Zenon DEF Piece, u
  <2> HIDE DEF b, piece, t
  <2>5. Len(b) \in Nat /\ Len(b) = Len(p.before)
    BY <1>4 DEF b
  <2>6. \A i \in 1 .. Len(b) : i \in 1 .. Len(u)
    BY <2>2, <2>5
  <2>7. Len(b) + 1 \in 1 .. Len(u)
    BY <2>2, <2>5
  <2>8. /\ Len(piece) = Len(b) + 1 + Len(t)
        /\ \A i \in 1 .. Len(b) : piece[i] = b[i]
        /\ piece[Len(b) + 1] = "%"
        /\ \A i \in 1 .. Len(t) : piece[Len(b) + 1 + i] = t[i]
    BY <2>2, <2>3, <2>4, <2>6, <2>7
  <2> QED
    BY <2>8 DEF b
<1>9. c.fmt = all \o c.rest /\ c.rest \in Seq(STRING)
  BY PrintfIs, Zenon
<1>10. /\ Len(c.fmt) = Len(all) + Len(c.rest) /\ Len(all) \in Nat /\ Len(c.rest) \in Nat
       /\ \A i \in 1 .. Len(all) : c.fmt[i] = all[i]
  <2> DEFINE a == all
             b == c.rest
  <2>1. a \in Seq(STRING) /\ b \in Seq(STRING) /\ c.fmt = a \o b
    BY <1>6, <1>9, Zenon
  <2> HIDE DEF a, b
  <2>2. /\ Len(a \o b) = Len(a) + Len(b) /\ Len(a) \in Nat /\ Len(b) \in Nat
        /\ \A i \in 1 .. Len(a) : (a \o b)[i] = a[i]
    BY <2>1, TwoStrings, Zenon
  <2> QED
    BY <2>1, <2>2, Zenon DEF a, b
<1>11. Offset(c, k + 1) = n + Len(piece)
  <2> DEFINE a == Upto(Pieces(c), k)
             b == piece
  <2>1. a \in Seq(STRING) /\ b \in Seq(STRING) /\ Upto(Pieces(c), k + 1) = a \o b
    BY <1>5, <1>6, Zenon
  <2> HIDE DEF a, b
  <2>2. Len(a \o b) = Len(a) + Len(b)
    BY <2>1, TwoStrings, Zenon
  <2> QED
    BY <2>1, <2>2, Zenon DEF Offset, a, b
<1>12. /\ Taken(c, k) \in Nat /\ Taken(c, k + 1) = Taken(c, k) + Len(Arguments(p))
       /\ \A i \in 1 .. Len(Arguments(p)) : c.args[Taken(c, k) + i] = Arguments(p)[i]
  <2> DEFINE a == ArgPieces(c)
             e == Arguments(p)
  <2>1. a \in Seq(Seq(Argument)) /\ Len(a) = z /\ a[k + 1] = e /\ c.args = FlattenSeq(a) /\ e \in Seq(Argument)
    BY <1>1, <1>2, PrintfIs, ArgumentsAre, Zenon
  <2> HIDE DEF a, e, z
  <2> DEFINE A == Argument
  <2>0. a \in Seq(Seq(A)) /\ e \in Seq(A) /\ k \in 0 .. Len(a) /\ k \in 0 .. Len(a) - 1
    BY <1>1, <2>1 DEF z
  <2> HIDE DEF A
  <2>2. Upto(a, k) \in Seq(A) /\ Upto(a, k + 1) = Upto(a, k) \o a[k + 1]
    BY <2>0, UptoIs
  <2>3. \A i \in 1 .. Len(a[k + 1]) : FlattenSeq(a)[Len(Upto(a, k)) + i] = a[k + 1][i]
    BY <2>0, PieceOfAll
  <2>4. Len(Upto(a, k + 1)) = Len(Upto(a, k)) + Len(e) /\ Len(Upto(a, k)) \in Nat
    BY <2>0, <2>1, <2>2, Two
  <2> QED
    BY <2>1, <2>3, <2>4, Zenon DEF Taken, a, e
<1>13. Upto(OutPieces(c), k) \in Seq(STRING) /\ Upto(OutPieces(c), k + 1) = Upto(OutPieces(c), k) \o (p.before \o Meaning(p))
  <2>1. /\ OutPieces(c) \in Seq(Seq(STRING)) /\ Len(OutPieces(c)) = z
        /\ OutPieces(c)[k + 1] = p.before \o Meaning(p)
    BY <1>1, PrintfIs, Zenon
  <2> QED
    BY <1>1, <2>1, UptoStrings, Zenon
<1>14. p.conv = "NUL" => Len(c.fmt) = Offset(c, k + 1)
  <2>1. SUFFICES ASSUME p.conv = "NUL" PROVE Len(c.fmt) = Offset(c, k + 1)
    OBVIOUS
  <2>2. k + 1 = z /\ c.rest = <<>>
    BY <1>1, <2>1, PrintfIs, Zenon
  <2>3. Len(c.rest) = 0
    BY <2>2, NoText
  <2>4. Offset(c, k + 1) = Len(all)
    BY <1>6, <2>2, Zenon DEF Offset
  <2> QED
    BY <1>10, <2>3, <2>4
<1> HIDE DEF p, z, n, all, piece, t
<1>19. /\ n \in Nat /\ Len(p.before) \in Nat /\ Len(t) \in Nat /\ Len(all) \in Nat
       /\ Len(piece) = Len(p.before) + 1 + Len(t) /\ n + Len(piece) <= Len(all)
  BY <1>4, <1>6, <1>7, <1>8, <1>10 DEF t
<1>20. \A i \in 1 .. Len(piece) : n + i \in 1 .. Len(all) => c.fmt[n + i] = piece[i]
  BY <1>6, <1>10, Zenon
<1>15. \A i \in 1 .. Len(p.before) : c.fmt[n + i] = p.before[i]
  <2>1. ASSUME NEW i \in 1 .. Len(p.before) PROVE c.fmt[n + i] = p.before[i]
    <3>1. i \in 1 .. Len(piece) /\ n + i \in 1 .. Len(all)
      BY <1>19
    <3>2. c.fmt[n + i] = piece[i]
      BY <1>20, <3>1, Zenon
    <3>3. piece[i] = p.before[i]
      BY <1>8, Zenon
    <3> QED
      BY <3>2, <3>3, Zenon
  <2> QED
    BY <2>1
<1>16. c.fmt[m + 1] = "%"
  <2>1. Len(p.before) + 1 \in 1 .. Len(piece) /\ n + (Len(p.before) + 1) \in 1 .. Len(all) /\ m + 1 = n + (Len(p.before) + 1)
    BY <1>19
  <2>2. c.fmt[n + (Len(p.before) + 1)] = piece[Len(p.before) + 1]
    BY <1>20, <2>1, Zenon
  <2>3. piece[Len(p.before) + 1] = "%"
    BY <1>8, Zenon
  <2> QED
    BY <2>1, <2>2, <2>3, Zenon
<1>17. ASSUME NEW i \in 1 .. Len(t) PROVE c.fmt[m + 1 + i] = t[i]
  <2>1. /\ Len(p.before) + 1 + i \in 1 .. Len(piece) /\ n + (Len(p.before) + 1 + i) \in 1 .. Len(all)
        /\ m + 1 + i = n + (Len(p.before) + 1 + i)
    BY <1>19
  <2>2. c.fmt[n + (Len(p.before) + 1 + i)] = piece[Len(p.before) + 1 + i]
    BY <1>20, <2>1, Zenon
  <2>3. piece[Len(p.before) + 1 + i] = t[i]
    BY <1>8, Zenon
  <2> QED
    BY <2>1, <2>2, <2>3, Zenon
<1>18. Offset(c, k + 1) = m + 1 + Len(t) /\ Offset(c, k + 1) <= Len(c.fmt)
  <2> DEFINE o == Offset(c, k + 1)
             x == Len(p.before)
             y == Len(t)
             w == Len(piece)
             a == Len(all)
             r == Len(c.rest)
             f == Len(c.fmt)
  <2>1. /\ n \in Nat /\ x \in Nat /\ y \in Nat /\ a \in Nat /\ r \in Nat
        /\ w = x + 1 + y /\ n + w <= a /\ f = a + r /\ o = n + w
    BY <1>10, <1>11, <1>19, Zenon
  <2> HIDE DEF o, x, y, w, a, r, f
  <2>2. o = n + x + 1 + y /\ o <= f
    BY <2>1
  <2> QED
    BY <2>2 DEF o, x, y, f
<1> QED
  BY <1>2, <1>4, <1>7, <1>12, <1>13, <1>14, <1>15, <1>16, <1>17, <1>18, Zenon DEF p, n, t

\* Where, in a call, the text after all directives is.
LEMMA EndsAt ==
  ASSUME NEW c \in Printfs
  PROVE  LET z == Len(c.parts) IN
         /\ Offset(c, 0) = 0 /\ Taken(c, 0) = 0 /\ Upto(OutPieces(c), 0) = <<>>
         /\ Offset(c, z) \in Nat /\ Len(c.rest) \in Nat /\ Len(c.fmt) = Offset(c, z) + Len(c.rest)
         /\ \A i \in 1 .. Len(c.rest) : c.fmt[Offset(c, z) + i] = c.rest[i]
         /\ Upto(OutPieces(c), z) \in Seq(STRING) /\ Upto(OutPieces(c), z) = FlattenSeq(OutPieces(c))
<1> DEFINE z == Len(c.parts)
           all == FlattenSeq(Pieces(c))
<1>1. z \in 0 .. z
  BY PrintfIs
<1>2. /\ Pieces(c) \in Seq(Seq(STRING)) /\ Len(Pieces(c)) = z
      /\ OutPieces(c) \in Seq(Seq(STRING)) /\ Len(OutPieces(c)) = z
      /\ ArgPieces(c) \in Seq(Seq(Argument))
      /\ c.fmt = all \o c.rest /\ c.rest \in Seq(STRING)
  BY PrintfIs, Zenon
<1>3. /\ Upto(Pieces(c), 0) = <<>> /\ Upto(Pieces(c), z) = all /\ all \in Seq(STRING)
      /\ Upto(OutPieces(c), 0) = <<>> /\ Upto(OutPieces(c), z) \in Seq(STRING)
      /\ Upto(OutPieces(c), z) = FlattenSeq(OutPieces(c))
  BY <1>1, <1>2, UptoStrings, Zenon
<1>4. Upto(ArgPieces(c), 0) = <<>>
  <2> DEFINE a == ArgPieces(c)
  <2>1. a \in Seq(Seq(Argument))
    BY <1>2
  <2> HIDE DEF a
  <2>2. Upto(a, 0) = <<>>
    BY <2>1, UptoIs
  <2> QED
    BY <2>2 DEF a
<1>5. Offset(c, 0) = 0 /\ Taken(c, 0) = 0
  BY <1>3, <1>4, NoText, Zenon DEF Offset, Taken
<1>6. Offset(c, z) = Len(all)
  BY <1>3, Zenon DEF Offset
<1>7. /\ Len(c.fmt) = Len(all) + Len(c.rest) /\ Len(all) \in Nat /\ Len(c.rest) \in Nat
      /\ \A i \in 1 .. Len(c.rest) : c.fmt[Len(all) + i] = c.rest[i]
  <2> DEFINE a == all
             b == c.rest
  <2>1. a \in Seq(STRING) /\ b \in Seq(STRING) /\ c.fmt = a \o b
    BY <1>2, <1>3, Zenon
  <2> HIDE DEF a, b
  <2>2. /\ Len(a \o b) = Len(a) + Len(b) /\ Len(a) \in Nat /\ Len(b) \in Nat
        /\ \A i \in 1 .. Len(b) : (a \o b)[Len(a) + i] = b[i]
    BY <2>1, TwoStrings, Zenon
  <2> QED
    BY <2>1, <2>2, Zenon DEF a, b
<1> QED
  BY <1>3, <1>5, <1>6, <1>7, Zenon

-----------------------------------------------------------------------------
(* Steps of the walk. *)

\* What is done next in each mode, by the character.
LEMMA StepIs ==
  ASSUME PrintNext
  PROVE  /\ mode = "switch" =>
              /\ ch \in {"-", "0", "#", "l", "."} => Flag
              /\ IsDigit(ch) /\ ch # "0" => FirstDigit
              /\ ch = "*" => Star
              /\ ch \in Conversions => Conversion
              /\ ch = "%" => PercentSign
              /\ ~IsDigit(ch) /\ ch \notin Modifiers \cup Conversions \cup {"%"} => Unrecognized
         /\ mode = "number" => IF IsDigit(ch) THEN NextDigit ELSE NumberEnds
         /\ mode = "text" => IF ch = "%" THEN Percent ELSE IF ch = "NUL" THEN Finish ELSE TextChar
         /\ mode = "start" => StartFormat \/ Refuse
         /\ mode \in {"start", "text", "switch", "number"}
<1>1. \A x : IsDigit(x) <=> x \in {"0", "1", "2", "3", "4", "5", "6", "7", "8", "9"}
  BY DecimalDigit
<1>2. CASE mode = "switch"
  <2>1. \/ Flag /\ ch \in {"-", "0", "#", "l", "."}
        \/ FirstDigit /\ IsDigit(ch) /\ ch # "0"
        \/ Star /\ ch = "*"
        \/ Conversion /\ ch \in Conversions
        \/ PercentSign /\ ch = "%"
        \/ Unrecognized /\ ~IsDigit(ch) /\ ch \notin Modifiers \cup Conversions \cup {"%"}
    <3>1. mode # "number" /\ mode # "text" /\ mode # "start"
      BY <1>2
    <3>2. CASE Flag
      BY <3>2, Zenon DEF Flag
    <3>3. CASE FirstDigit
      BY <3>3, Zenon DEF FirstDigit
    <3>4. CASE Star
      BY <3>4, Zenon DEF Star
    <3>5. CASE Conversion
      BY <3>5, Zenon DEF Conversion, Conversions
    <3>6. CASE PercentSign
      BY <3>6, Zenon DEF PercentSign
    <3>7. CASE Unrecognized
      <4>1. ~IsDigit(ch) /\ ch \notin {"-", "#", "l", ".", "*", "%", "d", "u", "o", "x", "p", "s", "c", "e"}
        BY <3>7, Zenon DEF Unrecognized
      <4> QED
        BY <3>7, <4>1 DEF Modifiers, Conversions
    <3>8. \/ Flag \/ FirstDigit \/ Star \/ Conversion \/ PercentSign \/ Unrecognized
      BY <3>1, Zenon DEF PrintNext, vprintfmt, StartFormat, Refuse, NoRoom, TextChar, Percent, NextDigit, NumberEnds, Finish
    <3> QED
      BY <3>2, <3>3, <3>4, <3>5, <3>6, <3>7, <3>8
  <2>2. mode # "number" /\ mode # "text" /\ mode # "start"
    BY <1>2
  <2> QED
    BY <1>1, <1>2, <2>1, <2>2 DEF Modifiers, Conversions
<1>3. CASE mode # "switch"
  <2>1. \/ StartFormat /\ mode = "start"
        \/ Refuse /\ mode = "start"
        \/ TextChar /\ mode = "text" /\ ch # "%" /\ ch # "NUL"
        \/ Percent /\ mode = "text" /\ ch = "%"
        \/ Finish /\ mode = "text" /\ ch = "NUL"
        \/ NextDigit /\ mode = "number" /\ IsDigit(ch)
        \/ NumberEnds /\ mode = "number" /\ ~IsDigit(ch)
    <3>1. ~Flag /\ ~FirstDigit /\ ~Star /\ ~Conversion /\ ~PercentSign /\ ~Unrecognized
      BY <1>3, Zenon DEF Flag, FirstDigit, Star, Conversion, PercentSign, Unrecognized
    <3>2. StartFormat \/ Refuse \/ TextChar \/ Percent \/ Finish \/ NextDigit \/ NumberEnds
      BY <3>1, Zenon DEF PrintNext, vprintfmt
    <3>3. (StartFormat => mode = "start") /\ (Refuse => mode = "start")
      BY Zenon DEF StartFormat, Refuse, NoRoom
    <3>4. TextChar => mode = "text" /\ ch # "%" /\ ch # "NUL"
      BY DEF TextChar
    <3>5. (Percent => mode = "text" /\ ch = "%") /\ (Finish => mode = "text" /\ ch = "NUL")
      BY Zenon DEF Percent, Finish
    <3>6. (NextDigit => mode = "number" /\ IsDigit(ch)) /\ (NumberEnds => mode = "number" /\ ~IsDigit(ch))
      BY Zenon DEF NextDigit, NumberEnds
    <3> QED
      BY <3>2, <3>3, <3>4, <3>5, <3>6, Zenon
  <2> QED
    BY <1>3, <2>1
<1> QED
  BY <1>2, <1>3

\* The character that is next within a directive.
LEMMA NextChar ==
  ASSUME printf \in Printfs, NEW k \in 0 .. Len(printf.parts) - 1, NEW p, p = printf.parts[k + 1],
         NEW t \in 0 .. Len(Text(p)), At(k, p, t)
  PROVE  /\ fmt \in Nat
         /\ t < Len(Text(p)) => ch = Text(p)[t + 1]
         /\ t = Len(Text(p)) /\ p.conv = "NUL" => ch = "NUL"
<1> DEFINE c == printf
           n == Offset(c, k)
           m == n + Len(p.before)
           z == Len(Text(p))
<1>1. /\ n \in Nat /\ Len(p.before) \in Nat /\ z \in Nat
      /\ \A i \in 1 .. z : c.fmt[m + 1 + i] = Text(p)[i]
      /\ Offset(c, k + 1) = m + 1 + z /\ Offset(c, k + 1) <= Len(c.fmt)
      /\ p.conv = "NUL" => Len(c.fmt) = Offset(c, k + 1)
  BY DirectiveAt, Zenon
<1>2. fmt = m + 1 + t
  BY DEF At
<1>3. Len(c.fmt) \in Nat
  <2>1. Offset(c, Len(c.parts)) \in Nat /\ Len(c.rest) \in Nat /\ Len(c.fmt) = Offset(c, Len(c.parts)) + Len(c.rest)
    BY EndsAt, Zenon
  <2> QED
    BY <2>1
<1>4. ch = IF fmt < Len(c.fmt) THEN c.fmt[fmt + 1] ELSE "NUL"
  BY DEF ch
<1>0. t \in 0 .. z
  OBVIOUS
<1> HIDE DEF c, n, z
<1>5. fmt \in Nat /\ (t < z => fmt < Len(c.fmt) /\ fmt + 1 = m + 1 + (t + 1))
  <2> DEFINE l == Len(c.fmt)
             b == Len(p.before)
             e == Offset(c, k + 1)
  <2>1. /\ t \in 0 .. z /\ n \in Nat /\ b \in Nat /\ z \in Nat /\ l \in Nat
        /\ e = n + b + 1 + z /\ e <= l /\ fmt = n + b + 1 + t
    BY <1>0, <1>1, <1>2, <1>3, Zenon
  <2> HIDE DEF l, b, e
  <2>2. fmt \in Nat /\ (t < z => fmt < l /\ fmt + 1 = n + b + 1 + (t + 1))
    BY <2>1
  <2> QED
    BY <2>2, Zenon DEF l, b
<1>6. ASSUME t < z PROVE ch = Text(p)[t + 1]
  <2>1. t + 1 \in 1 .. z
    BY <1>0, <1>1, <1>6
  <2>2. c.fmt[m + 1 + (t + 1)] = Text(p)[t + 1]
    BY <1>1, <2>1, Zenon
  <2> QED
    BY <1>4, <1>5, <1>6, <2>2, Zenon
<1>7. ASSUME t = z, p.conv = "NUL" PROVE ch = "NUL"
  BY <1>1, <1>2, <1>3, <1>4, <1>7
<1> QED
  BY <1>5, <1>6, <1>7 DEF z

\* The character that is next in each piece of a directive.
LEMMA CharAt ==
  ASSUME printf \in Printfs, NEW k \in 0 .. Len(printf.parts) - 1, NEW p, p = printf.parts[k + 1]
  PROVE  /\ \A i \in 0 .. FlagsEnd(p) - 1 : At(k, p, i) => ch = p.flags[i + 1] /\ ch \in {"-", "0", "#"}
         /\ \A i \in 0 .. Len(WidthText(p)) - 1 : At(k, p, FlagsEnd(p) + i) => ch = WidthText(p)[i + 1]
         /\ \A i \in 0 .. Len(PrecisionText(p)) - 1 : At(k, p, WidthEnd(p) + i) => ch = PrecisionText(p)[i + 1]
         /\ \A i \in 0 .. p.longs : At(k, p, PrecisionEnd(p) + i) => ch = IF i < p.longs THEN "l" ELSE p.conv
<1> DEFINE f == FlagsEnd(p)
           w == Len(WidthText(p))
           r == Len(PrecisionText(p))
           z == Len(Text(p))
<1>1. p \in Part
  BY DirectiveAt, Zenon
<1>2. /\ f \in Nat /\ w \in Nat /\ r \in Nat /\ p.longs \in Nat
      /\ WidthEnd(p) = f + w /\ PrecisionEnd(p) = WidthEnd(p) + r
      /\ z = PrecisionEnd(p) + p.longs + (IF p.conv = "NUL" THEN 0 ELSE 1)
      /\ \A i \in 1 .. f : Text(p)[i] = p.flags[i]
      /\ \A i \in 1 .. w : Text(p)[f + i] = WidthText(p)[i]
      /\ \A i \in 1 .. r : Text(p)[WidthEnd(p) + i] = PrecisionText(p)[i]
      /\ \A i \in 1 .. p.longs : Text(p)[PrecisionEnd(p) + i] = "l"
      /\ p.conv # "NUL" => Text(p)[PrecisionEnd(p) + p.longs + 1] = p.conv
  BY <1>1, TextIs, WidthTextIs, PrecisionTextIs, PartIs, Zenon
<1>3. p.flags \in Seq({"-", "0", "#"}) /\ f = Len(p.flags)
  BY <1>1, PartIs DEF FlagsEnd
<1>4. \A t \in 0 .. z : At(k, p, t) => (t < z => ch = Text(p)[t + 1]) /\ (t = z /\ p.conv = "NUL" => ch = "NUL")
  BY NextChar
<1> HIDE DEF f, w, r, z
<1>5. ASSUME NEW i \in 0 .. f - 1, At(k, p, i) PROVE ch = p.flags[i + 1] /\ ch \in {"-", "0", "#"}
  <2>1. i \in 0 .. z /\ i < z /\ i + 1 \in 1 .. f
    BY <1>2
  <2>2. ch = Text(p)[i + 1] /\ Text(p)[i + 1] = p.flags[i + 1]
    BY <1>2, <1>4, <1>5, <2>1, Zenon
  <2>3. p.flags[i + 1] \in {"-", "0", "#"}
    BY <1>3, <2>1
  <2> QED
    BY <2>2, <2>3
<1>6. ASSUME NEW i \in 0 .. w - 1, At(k, p, f + i) PROVE ch = WidthText(p)[i + 1]
  <2>1. f + i \in 0 .. z /\ f + i < z /\ i + 1 \in 1 .. w /\ f + i + 1 = f + (i + 1)
    BY <1>2
  <2>2. ch = Text(p)[f + i + 1] /\ Text(p)[f + (i + 1)] = WidthText(p)[i + 1]
    BY <1>2, <1>4, <1>6, <2>1, Zenon
  <2> QED
    BY <2>1, <2>2, Zenon
<1>7. ASSUME NEW i \in 0 .. r - 1, At(k, p, WidthEnd(p) + i) PROVE ch = PrecisionText(p)[i + 1]
  <2> DEFINE e == WidthEnd(p)
  <2>1. e + i \in 0 .. z /\ e + i < z /\ i + 1 \in 1 .. r /\ e + i + 1 = e + (i + 1)
    BY <1>2
  <2>2. ch = Text(p)[e + i + 1] /\ Text(p)[e + (i + 1)] = PrecisionText(p)[i + 1]
    BY <1>2, <1>4, <1>7, <2>1, Zenon
  <2> QED
    BY <2>1, <2>2, Zenon
<1>8. ASSUME NEW i \in 0 .. p.longs, At(k, p, PrecisionEnd(p) + i)
      PROVE  ch = IF i < p.longs THEN "l" ELSE p.conv
  <2> DEFINE e == PrecisionEnd(p)
  <2>1. e + i \in 0 .. z
    BY <1>2
  <2>2. (e + i < z => ch = Text(p)[e + i + 1]) /\ (e + i = z /\ p.conv = "NUL" => ch = "NUL")
    BY <1>4, <1>8, <2>1, Zenon
  <2>3. CASE i < p.longs
    <3>1. e + i < z /\ i + 1 \in 1 .. p.longs /\ e + i + 1 = e + (i + 1)
      BY <1>2, <2>3
    <3>2. Text(p)[e + (i + 1)] = "l"
      BY <1>2, <3>1, Zenon
    <3> QED
      BY <2>2, <2>3, <3>1, <3>2, Zenon
  <2>4. CASE ~(i < p.longs) /\ p.conv = "NUL"
    <3>1. e + i = z
      BY <1>2, <2>4
    <3> QED
      BY <2>2, <2>4, <3>1, Zenon
  <2>5. CASE ~(i < p.longs) /\ p.conv # "NUL"
    <3>1. e + i < z /\ e + i + 1 = e + p.longs + 1
      <4>1. e \in Nat /\ p.longs \in Nat /\ i = p.longs /\ z = e + p.longs + 1
        BY <1>2, <2>5
      <4> HIDE DEF e
      <4> QED
        BY <4>1
    <3>2. Text(p)[e + p.longs + 1] = p.conv
      BY <1>2, <2>5, Zenon
    <3> QED
      BY <2>2, <2>5, <3>1, <3>2, Zenon
  <2> QED
    BY <2>3, <2>4, <2>5
<1> QED
  BY <1>5, <1>6, <1>7, <1>8, Zenon DEF f, w, r

\* What a step within a directive that prints nothing leads to.
LEMMA Within ==
  ASSUME printf \in Printfs,
         NEW k, NEW p, NEW t \in Int, NEW w, NEW r, NEW l, NEW stars \in Int, Directive(k, p, t, w, r, l, stars),
         UNCHANGED <<printf, out>>, padc' \in PadChars,
         NEW e \in Int, fmt' = fmt + e, NEW n \in Int, ap' = ap + n,
         NEW w2, width' = w2, NEW r2, precision' = r2, NEW l2, lflag' = l2
  PROVE  Directive(k, p, t + e, w2, r2, l2, stars + n)'
<1> DEFINE b == Offset(printf, k) + Len(p.before)
<1>1. /\ k \in 0 .. Len(printf.parts) - 1 /\ p = printf.parts[k + 1]
      /\ fmt = b + 1 + t /\ ap = Taken(printf, k) + stars /\ Printed(k, p.before)
  BY DEF Directive, At
<1>2. Offset(printf, k)' = Offset(printf, k) /\ Taken(printf, k)' = Taken(printf, k)
  OBVIOUS
<1>3. b \in Nat /\ Taken(printf, k) \in Nat
  <2>1. Offset(printf, k) \in Nat /\ Len(p.before) \in Nat /\ Taken(printf, k) \in Nat
    BY <1>1, DirectiveAt, Zenon
  <2> QED
    BY <2>1
<1>4. fmt' = b + 1 + (t + e) /\ ap' = Taken(printf, k) + (stars + n)
  <2> HIDE DEF b
  <2> QED
    BY <1>1, <1>3
<1>5. At(k, p, t + e)'
  BY <1>2, <1>4 DEF At
<1>6. Printed(k, p.before)'
  BY <1>1 DEF Printed
<1>7. ap' = (Taken(printf, k) + (stars + n))'
  BY <1>2, <1>4
<1>8. k \in (0 .. Len(printf.parts) - 1)' /\ p = (printf.parts[k + 1])'
  BY <1>1
<1> QED
  BY <1>5, <1>6, <1>7, <1>8 DEF Directive

\* A flag is taken.
LEMMA FlagsStep ==
  ASSUME printf \in Printfs, NEW k, NEW p, NEW t \in Nat, InFlags(k, p, t), t < FlagsEnd(p), PrintNext
  PROVE  InFlags(k, p, t + 1)' /\ UNCHANGED <<printf, via, sink, out>>
<1>1. /\ k \in 0 .. Len(printf.parts) - 1 /\ p = printf.parts[k + 1] /\ At(k, p, t)
      /\ padc \in PadChars /\ width = -1 /\ precision = -1 /\ lflag = 0
      /\ mode = "switch" /\ Padding(p, t) /\ altflag = Seen(p, t, "#") /\ Directive(k, p, t, -1, -1, 0, 0)
  BY DEF InFlags, Directive, HasFlags
<1>2. p \in Part
  BY <1>1, DirectiveAt, Zenon
<1>3. t \in 0 .. FlagsEnd(p) - 1 /\ t + 1 \in 0 .. FlagsEnd(p) /\ t \in Int /\ 0 \in Int /\ 1 \in Int /\ -1 \in Int
  BY <1>2, TextIs
<1>4. ch = p.flags[t + 1] /\ ch \in {"-", "0", "#"}
  BY <1>1, <1>3, CharAt
<1>5. Flag
  BY <1>1, <1>4, StepIs
<1>6. /\ padc' = (IF ch \in {"-", "0"} THEN ch ELSE padc) /\ altflag' = (altflag \/ ch = "#")
      /\ lflag' = 0 /\ width' = -1 /\ precision' = -1 /\ fmt' = fmt + 1
      /\ UNCHANGED <<printf, via, ap, mode, sink, out>>
  BY <1>1, <1>4, <1>5 DEF Flag
<1>7. \A x : Seen(p, t + 1, x) <=> Seen(p, t, x) \/ ch = x
  <2>1. \A i : i \in 1 .. t + 1 <=> i \in 1 .. t \/ i = t + 1
    OBVIOUS
  <2> QED
    BY <1>4, <2>1 DEF Seen
<1>8. padc' \in PadChars /\ Padding(p, t + 1)'
  BY <1>1, <1>4, <1>6, <1>7 DEF PadChars, Padding
<1>9. altflag' = Seen(p, t + 1, "#")
  <2>1. Seen(p, t, "#") \in BOOLEAN /\ Seen(p, t + 1, "#") \in BOOLEAN
    BY DEF Seen
  <2> QED
    BY <1>1, <1>6, <1>7, <2>1
<1>10. Directive(k, p, t + 1, -1, -1, 0, 0)'
  <2>1. ap' = ap + 0 /\ 0 + 0 = 0
    <3>1. ap \in Nat
      <4>1. Taken(printf, k) \in Nat /\ ap = Taken(printf, k) + 0
        BY <1>1, DirectiveAt DEF Directive
      <4> QED
        BY <4>1
    <3> QED
      BY <1>6, <3>1
  <2>2. Directive(k, p, t + 1, -1, -1, 0, 0 + 0)'
    BY <1>1, <1>3, <1>6, <1>8, <2>1, Within
  <2> QED
    BY <1>6, <2>1, <2>2
<1> QED
  BY <1>1, <1>3, <1>6, <1>8, <1>9, <1>10 DEF InFlags, HasFlags

\* What nothing is printed by.
Quiet == UNCHANGED <<printf, via, sink, out>>

\* What holds anywhere within a directive.
LEMMA WithinIs ==
  ASSUME printf \in Printfs, NEW k, NEW p, NEW t, NEW w, NEW r, NEW l, NEW stars \in Nat,
         Directive(k, p, t, w, r, l, stars)
  PROVE  /\ k \in 0 .. Len(printf.parts) - 1 /\ p = printf.parts[k + 1] /\ p \in Part /\ At(k, p, t)
         /\ padc \in PadChars /\ width = w /\ precision = r /\ lflag = l
         /\ ap \in Nat /\ ap = Taken(printf, k) + stars /\ Taken(printf, k) \in Nat
         /\ stars < Len(Arguments(p)) => va_arg = Arguments(p)[stars + 1]
<1>1. /\ k \in 0 .. Len(printf.parts) - 1 /\ p = printf.parts[k + 1] /\ At(k, p, t)
      /\ padc \in PadChars /\ width = w /\ precision = r /\ lflag = l /\ ap = Taken(printf, k) + stars
  BY DEF Directive
<1>2. /\ p \in Part /\ Taken(printf, k) \in Nat
      /\ \A i \in 1 .. Len(Arguments(p)) : printf.args[Taken(printf, k) + i] = Arguments(p)[i]
  BY <1>1, DirectiveAt, Zenon
<1>3. ap \in Nat
  BY <1>1, <1>2
<1>4. ASSUME stars < Len(Arguments(p)) PROVE va_arg = Arguments(p)[stars + 1]
  <2>1. Arguments(p) \in Seq(Argument)
    BY <1>2, ArgumentsAre, Zenon
  <2>2. Len(Arguments(p)) \in Nat
    BY <2>1, LenProperties, Zenon
  <2>3. stars + 1 \in 1 .. Len(Arguments(p)) /\ ap + 1 = Taken(printf, k) + (stars + 1)
    BY <1>1, <1>2, <1>4, <2>2
  <2>4. printf.args[Taken(printf, k) + (stars + 1)] = Arguments(p)[stars + 1]
    BY <1>2, <2>3, Zenon
  <2> QED
    BY <2>3, <2>4, Zenon DEF va_arg
<1> QED
  BY <1>1, <1>2, <1>3, <1>4

\* The flags stay as they are.
LEMMA FlagsStay ==
  ASSUME NEW p, NEW t, UNCHANGED <<padc, altflag>>
  PROVE  HasFlags(p, t) => HasFlags(p, t)'
  BY DEF HasFlags, Padding, Seen

\* No digit follows width and precision.
LEMMA NoDigitAfter ==
  ASSUME printf \in Printfs, NEW k \in 0 .. Len(printf.parts) - 1, NEW p, p = printf.parts[k + 1]
  PROVE  /\ At(k, p, WidthEnd(p)) => ~IsDigit(ch)
         /\ At(k, p, PrecisionEnd(p)) => ~IsDigit(ch)
<1>1. p \in Part
  BY DirectiveAt, Zenon
<1>2. /\ WidthEnd(p) \in Nat /\ PrecisionEnd(p) = WidthEnd(p) + Len(PrecisionText(p)) /\ Len(PrecisionText(p)) \in Nat
      /\ p.longs \in Nat /\ ~IsDigit(p.conv)
      /\ HasPrecision(p) => Len(PrecisionText(p)) >= 2 /\ PrecisionText(p)[1] = "."
      /\ ~HasPrecision(p) => Len(PrecisionText(p)) = 0
  BY <1>1, TextIs, PrecisionTextIs, PartIs, Zenon
<1>3. ~IsDigit("l") /\ ~IsDigit(".")
  BY DecimalDigit
<1>4. ASSUME At(k, p, PrecisionEnd(p)) PROVE ~IsDigit(ch)
  <2>1. 0 \in 0 .. p.longs /\ PrecisionEnd(p) + 0 = PrecisionEnd(p)
    BY <1>2
  <2>2. ch = IF 0 < p.longs THEN "l" ELSE p.conv
    BY <1>4, <2>1, CharAt
  <2> QED
    BY <1>2, <1>3, <2>2
<1>5. ASSUME At(k, p, WidthEnd(p)) PROVE ~IsDigit(ch)
  <2>1. CASE HasPrecision(p)
    <3>1. 0 \in 0 .. Len(PrecisionText(p)) - 1 /\ WidthEnd(p) + 0 = WidthEnd(p)
      BY <1>2, <2>1
    <3>2. ch = PrecisionText(p)[0 + 1] /\ 0 + 1 = 1
      BY <1>5, <3>1, CharAt
    <3> QED
      BY <1>2, <1>3, <2>1, <3>2
  <2>2. CASE ~HasPrecision(p)
    <3>1. PrecisionEnd(p) = WidthEnd(p)
      BY <1>2, <2>2
    <3> QED
      BY <1>4, <1>5, <3>1
  <2> QED
    BY <2>1, <2>2
<1> QED
  BY <1>4, <1>5

\* After the flags, a width follows or does not.
LEMMA FlagsEndStep ==
  ASSUME printf \in Printfs, NEW k, NEW p, InFlags(k, p, FlagsEnd(p)), PrintNext
  PROVE  AfterWidth(k, p) \/ (AfterWidth(k, p)' /\ Quiet) \/ (InWidth(k, p, 1)' /\ Quiet)
<1> DEFINE e == FlagsEnd(p)
<1>1. mode = "switch" /\ Directive(k, p, e, -1, -1, 0, 0) /\ HasFlags(p, e)
  BY DEF InFlags
<1>2. 0 \in Nat
  OBVIOUS
<1>3. /\ k \in 0 .. Len(printf.parts) - 1 /\ p = printf.parts[k + 1] /\ p \in Part /\ At(k, p, e)
      /\ padc \in PadChars /\ width = -1 /\ precision = -1 /\ lflag = 0
      /\ ap \in Nat
      /\ 0 < Len(Arguments(p)) => va_arg = Arguments(p)[0 + 1]
  BY <1>1, <1>2, WithinIs, Zenon
<1>4. /\ e \in Nat /\ WidthEnd(p) = e + Len(WidthText(p)) /\ Len(WidthText(p)) \in Nat
      /\ p.wstar \in BOOLEAN /\ p.width \in Nat /\ p.pstar \in BOOLEAN
  BY <1>3, TextIs, WidthTextIs, PartIs, Zenon
<1>5. \A i \in 0 .. Len(WidthText(p)) - 1 : At(k, p, e + i) => ch = WidthText(p)[i + 1]
  BY <1>3, CharAt
<1>6. CASE p.wstar
  <2>1. Len(WidthText(p)) = 1 /\ WidthText(p)[1] = "*"
    BY <1>3, <1>6, WidthTextIs
  <2>2. ch = "*"
    <3>1. 0 \in 0 .. Len(WidthText(p)) - 1 /\ e + 0 = e /\ 0 + 1 = 1
      BY <1>4, <2>1
    <3> QED
      BY <1>3, <1>5, <2>1, <3>1, Zenon
  <2>3. Star
    BY <1>1, <2>2, StepIs
  <2>4. va_arg.num = p.width
    <3>1. Len(Arguments(p)) = Stars(p) + (IF p.conv \in Conversions THEN 1 ELSE 0) /\ Arguments(p)[1].num = p.width
      BY <1>3, <1>6, ArgumentsAre
    <3>2. Stars(p) >= 1 /\ Stars(p) \in Nat
      BY <1>4, <1>6 DEF Stars, WidthStars
    <3> QED
      BY <1>3, <3>1, <3>2
  <2>5. /\ width' = p.width /\ precision' = -1 /\ lflag' = 0 /\ ap' = ap + 1 /\ fmt' = fmt + 1
        /\ padc' = padc /\ altflag' = altflag /\ mode' = mode
    BY <1>3, <2>3, <2>4 DEF Star, ProcessPrecision
  <2>6. Quiet
    BY <2>3 DEF Star, Quiet
  <2>7. Directive(k, p, e + 1, p.width, -1, 0, 0 + 1)'
    <3>1. UNCHANGED <<printf, out>> /\ padc' \in PadChars /\ e \in Int /\ 0 \in Int /\ 1 \in Int
      BY <1>3, <1>4, <2>5, <2>6 DEF Quiet
    <3> HIDE DEF e
    <3> QED
      BY <1>1, <2>5, <3>1, Within
  <2>8. WidthEnd(p) = e + 1 /\ WidthOf(p) = p.width /\ WidthStars(p) = 0 + 1
    BY <1>4, <1>6, <2>1 DEF WidthOf, WidthStars
  <2> QED
    BY <1>1, <2>5, <2>6, <2>7, <2>8, FlagsStay DEF AfterWidth
<1>7. CASE ~p.wstar /\ p.width > 0
  <2>1. WidthText(p) = Numeral(p.width, 10) /\ Len(WidthText(p)) >= 1 /\ p.width \in Nat \ {0}
    BY <1>3, <1>4, <1>7, WidthTextIs
  <2>2. /\ IsDigit(WidthText(p)[1]) /\ WidthText(p)[1] # "0"
        /\ ValueOf(WidthText(p)[1]) = ReadOf(p.width, 1)
    <3>1. LET n == Len(Numeral(p.width, 10)) IN
            /\ \A i \in 1 .. n : IsDigit(Numeral(p.width, 10)[i])
            /\ Numeral(p.width, 10)[1] # "0" /\ ValueOf(Numeral(p.width, 10)[1]) = ReadOf(p.width, 1)
      BY <2>1, ReadingIs
    <3>2. 1 \in 1 .. Len(WidthText(p))
      BY <1>4, <2>1
    <3> QED
      BY <2>1, <3>1, <3>2, Zenon
  <2>3. ch = WidthText(p)[1]
    <3>1. 0 \in 0 .. Len(WidthText(p)) - 1 /\ e + 0 = e /\ 0 + 1 = 1
      BY <1>4, <2>1
    <3> QED
      BY <1>3, <1>5, <2>1, <3>1, Zenon
  <2>4. FirstDigit
    BY <1>1, <2>2, <2>3, StepIs
  <2>5. /\ width' = -1 /\ precision' = ReadOf(p.width, 1) /\ lflag' = 0 /\ ap' = ap /\ fmt' = fmt + 1
        /\ padc' = padc /\ altflag' = altflag /\ mode' = "number"
    BY <1>3, <2>2, <2>3, <2>4 DEF FirstDigit
  <2>6. Quiet
    BY <2>4 DEF FirstDigit, Quiet
  <2>7. Directive(k, p, e + 1, -1, ReadOf(p.width, 1), 0, 0)'
    <3>1. UNCHANGED <<printf, out>> /\ padc' \in PadChars /\ e \in Int /\ 0 \in Int /\ 1 \in Int /\ ap' = ap + 0 /\ 0 + 0 = 0
      BY <1>3, <1>4, <2>5, <2>6 DEF Quiet
    <3> HIDE DEF e
    <3>2. Directive(k, p, e + 1, -1, ReadOf(p.width, 1), 0, 0 + 0)'
      BY <1>1, <2>5, <3>1, Within
    <3> QED
      BY <3>1, <3>2
  <2>8. 1 \in 1 .. Len(WidthText(p))
    BY <1>4, <2>1
  <2> QED
    BY <1>1, <1>7, <2>5, <2>6, <2>7, <2>8, FlagsStay DEF InWidth
<1>8. CASE ~p.wstar /\ p.width = 0
  <2>1. Len(WidthText(p)) = 0
    BY <1>3, <1>8, WidthTextIs
  <2>2. WidthEnd(p) = e /\ WidthOf(p) = -1 /\ WidthStars(p) = 0
    BY <1>4, <1>8, <2>1 DEF WidthOf, WidthStars
  <2> QED
    BY <1>1, <2>2 DEF AfterWidth
<1> QED
  BY <1>4, <1>6, <1>7, <1>8

\* In the digits of the width.
LEMMA WidthStep ==
  ASSUME printf \in Printfs, NEW k, NEW p, NEW i \in Nat, InWidth(k, p, i), PrintNext
  PROVE  (InWidth(k, p, i + 1)' \/ AfterWidth(k, p)') /\ Quiet
<1> DEFINE e == FlagsEnd(p)
           z == Len(WidthText(p))
           v == p.width
<1>1. /\ mode = "number" /\ ~p.wstar /\ v > 0 /\ i \in 1 .. z
      /\ Directive(k, p, e + i, -1, ReadOf(v, i), 0, 0) /\ HasFlags(p, e)
  BY DEF InWidth
<1>2. 0 \in Nat
  OBVIOUS
<1>3. /\ k \in 0 .. Len(printf.parts) - 1 /\ p = printf.parts[k + 1] /\ p \in Part /\ At(k, p, e + i)
      /\ padc \in PadChars /\ width = -1 /\ precision = ReadOf(v, i) /\ lflag = 0
      /\ ap \in Nat
  BY <1>1, <1>2, WithinIs, Zenon
<1>4. e \in Nat /\ WidthEnd(p) = e + z /\ z \in Nat /\ v \in Nat \ {0} /\ v \in Int
  <2>1. e \in Nat /\ WidthEnd(p) = e + z /\ z \in Nat /\ v \in Nat
    BY <1>3, TextIs, WidthTextIs, PartIs, Zenon
  <2> QED
    BY <1>1, <2>1
<1>5. WidthText(p) = Numeral(v, 10)
  BY <1>1, <1>3, WidthTextIs
<1>6. /\ ReadOf(v, z) = v
      /\ \A j \in 1 .. z : IsDigit(WidthText(p)[j])
      /\ \A j \in 1 .. z - 1 : ReadOf(v, j + 1) = ReadOf(v, j) * 10 + ValueOf(WidthText(p)[j + 1])
  <2> HIDE DEF v
  <2>1. LET n == Len(Numeral(v, 10)) IN
          /\ ReadOf(v, n) = v
          /\ \A j \in 1 .. n : IsDigit(Numeral(v, 10)[j])
          /\ \A j \in 1 .. n - 1 : ReadOf(v, j + 1) = ReadOf(v, j) * 10 + ValueOf(Numeral(v, 10)[j + 1])
    BY <1>4, ReadingIs
  <2> QED
    BY <1>5, <2>1, Zenon
<1>7. CASE i < z
  <2>0. i \in 0 .. z - 1 /\ i \in 1 .. z - 1 /\ i + 1 \in 1 .. z /\ e + i + 1 = e + (i + 1)
    BY <1>1, <1>4, <1>7
  <2>1. ch = WidthText(p)[i + 1]
    BY <1>3, <2>0, CharAt
  <2>2. NextDigit
    BY <1>1, <1>6, <2>0, <2>1, StepIs
  <2>3. /\ width' = -1 /\ precision' = ReadOf(v, i + 1) /\ lflag' = 0 /\ ap' = ap /\ fmt' = fmt + 1
        /\ padc' = padc /\ altflag' = altflag /\ mode' = "number"
    BY <1>1, <1>3, <1>6, <2>0, <2>1, <2>2 DEF NextDigit
  <2>4. Quiet
    BY <2>2 DEF NextDigit, Quiet
  <2>5. Directive(k, p, e + (i + 1), -1, ReadOf(v, i + 1), 0, 0)'
    <3>1. UNCHANGED <<printf, out>> /\ padc' \in PadChars /\ e + i \in Int /\ 0 \in Int /\ 1 \in Int /\ ap' = ap + 0 /\ 0 + 0 = 0
      BY <1>3, <1>4, <2>3, <2>4 DEF Quiet
    <3> HIDE DEF e, v
    <3>2. Directive(k, p, e + i + 1, -1, ReadOf(v, i + 1), 0, 0 + 0)'
      BY <1>1, <2>3, <3>1, Within
    <3> QED
      BY <2>0, <3>1, <3>2
  <2> QED
    BY <1>1, <2>0, <2>3, <2>4, <2>5, FlagsStay DEF InWidth
<1>8. CASE i = z
  <2>1. At(k, p, WidthEnd(p))
    BY <1>3, <1>4, <1>8
  <2>2. ~IsDigit(ch)
    BY <1>3, <2>1, NoDigitAfter
  <2>3. NumberEnds
    BY <1>1, <2>2, StepIs
  <2>4. /\ width' = v /\ precision' = -1 /\ lflag' = 0 /\ ap' = ap /\ fmt' = fmt
        /\ padc' = padc /\ altflag' = altflag /\ mode' = "switch"
    BY <1>3, <1>6, <1>8, <2>3 DEF NumberEnds, ProcessPrecision
  <2>5. Quiet
    BY <2>3 DEF NumberEnds, Quiet
  <2>6. Directive(k, p, WidthEnd(p), v, -1, 0, 0)'
    <3>1. UNCHANGED <<printf, out>> /\ padc' \in PadChars /\ e + z \in Int /\ 0 \in Int /\ ap' = ap + 0 /\ 0 + 0 = 0
      BY <1>3, <1>4, <2>4, <2>5 DEF Quiet
    <3>0. fmt' = fmt + 0 /\ e + z + 0 = e + z
      <4>1. fmt \in Int
        <5>1. Offset(printf, k) \in Nat /\ Len(p.before) \in Nat
          BY <1>3, DirectiveAt, Zenon
        <5> QED
          BY <1>3, <1>8, <3>1, <5>1 DEF At
      <4> QED
        BY <1>4, <2>4, <4>1
    <3> HIDE DEF e, v, z
    <3>2. Directive(k, p, e + z + 0, v, -1, 0, 0 + 0)'
      BY <1>1, <1>8, <2>4, <3>0, <3>1, Within
    <3> QED
      BY <1>4, <3>0, <3>1, <3>2
  <2>7. WidthOf(p) = v /\ WidthStars(p) = 0
    BY <1>1 DEF WidthOf, WidthStars
  <2> QED
    BY <1>1, <2>4, <2>5, <2>6, <2>7, FlagsStay DEF AfterWidth
<1> QED
  BY <1>1, <1>4, <1>7, <1>8

\* After the width, a precision follows or does not.
LEMMA WidthEndStep ==
  ASSUME printf \in Printfs, NEW k, NEW p, AfterWidth(k, p), PrintNext
  PROVE  InEnding(k, p, 0) \/ (AfterDot(k, p)' /\ Quiet)
<1> DEFINE e == WidthEnd(p)
           n == WidthStars(p)
<1>1. mode = "switch" /\ Directive(k, p, e, WidthOf(p), -1, 0, n) /\ HasFlags(p, FlagsEnd(p))
  BY DEF AfterWidth
<1>2. n \in Nat
  BY DEF WidthStars
<1>3. /\ k \in 0 .. Len(printf.parts) - 1 /\ p = printf.parts[k + 1] /\ p \in Part /\ At(k, p, e)
      /\ padc \in PadChars /\ width = WidthOf(p) /\ precision = -1 /\ lflag = 0
      /\ ap \in Nat
  BY <1>1, <1>2, WithinIs, Zenon
<1>4. /\ e \in Nat /\ PrecisionEnd(p) = e + Len(PrecisionText(p)) /\ Len(PrecisionText(p)) \in Nat
      /\ p.wstar \in BOOLEAN /\ p.width \in Nat /\ p.pstar \in BOOLEAN /\ p.prec \in Int /\ p.longs \in Nat
  BY <1>3, TextIs, PrecisionTextIs, PartIs, Zenon
<1>5. CASE HasPrecision(p)
  <2>1. Len(PrecisionText(p)) >= 2 /\ PrecisionText(p)[1] = "."
    BY <1>3, <1>5, PrecisionTextIs
  <2>2. ch = "."
    <3>1. 0 \in 0 .. Len(PrecisionText(p)) - 1 /\ e + 0 = e /\ 0 + 1 = 1
      BY <1>4, <2>1
    <3>2. At(k, p, e + 0)
      BY <1>3, <3>1
    <3>3. ch = PrecisionText(p)[0 + 1]
      BY <1>3, <3>1, <3>2, CharAt
    <3> QED
      BY <2>1, <3>1, <3>3
  <2>3. Flag
    BY <1>1, <2>2, StepIs
  <2>4. WidthAtEnd(p) = IF WidthOf(p) < 0 THEN 0 ELSE WidthOf(p)
    <3>1. WidthOf(p) \in Int /\ (WidthOf(p) < 0 <=> WidthOf(p) = -1)
      BY <1>4 DEF WidthOf
    <3> QED
      BY <1>5, <3>1 DEF WidthAtEnd
  <2>5. /\ width' = WidthAtEnd(p) /\ precision' = -1 /\ lflag' = 0 /\ ap' = ap /\ fmt' = fmt + 1
        /\ padc' = padc /\ mode' = mode
    BY <1>3, <2>2, <2>3, <2>4 DEF Flag
  <2>6. altflag' = altflag
    <3>1. altflag \in BOOLEAN
      BY <1>1 DEF HasFlags, Seen
    <3>2. altflag' = (altflag \/ ch = "#")
      BY <2>3 DEF Flag
    <3> QED
      BY <2>2, <3>1, <3>2
  <2>7. Quiet
    BY <2>3 DEF Flag, Quiet
  <2>8. Directive(k, p, e + 1, WidthAtEnd(p), -1, 0, n)'
    <3>1. UNCHANGED <<printf, out>> /\ padc' \in PadChars /\ e \in Int /\ n \in Int /\ 0 \in Int /\ 1 \in Int /\ ap' = ap + 0 /\ n + 0 = n
      BY <1>2, <1>3, <1>4, <2>5, <2>7 DEF Quiet
    <3> HIDE DEF e, n
    <3>2. Directive(k, p, e + 1, WidthAtEnd(p), -1, 0, n + 0)'
      BY <1>1, <2>5, <3>1, Within
    <3> QED
      BY <3>1, <3>2
  <2> QED
    BY <1>1, <1>5, <2>5, <2>6, <2>7, <2>8, FlagsStay DEF AfterDot
<1>6. CASE ~HasPrecision(p)
  <2>1. Len(PrecisionText(p)) = 0
    BY <1>3, <1>6, PrecisionTextIs
  <2>2. PrecisionEnd(p) + 0 = e /\ 0 \in 0 .. p.longs
    BY <1>4, <2>1
  <2>3. WidthAtEnd(p) = WidthOf(p) /\ PrecisionOf(p) = -1 /\ Stars(p) = n
    <3>1. ~p.pstar /\ ~(p.prec > 0)
      BY <1>4, <1>6 DEF HasPrecision
    <3>2. n + 0 = n
      BY <1>2
    <3> QED
      BY <1>6, <3>1, <3>2 DEF WidthAtEnd, PrecisionOf, Stars
  <2>4. Padding(p, FlagsEnd(p)) /\ altflag = Seen(p, FlagsEnd(p), "#")
    BY <1>1 DEF HasFlags
  <2>5. Directive(k, p, PrecisionEnd(p) + 0, WidthAtEnd(p), PrecisionOf(p), 0, Stars(p))
    BY <1>1, <2>2, <2>3
  <2> QED
    BY <1>1, <2>2, <2>4, <2>5 DEF InEnding
<1> QED
  BY <1>5, <1>6

\* After the dot: an argument, a number, or a 0 that is taken for a flag.
LEMMA DotStep ==
  ASSUME printf \in Printfs, NEW k, NEW p, AfterDot(k, p), PrintNext
  PROVE  (InEnding(k, p, 0)' \/ InPrecision(k, p, 1)') /\ Quiet
<1> DEFINE e == WidthEnd(p)
           n == WidthStars(p)
           w == WidthAtEnd(p)
           r == PrecisionText(p)
<1>1. mode = "switch" /\ HasPrecision(p) /\ Directive(k, p, e + 1, w, -1, 0, n) /\ HasFlags(p, FlagsEnd(p))
  BY DEF AfterDot
<1>2. n \in Nat
  BY DEF WidthStars
<1>3. /\ k \in 0 .. Len(printf.parts) - 1 /\ p = printf.parts[k + 1] /\ p \in Part /\ At(k, p, e + 1)
      /\ padc \in PadChars /\ width = w /\ precision = -1 /\ lflag = 0
      /\ ap \in Nat
      /\ n < Len(Arguments(p)) => va_arg = Arguments(p)[n + 1]
  BY <1>1, <1>2, WithinIs, Zenon
<1>4. /\ e \in Nat /\ PrecisionEnd(p) = e + Len(r) /\ Len(r) \in Nat
      /\ p.wstar \in BOOLEAN /\ p.width \in Nat /\ p.pstar \in BOOLEAN /\ p.prec \in Int /\ p.longs \in Nat
  BY <1>3, TextIs, PrecisionTextIs, PartIs, Zenon
<1>5. w \in Nat
  BY <1>1, <1>4 DEF WidthAtEnd, WidthOf
<1>6. Len(r) >= 2 /\ ch = r[2]
  <2>1. Len(r) >= 2
    BY <1>1, <1>3, PrecisionTextIs
  <2>2. 1 \in 0 .. Len(r) - 1 /\ 1 + 1 = 2
    BY <1>4, <2>1
  <2>3. ch = r[1 + 1]
    BY <1>3, <2>2, CharAt
  <2> QED
    BY <2>1, <2>2, <2>3
<1>7. 0 \in 0 .. p.longs /\ PrecisionEnd(p) + 0 = PrecisionEnd(p)
  BY <1>4
<1>8. CASE p.pstar
  <2>1. Len(r) = 2 /\ ch = "*"
    BY <1>3, <1>6, <1>8, PrecisionTextIs
  <2>2. Star
    BY <1>1, <2>1, StepIs
  <2>3. va_arg.num = p.prec
    <3>1. Len(Arguments(p)) = Stars(p) + (IF p.conv \in Conversions THEN 1 ELSE 0) /\ Arguments(p)[n + 1].num = p.prec
      BY <1>3, <1>8, ArgumentsAre
    <3>2. Stars(p) = n + 1
      BY <1>8 DEF Stars
    <3>3. n < Len(Arguments(p))
      BY <1>2, <3>1, <3>2
    <3> QED
      BY <1>3, <3>1, <3>3
  <2>4. /\ width' = w /\ precision' = p.prec /\ lflag' = 0 /\ ap' = ap + 1 /\ fmt' = fmt + 1
        /\ padc' = padc /\ altflag' = altflag /\ mode' = mode
    BY <1>3, <1>5, <2>2, <2>3 DEF Star, ProcessPrecision
  <2>5. Quiet
    BY <2>2 DEF Star, Quiet
  <2>6. Directive(k, p, e + 1 + 1, w, p.prec, 0, n + 1)'
    <3>1. UNCHANGED <<printf, out>> /\ padc' \in PadChars /\ e + 1 \in Int /\ n \in Int /\ 1 \in Int
      BY <1>2, <1>3, <1>4, <2>4, <2>5 DEF Quiet
    <3> HIDE DEF e, n, w
    <3> QED
      BY <1>1, <2>4, <3>1, Within
  <2>7. PrecisionEnd(p) + 0 = e + 1 + 1 /\ PrecisionOf(p) = p.prec /\ Stars(p) = n + 1
    BY <1>4, <1>8, <2>1 DEF PrecisionOf, Stars
  <2>8. Padding(p, FlagsEnd(p))' /\ altflag' = Seen(p, FlagsEnd(p), "#")
    BY <1>1, <2>4, FlagsStay DEF HasFlags, Padding
  <2>9. Directive(k, p, PrecisionEnd(p) + 0, WidthAtEnd(p), PrecisionOf(p), 0, Stars(p))'
    BY <2>6, <2>7
  <2> QED
    BY <1>1, <1>7, <2>4, <2>5, <2>8, <2>9 DEF InEnding
<1>9. CASE ~p.pstar /\ p.prec > 0
  <2> DEFINE v == p.prec
  <2>1. /\ Len(r) = 1 + Len(Numeral(v, 10))
        /\ \A i \in 1 .. Len(Numeral(v, 10)) : r[1 + i] = Numeral(v, 10)[i]
    <3>1. p.prec >= 0
      BY <1>4, <1>9
    <3> QED
      BY <1>3, <1>9, <3>1, PrecisionTextIs
  <2>2. Len(Numeral(v, 10)) \in Nat \ {0} /\ IsDigit(Numeral(v, 10)[1]) /\ Numeral(v, 10)[1] # "0"
        /\ ValueOf(Numeral(v, 10)[1]) = ReadOf(v, 1)
    <3>1. v \in Nat \ {0}
      BY <1>4, <1>9
    <3> HIDE DEF v
    <3>2. LET z == Len(Numeral(v, 10)) IN
            /\ z \in Nat \ {0} /\ \A i \in 1 .. z : IsDigit(Numeral(v, 10)[i])
            /\ Numeral(v, 10)[1] # "0" /\ ValueOf(Numeral(v, 10)[1]) = ReadOf(v, 1)
      BY <3>1, ReadingIs
    <3>3. 1 \in 1 .. Len(Numeral(v, 10))
      BY <3>2
    <3> QED
      BY <3>2, <3>3, Zenon
  <2>3. ch = Numeral(v, 10)[1]
    <3>1. 1 \in 1 .. Len(Numeral(v, 10)) /\ 1 + 1 = 2
      BY <2>2
    <3> QED
      BY <1>6, <2>1, <3>1, Zenon
  <2>4. FirstDigit
    BY <1>1, <2>2, <2>3, StepIs
  <2>5. /\ width' = w /\ precision' = ReadOf(v, 1) /\ lflag' = 0 /\ ap' = ap /\ fmt' = fmt + 1
        /\ padc' = padc /\ altflag' = altflag /\ mode' = "number"
    BY <1>3, <2>2, <2>3, <2>4 DEF FirstDigit
  <2>6. Quiet
    BY <2>4 DEF FirstDigit, Quiet
  <2>7. Directive(k, p, e + 1 + 1, w, ReadOf(v, 1), 0, n)'
    <3>1. UNCHANGED <<printf, out>> /\ padc' \in PadChars /\ e + 1 \in Int /\ n \in Int /\ 0 \in Int /\ 1 \in Int /\ ap' = ap + 0 /\ n + 0 = n
      BY <1>2, <1>3, <1>4, <2>5, <2>6 DEF Quiet
    <3> HIDE DEF e, n, w, v
    <3>2. Directive(k, p, e + 1 + 1, w, ReadOf(v, 1), 0, n + 0)'
      BY <1>1, <2>5, <3>1, Within
    <3> QED
      BY <3>1, <3>2
  <2>8. 1 \in 1 .. Len(Numeral(p.prec, 10))
    BY <2>2
  <2> QED
    BY <1>1, <1>9, <2>5, <2>6, <2>7, <2>8, FlagsStay DEF InPrecision
<1>10. CASE ~p.pstar /\ p.prec = 0
  <2>1. /\ Len(Numeral(p.prec, 10)) = 1 /\ Numeral(p.prec, 10)[1] = "0"
        /\ Len(r) = 1 + Len(Numeral(p.prec, 10))
        /\ \A i \in 1 .. Len(Numeral(p.prec, 10)) : r[1 + i] = Numeral(p.prec, 10)[i]
    <3>1. p.prec >= 0 /\ p.prec = 0
      BY <1>10
    <3> QED
      BY <1>3, <1>10, <3>1, PrecisionTextIs
  <2>2. Len(r) = 2 /\ ch = "0"
    <3>1. 1 \in 1 .. Len(Numeral(p.prec, 10)) /\ 1 + 1 = 2 /\ Len(r) = 2
      BY <2>1
    <3> QED
      BY <1>6, <2>1, <3>1, Zenon
  <2>3. Flag
    BY <1>1, <2>2, StepIs
  <2>4. /\ width' = w /\ precision' = -1 /\ lflag' = 0 /\ ap' = ap /\ fmt' = fmt + 1
        /\ padc' = "0" /\ mode' = mode
    BY <1>3, <2>2, <2>3 DEF Flag
  <2>5. altflag' = altflag
    <3>1. altflag \in BOOLEAN
      BY <1>1 DEF HasFlags, Seen
    <3>2. altflag' = (altflag \/ ch = "#")
      BY <2>3 DEF Flag
    <3> QED
      BY <2>2, <3>1, <3>2
  <2>6. Quiet
    BY <2>3 DEF Flag, Quiet
  <2>7. Directive(k, p, e + 1 + 1, w, -1, 0, n)'
    <3>0. padc' \in PadChars
      BY <2>4 DEF PadChars
    <3>1. UNCHANGED <<printf, out>> /\ padc' \in PadChars /\ e + 1 \in Int /\ n \in Int /\ 0 \in Int /\ 1 \in Int /\ ap' = ap + 0 /\ n + 0 = n
      BY <1>2, <1>3, <1>4, <2>4, <2>6, <3>0 DEF Quiet
    <3> HIDE DEF e, n, w
    <3>2. Directive(k, p, e + 1 + 1, w, -1, 0, n + 0)'
      BY <1>1, <2>4, <3>1, Within
    <3> QED
      BY <3>1, <3>2
  <2>8. PrecisionEnd(p) + 0 = e + 1 + 1 /\ PrecisionOf(p) = -1 /\ Stars(p) = n /\ NoPrecision(p)
    <3>1. n + 0 = n
      BY <1>2
    <3>2. PrecisionEnd(p) + 0 = e + 1 + 1
      BY <1>4, <2>2
    <3> QED
      BY <1>10, <3>1, <3>2 DEF PrecisionOf, Stars, NoPrecision
  <2>9. Directive(k, p, PrecisionEnd(p) + 0, WidthAtEnd(p), PrecisionOf(p), 0, Stars(p))'
    BY <2>7, <2>8
  <2>10. altflag' = Seen(p, FlagsEnd(p), "#")
    BY <1>1, <2>5 DEF HasFlags
  <2> QED
    BY <1>1, <1>7, <2>4, <2>6, <2>8, <2>9, <2>10 DEF InEnding
<1> QED
  BY <1>1, <1>4, <1>8, <1>9, <1>10 DEF HasPrecision

\* In the digits of the precision.
LEMMA PrecisionStep ==
  ASSUME printf \in Printfs, NEW k, NEW p, NEW i \in Nat, InPrecision(k, p, i), PrintNext
  PROVE  (InPrecision(k, p, i + 1)' \/ InEnding(k, p, 0)') /\ Quiet
<1> DEFINE e == WidthEnd(p)
           n == WidthStars(p)
           w == WidthAtEnd(p)
           r == PrecisionText(p)
           v == p.prec
           z == Len(Numeral(v, 10))
<1>1. /\ mode = "number" /\ ~p.pstar /\ v > 0 /\ i \in 1 .. z
      /\ Directive(k, p, e + 1 + i, w, ReadOf(v, i), 0, n) /\ HasFlags(p, FlagsEnd(p))
  BY DEF InPrecision
<1>2. n \in Nat
  BY DEF WidthStars
<1>3. /\ k \in 0 .. Len(printf.parts) - 1 /\ p = printf.parts[k + 1] /\ p \in Part /\ At(k, p, e + 1 + i)
      /\ padc \in PadChars /\ width = w /\ precision = ReadOf(v, i) /\ lflag = 0
      /\ ap \in Nat
  BY <1>1, <1>2, WithinIs, Zenon
<1>4. /\ e \in Nat /\ PrecisionEnd(p) = e + Len(r) /\ Len(r) \in Nat /\ v \in Nat \ {0} /\ v \in Int
      /\ p.wstar \in BOOLEAN /\ p.width \in Nat /\ p.pstar \in BOOLEAN /\ p.longs \in Nat
  <2>1. /\ e \in Nat /\ PrecisionEnd(p) = e + Len(r) /\ Len(r) \in Nat /\ v \in Int
        /\ p.wstar \in BOOLEAN /\ p.width \in Nat /\ p.pstar \in BOOLEAN /\ p.longs \in Nat
    BY <1>3, TextIs, PrecisionTextIs, PartIs, Zenon
  <2> QED
    BY <1>1, <2>1
<1>5. w \in Nat
  BY <1>1, <1>4 DEF WidthAtEnd, WidthOf, HasPrecision
<1>6. /\ ReadOf(v, z) = v /\ z \in Nat
      /\ \A j \in 1 .. z : IsDigit(Numeral(v, 10)[j])
      /\ \A j \in 1 .. z - 1 : ReadOf(v, j + 1) = ReadOf(v, j) * 10 + ValueOf(Numeral(v, 10)[j + 1])
  <2> HIDE DEF v
  <2>1. LET m == Len(Numeral(v, 10)) IN
          /\ m \in Nat \ {0} /\ ReadOf(v, m) = v
          /\ \A j \in 1 .. m : IsDigit(Numeral(v, 10)[j])
          /\ \A j \in 1 .. m - 1 : ReadOf(v, j + 1) = ReadOf(v, j) * 10 + ValueOf(Numeral(v, 10)[j + 1])
    BY <1>4, ReadingIs
  <2> QED
    BY <2>1
<1>7. Len(r) = 1 + z /\ \A j \in 1 .. z : r[1 + j] = Numeral(v, 10)[j]
  <2>1. p.prec >= 0
    BY <1>4
  <2> QED
    BY <1>1, <1>3, <2>1, PrecisionTextIs
<1>8. CASE i < z
  <2>0. /\ 1 + i \in 0 .. Len(r) - 1 /\ i \in 1 .. z - 1 /\ i + 1 \in 1 .. z
        /\ e + 1 + i = e + (1 + i) /\ 1 + i + 1 = 1 + (i + 1) /\ e + 1 + i + 1 = e + 1 + (i + 1)
    <3>1. e \in Nat /\ z \in Nat /\ Len(r) = 1 + z /\ i \in 1 .. z /\ i < z
      BY <1>1, <1>4, <1>6, <1>7, <1>8
    <3> HIDE DEF e, z, r
    <3> QED
      BY <3>1
  <2>1. ch = Numeral(v, 10)[i + 1]
    <3>1. At(k, p, e + (1 + i))
      BY <1>3, <2>0
    <3>2. ch = r[1 + i + 1]
      BY <1>3, <2>0, <3>1, CharAt
    <3> QED
      BY <1>7, <2>0, <3>2
  <2>2. NextDigit
    BY <1>1, <1>6, <2>0, <2>1, StepIs
  <2>3. /\ width' = w /\ precision' = ReadOf(v, i + 1) /\ lflag' = 0 /\ ap' = ap /\ fmt' = fmt + 1
        /\ padc' = padc /\ altflag' = altflag /\ mode' = "number"
    BY <1>1, <1>3, <1>6, <2>0, <2>1, <2>2 DEF NextDigit
  <2>4. Quiet
    BY <2>2 DEF NextDigit, Quiet
  <2>5. Directive(k, p, e + 1 + (i + 1), w, ReadOf(v, i + 1), 0, n)'
    <3>1. UNCHANGED <<printf, out>> /\ padc' \in PadChars /\ e + 1 + i \in Int /\ n \in Int /\ 0 \in Int /\ 1 \in Int /\ ap' = ap + 0 /\ n + 0 = n
      BY <1>2, <1>3, <1>4, <2>3, <2>4 DEF Quiet
    <3> HIDE DEF e, v, n, w
    <3>2. Directive(k, p, e + 1 + i + 1, w, ReadOf(v, i + 1), 0, n + 0)'
      BY <1>1, <2>3, <3>1, Within
    <3> QED
      BY <2>0, <3>1, <3>2
  <2> QED
    BY <1>1, <2>0, <2>3, <2>4, <2>5, FlagsStay DEF InPrecision
<1>9. CASE i = z
  <2>0. PrecisionEnd(p) = e + 1 + i /\ e + 1 + i + 0 = PrecisionEnd(p) + 0 /\ 0 \in 0 .. p.longs
    BY <1>4, <1>6, <1>7, <1>9
  <2>1. At(k, p, PrecisionEnd(p))
    BY <1>3, <2>0
  <2>2. ~IsDigit(ch)
    BY <1>3, <2>1, NoDigitAfter
  <2>3. NumberEnds
    BY <1>1, <2>2, StepIs
  <2>4. /\ width' = w /\ precision' = v /\ lflag' = 0 /\ ap' = ap /\ fmt' = fmt
        /\ padc' = padc /\ altflag' = altflag /\ mode' = "switch"
    BY <1>3, <1>5, <1>6, <1>9, <2>3 DEF NumberEnds, ProcessPrecision
  <2>5. Quiet
    BY <2>3 DEF NumberEnds, Quiet
  <2>6. Directive(k, p, PrecisionEnd(p) + 0, w, v, 0, n)'
    <3>1. UNCHANGED <<printf, out>> /\ padc' \in PadChars /\ e + 1 + i \in Int /\ n \in Int /\ 0 \in Int /\ ap' = ap + 0 /\ n + 0 = n
      BY <1>2, <1>3, <1>4, <2>4, <2>5 DEF Quiet
    <3>0. fmt' = fmt + 0
      <4>1. fmt \in Int
        <5>1. Offset(printf, k) \in Nat /\ Len(p.before) \in Nat
          BY <1>3, DirectiveAt, Zenon
        <5> QED
          BY <1>3, <3>1, <5>1 DEF At
      <4> QED
        BY <2>4, <4>1
    <3> HIDE DEF e, v, z, n, w
    <3>2. Directive(k, p, e + 1 + i + 0, w, v, 0, n + 0)'
      BY <1>1, <2>4, <3>0, <3>1, Within
    <3> QED
      BY <2>0, <3>1, <3>2
  <2>7. PrecisionOf(p) = v /\ Stars(p) = n
    <3>1. n + 0 = n
      BY <1>2
    <3> QED
      BY <1>1, <3>1 DEF PrecisionOf, Stars
  <2>8. Padding(p, FlagsEnd(p))' /\ altflag' = Seen(p, FlagsEnd(p), "#")
    BY <1>1, <2>4, FlagsStay DEF HasFlags, Padding
  <2>9. Directive(k, p, PrecisionEnd(p) + 0, WidthAtEnd(p), PrecisionOf(p), 0, Stars(p))'
    BY <2>6, <2>7
  <2> QED
    BY <2>0, <2>4, <2>5, <2>8, <2>9 DEF InEnding
<1> QED
  BY <1>1, <1>6, <1>8, <1>9

\* Concatenation of texts.
LEMMA Grouped ==
  \A a \in Seq(STRING), b \in Seq(STRING), e \in Seq(STRING) : (a \o b) \o e = a \o (b \o e)
<1> DEFINE A == STRING
<1> HIDE DEF A
<1>1. \A a \in Seq(A), b \in Seq(A), e \in Seq(A) : (a \o b) \o e = a \o (b \o e)
  BY ConcatAssociative
<1> QED
  BY <1>1 DEF A

\* No character of a directive that was not recognised ends the text or begins a directive.
LEMMA NoPercent ==
  ASSUME NEW p \in Part
  PROVE  /\ \A i \in 1 .. PrecisionEnd(p) + p.longs : Text(p)[i] \notin {"%", "NUL"}
         /\ Unknown(p) => \A i \in 1 .. Len(Text(p)) : Text(p)[i] \notin {"%", "NUL"}
<1> DEFINE f == FlagsEnd(p)
           w == Len(WidthText(p))
           r == Len(PrecisionText(p))
           l == p.longs
           z == Len(Text(p))
           x == Text(p)
<1>1. /\ f \in Nat /\ w \in Nat /\ r \in Nat /\ l \in Nat
      /\ WidthEnd(p) = f + w /\ PrecisionEnd(p) = WidthEnd(p) + r
      /\ z = PrecisionEnd(p) + l + (IF p.conv = "NUL" THEN 0 ELSE 1)
      /\ \A i \in 1 .. f : x[i] = p.flags[i]
      /\ \A i \in 1 .. w : x[f + i] = WidthText(p)[i]
      /\ \A i \in 1 .. r : x[WidthEnd(p) + i] = PrecisionText(p)[i]
      /\ \A i \in 1 .. l : x[PrecisionEnd(p) + i] = "l"
      /\ p.conv # "NUL" => x[PrecisionEnd(p) + l + 1] = p.conv
  BY TextIs, WidthTextIs, PrecisionTextIs, PartIs, Zenon
<1>2. ~IsDigit("%") /\ ~IsDigit("NUL")
  BY DecimalDigit
<1>3. p.width \in Nat /\ p.prec \in Int /\ p.wstar \in BOOLEAN /\ p.pstar \in BOOLEAN /\ (~p.pstar => p.prec >= -1)
  BY PartIs
<1>4. \A i \in 1 .. f : p.flags[i] \notin {"%", "NUL"}
  <2>1. p.flags \in Seq({"-", "0", "#"}) /\ f = Len(p.flags)
    BY PartIs DEF FlagsEnd
  <2> HIDE DEF f
  <2>2. \A i \in 1 .. f : p.flags[i] \in {"-", "0", "#"}
    BY <2>1
  <2> QED
    BY <2>2
<1>5. \A v \in Nat \ {0} : \A i \in 1 .. Len(Numeral(v, 10)) : Numeral(v, 10)[i] \notin {"%", "NUL"}
  <2>1. \A v \in Nat \ {0} : \A i \in 1 .. Len(Numeral(v, 10)) : IsDigit(Numeral(v, 10)[i])
    BY ReadingIs
  <2> QED
    BY <1>2, <2>1
<1>6. \A i \in 1 .. w : WidthText(p)[i] \notin {"%", "NUL"}
  <2>1. CASE p.wstar
    <3>1. w = 1 /\ WidthText(p)[1] = "*"
      BY <2>1, WidthTextIs
    <3> QED
      BY <3>1
  <2>2. CASE ~p.wstar /\ p.width > 0
    <3>1. WidthText(p) = Numeral(p.width, 10) /\ p.width \in Nat \ {0}
      BY <1>3, <2>2, WidthTextIs
    <3> QED
      BY <1>5, <3>1
  <2>3. CASE ~p.wstar /\ p.width = 0
    <3>1. w = 0
      BY <2>3, WidthTextIs
    <3> QED
      BY <3>1
  <2> QED
    BY <1>3, <2>1, <2>2, <2>3
<1>7. \A i \in 1 .. r : PrecisionText(p)[i] \notin {"%", "NUL"}
  <2>1. CASE p.pstar
    <3>1. r = 2 /\ PrecisionText(p)[1] = "." /\ PrecisionText(p)[2] = "*"
      BY <2>1, PrecisionTextIs DEF HasPrecision
    <3> QED
      BY <3>1
  <2>2. CASE ~p.pstar /\ p.prec >= 0
    <3>1. /\ PrecisionText(p)[1] = "." /\ r = 1 + Len(Numeral(p.prec, 10))
          /\ \A i \in 1 .. Len(Numeral(p.prec, 10)) : PrecisionText(p)[1 + i] = Numeral(p.prec, 10)[i]
          /\ p.prec = 0 => Len(Numeral(p.prec, 10)) = 1 /\ Numeral(p.prec, 10)[1] = "0"
      BY <2>2, PrecisionTextIs DEF HasPrecision
    <3>2. \A i \in 1 .. Len(Numeral(p.prec, 10)) : Numeral(p.prec, 10)[i] \notin {"%", "NUL"}
      <4>1. CASE p.prec = 0
        BY <3>1, <4>1
      <4>2. CASE p.prec # 0
        <5>1. p.prec \in Nat \ {0}
          BY <1>3, <2>2, <4>2
        <5> QED
          BY <1>5, <5>1
      <4> QED
        BY <4>1, <4>2
    <3>3. ASSUME NEW i \in 1 .. r PROVE PrecisionText(p)[i] \notin {"%", "NUL"}
      <4>1. CASE i = 1
        BY <3>1, <4>1
      <4>2. CASE i # 1
        <5> DEFINE q == Len(Numeral(p.prec, 10))
        <5>0. q \in Nat
          <6>1. p.prec \in Nat
            BY <1>3, <2>2
          <6>2. \A v \in Nat \ {0} : Len(Numeral(v, 10)) \in Nat
            BY ReadingIs
          <6> QED
            BY <3>1, <6>1, <6>2
        <5>1. r = 1 + q /\ r \in Nat /\ q \in Nat /\ i \in 1 .. r /\ i # 1
          BY <1>1, <3>1, <4>2, <5>0
        <5> HIDE DEF q, r
        <5>2. i - 1 \in 1 .. q /\ 1 + (i - 1) = i
          BY <5>1
        <5> QED
          BY <3>1, <3>2, <5>2 DEF q
      <4> QED
        BY <4>1, <4>2
    <3> QED
      BY <3>3
  <2>3. CASE ~p.pstar /\ ~(p.prec >= 0)
    <3>1. r = 0
      BY <2>3, PrecisionTextIs DEF HasPrecision
    <3> QED
      BY <3>1
  <2> QED
    BY <1>3, <2>1, <2>2, <2>3
<1> DEFINE e == WidthEnd(p)
           g == PrecisionEnd(p)
<1>8. f \in Nat /\ w \in Nat /\ r \in Nat /\ l \in Nat /\ e = f + w /\ g = e + r
  BY <1>1
<1>9. ASSUME NEW i \in 1 .. g + l PROVE x[i] \notin {"%", "NUL"}
  <2> HIDE DEF f, w, r, l, e, g, x
  <2>1. \/ i \in 1 .. f
        \/ i - f \in 1 .. w /\ i = f + (i - f)
        \/ i - e \in 1 .. r /\ i = e + (i - e)
        \/ i - g \in 1 .. l /\ i = g + (i - g)
    BY <1>8
  <2>2. CASE i \in 1 .. f
    BY <1>1, <1>4, <2>2
  <2>3. CASE i - f \in 1 .. w /\ i = f + (i - f)
    <3>1. x[f + (i - f)] = WidthText(p)[i - f]
      BY <1>1, <2>3
    <3> QED
      BY <1>6, <2>3, <3>1
  <2>4. CASE i - e \in 1 .. r /\ i = e + (i - e)
    <3>1. x[e + (i - e)] = PrecisionText(p)[i - e]
      BY <1>1, <2>4 DEF e
    <3> QED
      BY <1>7, <2>4, <3>1
  <2>5. CASE i - g \in 1 .. l /\ i = g + (i - g)
    <3>1. x[g + (i - g)] = "l"
      BY <1>1, <2>5 DEF g
    <3> QED
      BY <2>5, <3>1
  <2> QED
    BY <2>1, <2>2, <2>3, <2>4, <2>5
<1>10. ASSUME Unknown(p), NEW i \in 1 .. z PROVE x[i] \notin {"%", "NUL"}
  <2>1. CASE p.conv = "NUL"
    <3>1. z = g + l
      BY <1>1, <2>1
    <3> QED
      BY <1>9, <3>1
  <2>2. CASE p.conv # "NUL"
    <3>1. z = g + l + 1 /\ g + l \in Nat
      BY <1>1, <2>2
    <3>2. i \in 1 .. g + l \/ i = g + l + 1
      <4> HIDE DEF g, l, z
      <4> QED
        BY <3>1
    <3>3. p.conv # "%"
      BY <1>10 DEF Unknown
    <3> QED
      BY <1>1, <1>9, <2>2, <3>2, <3>3
  <2> QED
    BY <2>1, <2>2
<1> QED
  BY <1>9, <1>10 DEF x, g, l, z

\* The text after directive k, and what follows it.
LEMMA BetweenIs ==
  ASSUME NEW c \in Printfs, NEW k \in 0 .. Len(c.parts)
  PROVE  LET b == Between(c, k)
             n == Offset(c, k)
         IN  /\ b \in Seq(STRING) /\ Len(b) \in Nat /\ n \in Nat /\ Taken(c, k) \in Nat
             /\ Upto(OutPieces(c), k) \in Seq(STRING)
             /\ \A i \in 1 .. Len(b) : c.fmt[n + i] = b[i] /\ b[i] \notin {"%", "NUL"}
             /\ Len(c.fmt) \in Nat
             /\ k < Len(c.parts) => c.fmt[n + Len(b) + 1] = "%" /\ n + Len(b) + 1 <= Len(c.fmt)
             /\ k = Len(c.parts) => n + Len(b) = Len(c.fmt)
<1> DEFINE z == Len(c.parts)
           n == Offset(c, k)
           b == Between(c, k)
<1>1. z \in Nat /\ k \in 0 .. z
  BY PrintfIs
<1>2. Len(c.fmt) \in Nat
  <2>1. Offset(c, z) \in Nat /\ Len(c.rest) \in Nat /\ Len(c.fmt) = Offset(c, z) + Len(c.rest)
    BY EndsAt, Zenon
  <2> QED
    BY <2>1
<1>3. ASSUME b \in Seq(Plain) PROVE \A i \in 1 .. Len(b) : b[i] \notin {"%", "NUL"}
  BY <1>3 DEF Plain
<1>4. CASE k < z
  <2> DEFINE p == c.parts[k + 1]
  <2>1. k \in 0 .. Len(c.parts) - 1 /\ b = p.before
    BY <1>1, <1>4 DEF Between
  <2>2. /\ p \in Part /\ n \in Nat /\ Len(b) \in Nat /\ Len(Text(p)) \in Nat
        /\ \A i \in 1 .. Len(b) : c.fmt[n + i] = b[i]
        /\ c.fmt[n + Len(b) + 1] = "%"
        /\ Offset(c, k + 1) = n + Len(b) + 1 + Len(Text(p)) /\ Offset(c, k + 1) <= Len(c.fmt)
        /\ Taken(c, k) \in Nat /\ Upto(OutPieces(c), k) \in Seq(STRING)
    <3>1. /\ p \in Part /\ n \in Nat /\ Len(p.before) \in Nat /\ Len(Text(p)) \in Nat
          /\ \A i \in 1 .. Len(p.before) : c.fmt[n + i] = p.before[i]
          /\ c.fmt[n + Len(p.before) + 1] = "%"
          /\ Offset(c, k + 1) = n + Len(p.before) + 1 + Len(Text(p)) /\ Offset(c, k + 1) <= Len(c.fmt)
          /\ Taken(c, k) \in Nat /\ Upto(OutPieces(c), k) \in Seq(STRING)
      BY <2>1, DirectiveAt, Zenon
    <3> HIDE DEF b, n, p
    <3> QED
      BY <2>1, <3>1
  <2>3. b \in Seq(Plain) /\ b \in Seq(STRING)
    BY <2>1, <2>2, PartIs, Zenon
  <2>4. n + Len(b) + 1 <= Len(c.fmt)
    <3> DEFINE l == Len(b)
               x == Len(Text(p))
               y == Len(c.fmt)
    <3>1. n \in Nat /\ l \in Nat /\ x \in Nat /\ y \in Nat /\ n + l + 1 + x <= y
      BY <1>2, <2>2
    <3> HIDE DEF n, l, x, y
    <3>2. n + l + 1 <= y
      BY <3>1
    <3> QED
      BY <3>2 DEF l, y
  <2>5. k # z
    BY <1>1, <1>4
  <2> QED
    BY <1>2, <1>3, <2>2, <2>3, <2>4, <2>5, Zenon
<1>5. CASE k = z
  <2>1. b = c.rest /\ ~(k < z)
    BY <1>1, <1>5 DEF Between
  <2>2. b \in Seq(Plain) /\ b \in Seq(STRING)
    BY <2>1, PrintfIs, Zenon
  <2>3. /\ n \in Nat /\ Len(b) \in Nat /\ Len(c.fmt) = n + Len(b)
        /\ \A i \in 1 .. Len(b) : c.fmt[n + i] = b[i]
        /\ Upto(OutPieces(c), k) \in Seq(STRING)
    BY <1>5, <2>1, EndsAt, Zenon
  <2>4. Taken(c, k) \in Nat
    <3>1. CASE z = 0
      <4>1. Taken(c, 0) = 0
        BY EndsAt, Zenon
      <4> QED
        BY <1>5, <3>1, <4>1
    <3>2. CASE z # 0
      <4>1. z - 1 \in 0 .. Len(c.parts) - 1 /\ z - 1 + 1 = z
        BY <1>1, <3>2
      <4> DEFINE p == c.parts[z - 1 + 1]
      <4>2. p \in Part /\ Taken(c, z - 1) \in Nat /\ Taken(c, z - 1 + 1) = Taken(c, z - 1) + Len(Arguments(p))
        BY <4>1, DirectiveAt, Zenon
      <4>3. Len(Arguments(p)) \in Nat
        BY <4>2, ArgumentsAre, LenProperties, Zenon
      <4> QED
        BY <1>5, <4>1, <4>2, <4>3
    <3> QED
      BY <3>1, <3>2
  <2> QED
    BY <1>2, <1>3, <2>1, <2>2, <2>3, <2>4, Zenon
<1> QED
  BY <1>1, <1>4, <1>5

\* The character that is next in the text between directives.
LEMMA TextCharAt ==
  ASSUME printf \in Printfs, NEW k, NEW b, NEW i, InText(k, b, i)
  PROVE  /\ b \in Seq(STRING) /\ Len(b) \in Nat /\ i \in 0 .. Len(b) /\ i \in Nat /\ fmt \in Nat
         /\ i < Len(b) => ch = b[i + 1] /\ ch \notin {"%", "NUL"}
         /\ i = Len(b) => ch = IF k < Len(printf.parts) THEN "%" ELSE "NUL"
<1> DEFINE c == printf
           n == Offset(c, k)
           l == Len(b)
           y == Len(c.fmt)
           z == Len(c.parts)
<1>1. k \in 0 .. z /\ b = Between(c, k) /\ i \in 0 .. l /\ fmt = n + i
  BY DEF InText
<1>2. /\ b \in Seq(STRING) /\ l \in Nat /\ n \in Nat
      /\ \A j \in 1 .. l : c.fmt[n + j] = b[j] /\ b[j] \notin {"%", "NUL"}
      /\ y \in Nat
      /\ k < z => c.fmt[n + l + 1] = "%" /\ n + l + 1 <= y
      /\ k = z => n + l = y
  BY <1>1, BetweenIs, Zenon
<1>3. ch = IF fmt < y THEN c.fmt[fmt + 1] ELSE "NUL"
  BY DEF ch
<1>4. z \in Nat
  BY PrintfIs
<1>5. k < z \/ k = z
  BY <1>1, <1>4
<1> HIDE DEF c, n, l, y, z
<1>6. ASSUME i < l PROVE ch = b[i + 1] /\ ch \notin {"%", "NUL"}
  <2>1. i + 1 \in 1 .. l /\ fmt + 1 = n + (i + 1)
    BY <1>1, <1>2, <1>6
  <2>2. fmt < y
    BY <1>1, <1>2, <1>5, <1>6
  <2> QED
    BY <1>2, <1>3, <2>1, <2>2
<1>7. ASSUME i = l PROVE ch = IF k < z THEN "%" ELSE "NUL"
  BY <1>1, <1>2, <1>3, <1>4, <1>5, <1>7
<1>8. i \in Nat /\ fmt \in Nat
  BY <1>1, <1>2
<1> QED
  BY <1>1, <1>2, <1>6, <1>7, <1>8 DEF l, z, c

\* What a step into the text between directives, or within it, leads to.
LEMMA IntoText ==
  ASSUME printf \in Printfs, NEW k \in 0 .. Len(printf.parts), NEW b, b = Between(printf, k), NEW i \in 0 .. Len(b),
         printf' = printf, fmt' = Offset(printf, k) + i, ap' = Taken(printf, k),
         AllExact(printf) => out' = Upto(OutPieces(printf), k) \o SubSeq(b, 1, i)
  PROVE  InText(k, b, i)'
<1>1. Offset(printf, k)' = Offset(printf, k) /\ Taken(printf, k)' = Taken(printf, k)
  OBVIOUS
<1>2. b = Between(printf, k)'
  OBVIOUS
<1>3. fmt' = (Offset(printf, k) + i)' /\ ap' = Taken(printf, k)'
  BY <1>1
<1>4. Printed(k, SubSeq(b, 1, i))'
  BY DEF Printed
<1>5. k \in (0 .. Len(printf.parts))'
  OBVIOUS
<1> QED
  BY <1>2, <1>3, <1>4, <1>5 DEF InText

\* The same at the beginning of the text.
LEMMA IntoNext ==
  ASSUME printf \in Printfs, NEW k \in 0 .. Len(printf.parts),
         printf' = printf, fmt' = Offset(printf, k), ap' = Taken(printf, k),
         AllExact(printf) => out' = Upto(OutPieces(printf), k)
  PROVE  \E b : InText(k, b, 0)'
<1> DEFINE b == Between(printf, k)
           u == Upto(OutPieces(printf), k)
<1>1. PICK bb : bb = b
  OBVIOUS
<1>2. b \in Seq(STRING) /\ Len(b) \in Nat /\ u \in Seq(STRING) /\ Offset(printf, k) \in Nat
  BY BetweenIs, Zenon
<1>3. SubSeq(b, 1, 0) = <<>>
  <2>1. SubSeq(b, 1, 0) \in Seq(STRING) /\ Len(SubSeq(b, 1, 0)) = 0
    BY <1>2, FirstOf
  <2> QED
    BY <2>1, EmptySeq, Zenon
<1>4. u \o SubSeq(b, 1, 0) = u
  BY <1>2, <1>3, NoText, Zenon
<1>5. 0 \in 0 .. Len(b) /\ Offset(printf, k) + 0 = Offset(printf, k)
  BY <1>2
<1>6. InText(k, bb, 0)'
  <2>1. /\ bb = Between(printf, k) /\ 0 \in 0 .. Len(bb) /\ fmt' = Offset(printf, k) + 0
        /\ AllExact(printf) => out' = Upto(OutPieces(printf), k) \o SubSeq(bb, 1, 0)
    BY <1>1, <1>4, <1>5
  <2> HIDE DEF b, u
  <2> QED
    BY <2>1, IntoText
<1> QED
  BY <1>6

\* What something is printed by.
Printing == (\E t \in Seq(STRING) : putch(t)) /\ UNCHANGED <<printf, via>>

\* The first of a text, and one more.
LEMMA OneFurther ==
  \A t \in Seq(STRING) : \A n \in 0 .. Len(t) - 1 :
     /\ SubSeq(t, 1, n) \in Seq(STRING) /\ <<t[n + 1]>> \in Seq(STRING)
     /\ SubSeq(t, 1, n) \o <<t[n + 1]>> = SubSeq(t, 1, n + 1)
<1> DEFINE A == STRING
<1>1. \A t \in Seq(A) : \A n \in 0 .. Len(t) :
        SubSeq(t, 1, n) \in Seq(A) /\ Len(SubSeq(t, 1, n)) = n /\ \A i \in 1 .. n : SubSeq(t, 1, n)[i] = t[i]
  BY FirstOf, Zenon
<1> HIDE DEF A
<1>2. ASSUME NEW t \in Seq(A), NEW n \in 0 .. Len(t) - 1
      PROVE  /\ SubSeq(t, 1, n) \in Seq(A) /\ <<t[n + 1]>> \in Seq(A)
             /\ SubSeq(t, 1, n) \o <<t[n + 1]>> = SubSeq(t, 1, n + 1)
  <2> DEFINE u == SubSeq(t, 1, n)
             u2 == SubSeq(t, 1, n + 1)
             y == t[n + 1]
  <2>1. n \in Nat /\ n \in 0 .. Len(t) /\ n + 1 \in 0 .. Len(t) /\ n + 1 \in 1 .. Len(t)
    BY <1>2
  <2>2. /\ u \in Seq(A) /\ Len(u) = n /\ u2 \in Seq(A) /\ Len(u2) = n + 1 /\ y \in A
        /\ (\A j \in 1 .. n : u[j] = t[j]) /\ \A j \in 1 .. n + 1 : u2[j] = t[j]
    BY <1>1, <1>2, <2>1
  <2>3. u2[n + 1] = y
    BY <2>1, <2>2
  <2> HIDE DEF u, u2, y
  <2>4. /\ u \o <<y>> \in Seq(A) /\ Len(u \o <<y>>) = n + 1
        /\ \A j \in 1 .. n : (u \o <<y>>)[j] = u[j]
        /\ (u \o <<y>>)[n + 1] = y
    <3>1. /\ u \o <<y>> \in Seq(A) /\ Len(u \o <<y>>) = Len(u) + 1
          /\ \A j \in 1 .. Len(u) : (u \o <<y>>)[j] = u[j]
          /\ (u \o <<y>>)[Len(u) + 1] = y
      BY <2>2, OneMore
    <3> QED
      BY <2>2, <3>1
  <2>5. ASSUME NEW j \in 1 .. n + 1 PROVE (u \o <<y>>)[j] = u2[j]
    <3>1. (j \in 1 .. n \/ j = n + 1) /\ j \in 1 .. n + 1
      BY <2>1
    <3> QED
      BY <2>2, <2>3, <2>4, <3>1
  <2>6. u \o <<y>> = u2
    BY <2>2, <2>4, <2>5, SeqEqual
  <2>7. <<y>> \in Seq(A)
    BY <2>2, Single
  <2> QED
    BY <2>2, <2>6, <2>7 DEF u, u2, y
<1> QED
  BY <1>2, Zenon DEF A

\* The next character of the text, which is printed.
LEMMA CharStep ==
  ASSUME printf \in Printfs, NEW k, NEW b, NEW i, InText(k, b, i), i < Len(b), mode = "text", PrintNext
  PROVE  InText(k, b, i + 1)' /\ mode' = "text" /\ Printing
<1>1. /\ k \in 0 .. Len(printf.parts) /\ b = Between(printf, k) /\ i \in 0 .. Len(b)
      /\ fmt = Offset(printf, k) + i /\ ap = Taken(printf, k)
      /\ Printed(k, SubSeq(b, 1, i))
  BY DEF InText
<1>2. b \in Seq(STRING) /\ Len(b) \in Nat /\ i \in Nat /\ ch = b[i + 1] /\ ch \notin {"%", "NUL"}
  BY TextCharAt
<1>3. TextChar
  BY <1>2, StepIs
<1>4. /\ putch(<<ch>>) /\ out' = out \o <<ch>> /\ fmt' = fmt + 1 /\ ap' = ap /\ mode' = "text"
      /\ UNCHANGED <<printf, via>>
  BY <1>3 DEF TextChar, putch
<1>5. i + 1 \in 0 .. Len(b) /\ i + 1 \in 1 .. Len(b)
  BY <1>1, <1>2
<1> DEFINE u == SubSeq(b, 1, i)
           u2 == SubSeq(b, 1, i + 1)
           o == Upto(OutPieces(printf), k)
<1>6. o \in Seq(STRING) /\ Offset(printf, k) \in Nat
  BY <1>1, BetweenIs, Zenon
<1>7. u \in Seq(STRING) /\ <<ch>> \in Seq(STRING) /\ u \o <<ch>> = u2
  <2>1. i \in 0 .. Len(b) - 1
    BY <1>1, <1>2
  <2> QED
    BY <1>2, <2>1, OneFurther, Zenon
<1>8. AllExact(printf) => out' = o \o u2
  <2>1. (o \o u) \o <<ch>> = o \o (u \o <<ch>>)
    BY <1>6, <1>7, Grouped, Zenon
  <2>2. AllExact(printf) => out = o \o u
    BY <1>1 DEF Printed
  <2> QED
    BY <1>4, <1>7, <2>1, <2>2
<1>9. fmt' = Offset(printf, k) + (i + 1)
  BY <1>1, <1>2, <1>4, <1>6
<1>10. InText(k, b, i + 1)'
  <2> DEFINE j == i + 1
  <2>1. j \in 0 .. Len(b) /\ fmt' = Offset(printf, k) + j /\ ap' = Taken(printf, k)
        /\ (AllExact(printf) => out' = Upto(OutPieces(printf), k) \o SubSeq(b, 1, j))
    BY <1>1, <1>4, <1>5, <1>8, <1>9
  <2> HIDE DEF j
  <2>2. InText(k, b, j)'
    BY <1>1, <1>4, <2>1, IntoText
  <2> QED
    BY <2>2 DEF j
<1> QED
  BY <1>4, <1>7, <1>10 DEF Printing

\* What has been printed at the end of the text.
LEMMA TextEnds ==
  ASSUME printf \in Printfs, NEW k, NEW b, InText(k, b, Len(b))
  PROVE  Printed(k, b)
<1>1. k \in 0 .. Len(printf.parts) /\ b = Between(printf, k) /\ Printed(k, SubSeq(b, 1, Len(b)))
  BY DEF InText
<1>2. b \in Seq(STRING) /\ Len(b) \in Nat
  BY <1>1, BetweenIs, Zenon
<1>3. SubSeq(b, 1, Len(b)) = b
  <2> DEFINE A == STRING
             x == SubSeq(b, 1, Len(b))
  <2>1. Len(b) \in 0 .. Len(b)
    BY <1>2
  <2>2. x \in Seq(A) /\ b \in Seq(A) /\ Len(x) = Len(b) /\ \A j \in 1 .. Len(b) : x[j] = b[j]
    BY <1>2, <2>1, FirstOf, Zenon
  <2> HIDE DEF A, x
  <2>3. x = b
    BY <2>2, SeqEqual
  <2> QED
    BY <2>3 DEF x
<1> QED
  BY <1>1, <1>3

\* The percent sign of the next directive.
LEMMA PercentStep ==
  ASSUME printf \in Printfs, NEW k, NEW b, InText(k, b, Len(b)), k < Len(printf.parts), mode = "text", PrintNext
  PROVE  \E p : InFlags(k, p, 0)' /\ Quiet
<1> DEFINE q == printf.parts[k + 1]
<1>1. /\ k \in 0 .. Len(printf.parts) /\ b = Between(printf, k)
      /\ fmt = Offset(printf, k) + Len(b) /\ ap = Taken(printf, k)
  BY DEF InText
<1>2. ch = "%"
  BY TextCharAt
<1>3. Percent
  BY <1>2, StepIs
<1>4. /\ mode' = "switch" /\ fmt' = fmt + 1 /\ padc' = " " /\ width' = -1 /\ precision' = -1 /\ lflag' = 0
      /\ altflag' = FALSE /\ UNCHANGED <<printf, via, ap, sink, out>>
  BY <1>3 DEF Percent
<1>5. Printed(k, b)
  BY TextEnds
<1>6. k \in 0 .. Len(printf.parts) - 1
  <2>1. Len(printf.parts) \in Nat
    BY PrintfIs
  <2> QED
    BY <1>1, <2>1
<1>7. b = q.before
  BY <1>1 DEF Between
<1>8. /\ q \in Part /\ Offset(printf, k) \in Nat /\ Len(q.before) \in Nat /\ Taken(printf, k) \in Nat
  BY <1>6, DirectiveAt, Zenon
<1>9. PICK p : p = q
  OBVIOUS
<1>10. At(k, p, 0)'
  <2>1. Offset(printf, k)' = Offset(printf, k)
    BY <1>4
  <2>2. fmt' = Offset(printf, k) + Len(p.before) + 1 + 0
    <3> DEFINE n == Offset(printf, k)
               l == Len(p.before)
    <3>1. fmt' = n + l + 1 /\ n \in Nat /\ l \in Nat
      BY <1>1, <1>4, <1>7, <1>8, <1>9
    <3> HIDE DEF n, l
    <3>2. fmt' = n + l + 1 + 0
      BY <3>1
    <3> QED
      BY <3>2 DEF n, l
  <2> QED
    BY <2>1, <2>2 DEF At
<1>11. Printed(k, p.before)'
  BY <1>4, <1>5, <1>7, <1>9 DEF Printed
<1>12. ap' = (Taken(printf, k) + 0)'
  <2>1. Taken(printf, k)' = Taken(printf, k)
    BY <1>4
  <2>2. ap' = Taken(printf, k) + 0
    <3>1. Taken(printf, k) + 0 = Taken(printf, k)
      <4>1. \A x \in Nat : x + 0 = x
        OBVIOUS
      <4> QED
        BY <1>8, <4>1, Zenon
    <3> QED
      BY <1>1, <1>4, <3>1, Zenon
  <2> QED
    BY <2>1, <2>2
<1>13. Directive(k, p, 0, -1, -1, 0, 0)'
  BY <1>4, <1>6, <1>9, <1>10, <1>11, <1>12 DEF Directive, PadChars
<1>14. HasFlags(p, 0)'
  <2>1. \A x : Seen(p, 0, x) = FALSE
    BY DEF Seen
  <2> QED
    BY <1>4, <2>1 DEF HasFlags, Padding
<1>15. 0 \in 0 .. FlagsEnd(p)
  BY <1>8, <1>9, TextIs
<1> QED
  BY <1>4, <1>13, <1>14, <1>15 DEF InFlags, Quiet

\* The end of the format.
LEMMA EndStep ==
  ASSUME printf \in Printfs, NEW k, NEW b, InText(k, b, Len(b)), ~(k < Len(printf.parts)), mode = "text", PrintNext
  PROVE  Finish /\ Printed(Len(printf.parts), printf.rest)
<1>1. k \in 0 .. Len(printf.parts) /\ b = Between(printf, k)
  BY DEF InText
<1>2. Len(printf.parts) \in Nat
  BY PrintfIs
<1>3. k = Len(printf.parts) /\ b = printf.rest
  BY <1>1, <1>2 DEF Between
<1>4. ch = "NUL"
  BY TextCharAt
<1>5. Finish
  BY <1>4, StepIs
<1>6. Printed(k, b)
  BY TextEnds
<1> QED
  BY <1>3, <1>5, <1>6

\* One more "l" is taken.
LEMMA LongStep ==
  ASSUME printf \in Printfs, NEW k, NEW p, NEW i \in Nat, InEnding(k, p, i), i < p.longs, PrintNext
  PROVE  InEnding(k, p, i + 1)' /\ Quiet
<1> DEFINE e == PrecisionEnd(p)
           n == Stars(p)
           w == WidthAtEnd(p)
           r == PrecisionOf(p)
<1>1. /\ mode = "switch" /\ i \in 0 .. p.longs /\ Directive(k, p, e + i, w, r, i, n)
      /\ NoPrecision(p) \/ Padding(p, FlagsEnd(p))
      /\ altflag = Seen(p, FlagsEnd(p), "#")
  BY DEF InEnding
<1>2. n \in Nat
  BY DEF Stars, WidthStars
<1>3. /\ k \in 0 .. Len(printf.parts) - 1 /\ p = printf.parts[k + 1] /\ p \in Part /\ At(k, p, e + i)
      /\ padc \in PadChars /\ width = w /\ precision = r /\ lflag = i
      /\ ap \in Nat
  BY <1>1, <1>2, WithinIs, Zenon
<1>4. e \in Nat /\ p.longs \in Nat
  BY <1>3, TextIs, PartIs, Zenon
<1>5. ch = "l"
  BY <1>1, <1>3, CharAt
<1>6. Flag
  BY <1>1, <1>5, StepIs
<1>7. /\ width' = w /\ precision' = r /\ lflag' = i + 1 /\ ap' = ap /\ fmt' = fmt + 1
      /\ padc' = padc /\ mode' = mode
  BY <1>3, <1>5, <1>6 DEF Flag
<1>8. altflag' = altflag
  <2>1. altflag \in BOOLEAN
    BY <1>1 DEF Seen
  <2>2. altflag' = (altflag \/ ch = "#")
    BY <1>6 DEF Flag
  <2> QED
    BY <1>5, <2>1, <2>2
<1>9. Quiet
  BY <1>6 DEF Flag, Quiet
<1>10. Directive(k, p, e + (i + 1), w, r, i + 1, n)'
  <2>1. /\ UNCHANGED <<printf, out>> /\ padc' \in PadChars /\ e + i \in Int /\ n \in Int /\ 0 \in Int /\ 1 \in Int
        /\ ap' = ap + 0 /\ n + 0 = n /\ e + i + 1 = e + (i + 1)
    BY <1>2, <1>3, <1>4, <1>7, <1>9 DEF Quiet
  <2> DEFINE l == i + 1
  <2>2. lflag' = l
    BY <1>7
  <2> HIDE DEF e, n, w, r, l
  <2>3. Directive(k, p, e + i + 1, w, r, l, n + 0)'
    BY <1>1, <1>7, <2>1, <2>2, Within
  <2>4. Directive(k, p, e + (i + 1), w, r, l, n)'
    BY <2>1, <2>3
  <2> QED
    BY <2>4 DEF l
<1>11. i + 1 \in 0 .. p.longs
  BY <1>1, <1>4
<1>12. (NoPrecision(p) \/ Padding(p, FlagsEnd(p)))'
  BY <1>1, <1>7 DEF Padding
<1> QED
  BY <1>1, <1>7, <1>8, <1>9, <1>10, <1>11, <1>12 DEF InEnding

\* What holds at the conversion.
LEMMA AtConversion ==
  ASSUME printf \in Printfs, NEW k, NEW p, InEnding(k, p, p.longs)
  PROVE  /\ mode = "switch" /\ k \in 0 .. Len(printf.parts) - 1 /\ p = printf.parts[k + 1] /\ p \in Part
         /\ ch = p.conv /\ p.longs \in Nat /\ PrecisionEnd(p) \in Nat
         /\ Offset(printf, k) \in Nat /\ Len(p.before) \in Nat /\ Len(Text(p)) \in Nat
         /\ Taken(printf, k) \in Nat
         /\ fmt = Offset(printf, k) + Len(p.before) + 1 + (PrecisionEnd(p) + p.longs)
         /\ Offset(printf, k + 1) = Offset(printf, k) + Len(p.before) + 1 + Len(Text(p))
         /\ p.conv # "NUL" => Offset(printf, k + 1) = fmt + 1
         /\ padc \in PadChars /\ lflag = p.longs /\ width = WidthAtEnd(p) /\ precision = PrecisionOf(p)
         /\ altflag = Seen(p, FlagsEnd(p), "#")
         /\ Exact(p) => Padding(p, FlagsEnd(p))
         /\ IF p.conv \in Conversions THEN va_arg = p.arg /\ Taken(printf, k + 1) = ap + 1
                                      ELSE Taken(printf, k + 1) = ap
         /\ Printed(k, p.before)
<1> DEFINE e == PrecisionEnd(p)
           n == Stars(p)
           l == p.longs
<1>1. /\ mode = "switch" /\ l \in 0 .. l /\ Directive(k, p, e + l, WidthAtEnd(p), PrecisionOf(p), l, n)
      /\ NoPrecision(p) \/ Padding(p, FlagsEnd(p))
      /\ altflag = Seen(p, FlagsEnd(p), "#")
  BY DEF InEnding
<1>2. n \in Nat
  BY DEF Stars, WidthStars
<1>3. /\ k \in 0 .. Len(printf.parts) - 1 /\ p = printf.parts[k + 1] /\ p \in Part /\ At(k, p, e + l)
      /\ padc \in PadChars /\ width = WidthAtEnd(p) /\ precision = PrecisionOf(p) /\ lflag = l
      /\ ap \in Nat /\ ap = Taken(printf, k) + n
      /\ n < Len(Arguments(p)) => va_arg = Arguments(p)[n + 1]
  BY <1>1, <1>2, WithinIs, Zenon
<1>4. e \in Nat /\ l \in Nat /\ Len(Text(p)) = e + l + (IF p.conv = "NUL" THEN 0 ELSE 1)
  BY <1>3, TextIs, PartIs, Zenon
<1>5. ch = p.conv
  BY <1>1, <1>3, <1>4, CharAt
<1>6. /\ Offset(printf, k) \in Nat /\ Len(p.before) \in Nat /\ Len(Text(p)) \in Nat
      /\ Offset(printf, k + 1) = Offset(printf, k) + Len(p.before) + 1 + Len(Text(p))
      /\ Taken(printf, k) \in Nat /\ Taken(printf, k + 1) = Taken(printf, k) + Len(Arguments(p))
  BY <1>3, DirectiveAt, Zenon
<1>7. fmt = Offset(printf, k) + Len(p.before) + 1 + (e + l)
  BY <1>3 DEF At
<1>8. p.conv # "NUL" => Offset(printf, k + 1) = fmt + 1
  <2> DEFINE x == Offset(printf, k)
             y == Len(p.before)
             z == Len(Text(p))
             o == Offset(printf, k + 1)
  <2>1. /\ x \in Nat /\ y \in Nat /\ z \in Nat /\ e \in Nat /\ l \in Nat
        /\ fmt = x + y + 1 + (e + l) /\ o = x + y + 1 + z /\ (p.conv # "NUL" => z = e + l + 1)
    BY <1>4, <1>6, <1>7
  <2> HIDE DEF x, y, z, e, l, o
  <2>2. p.conv # "NUL" => o = fmt + 1
    BY <2>1
  <2> QED
    BY <2>2 DEF o
<1>9. Exact(p) => Padding(p, FlagsEnd(p))
  BY <1>1 DEF Exact
<1>10. /\ Len(Arguments(p)) = n + (IF p.conv \in Conversions THEN 1 ELSE 0)
       /\ p.conv \in Conversions => Arguments(p)[n + 1] = p.arg
  BY <1>3, ArgumentsAre, Zenon
<1>11. IF p.conv \in Conversions THEN va_arg = p.arg /\ Taken(printf, k + 1) = ap + 1
                                 ELSE Taken(printf, k + 1) = ap
  <2>1. CASE p.conv \in Conversions
    <3>1. Len(Arguments(p)) = n + 1 /\ n < n + 1
      BY <1>2, <1>10, <2>1
    <3>2. Taken(printf, k) + (n + 1) = Taken(printf, k) + n + 1
      BY <1>2, <1>6
    <3> QED
      BY <1>3, <1>6, <1>10, <2>1, <3>1, <3>2
  <2>2. CASE p.conv \notin Conversions
    <3>1. Len(Arguments(p)) = n
      BY <1>2, <1>10, <2>2
    <3> QED
      BY <1>3, <1>6, <2>2, <3>1
  <2> QED
    BY <2>1, <2>2
<1>12. Printed(k, p.before)
  BY <1>1 DEF Directive
<1> QED
  BY <1>1, <1>3, <1>4, <1>5, <1>6, <1>7, <1>8, <1>9, <1>11, <1>12, Zenon

\* What has been printed when what a directive means has.
LEMMA MeaningAppended ==
  ASSUME printf \in Printfs, NEW k \in 0 .. Len(printf.parts) - 1, NEW p, p = printf.parts[k + 1],
         Printed(k, p.before), NEW t, Exact(p) => t = Meaning(p)
  PROVE  AllExact(printf) => out \o t = Upto(OutPieces(printf), k + 1)
<1> DEFINE o == Upto(OutPieces(printf), k)
           m == Meaning(p)
<1>1. SUFFICES ASSUME AllExact(printf) PROVE out \o t = Upto(OutPieces(printf), k + 1)
  OBVIOUS
<1>2. p \in Part /\ o \in Seq(STRING) /\ Upto(OutPieces(printf), k + 1) = o \o (p.before \o m)
  BY DirectiveAt, Zenon
<1>3. Exact(p)
  <2>1. k + 1 \in DOMAIN printf.parts
    <3>1. DOMAIN printf.parts = 1 .. Len(printf.parts) /\ Len(printf.parts) \in Nat
      BY PrintfIs
    <3> QED
      BY <3>1
  <2> QED
    BY <1>1, <2>1 DEF AllExact
<1>4. out = o \o p.before
  BY <1>1 DEF Printed
<1>5. p.before \in Seq(STRING) /\ m \in Seq(STRING)
  BY <1>2, PartIs, MeaningIs, Zenon
<1>6. (o \o p.before) \o m = o \o (p.before \o m)
  BY <1>2, <1>5, Grouped, Zenon
<1> QED
  BY <1>2, <1>3, <1>4, <1>6

\* A conversion or "%": what it means is printed.
LEMMA ConversionStep ==
  ASSUME printf \in Printfs, NEW k, NEW p, InEnding(k, p, p.longs), ~Unknown(p), PrintNext
  PROVE  (\E b : InText(k + 1, b, 0)') /\ mode' = "text" /\ Printing
<1>1. /\ mode = "switch" /\ k \in 0 .. Len(printf.parts) - 1 /\ p = printf.parts[k + 1] /\ p \in Part
      /\ ch = p.conv
      /\ p.conv # "NUL" => Offset(printf, k + 1) = fmt + 1
      /\ padc \in PadChars /\ lflag = p.longs /\ width = WidthAtEnd(p) /\ precision = PrecisionOf(p)
      /\ altflag = Seen(p, FlagsEnd(p), "#")
      /\ Exact(p) => Padding(p, FlagsEnd(p))
      /\ IF p.conv \in Conversions THEN va_arg = p.arg /\ Taken(printf, k + 1) = ap + 1
                                   ELSE Taken(printf, k + 1) = ap
      /\ Printed(k, p.before)
  BY AtConversion, Zenon
<1>2. k + 1 \in 0 .. Len(printf.parts)
  <2>1. Len(printf.parts) \in Nat
    BY PrintfIs
  <2> QED
    BY <1>1, <2>1
<1>3. CASE p.conv \in Conversions
  <2>1. Conversion
    BY <1>1, <1>3, StepIs
  <2>2. /\ putch(Converted(p.arg)) /\ ap' = ap + 1 /\ fmt' = fmt + 1 /\ mode' = "text" /\ UNCHANGED <<printf, via>>
    BY <1>1, <1>3, <2>1 DEF Conversion
  <2>3. /\ Converted(p.arg) \in Seq(STRING)
        /\ Exact(p) => Converted(p.arg) = Meaning(p)
    BY <1>1, <1>3, ConvertedIs
  <2> DEFINE t == Converted(p.arg)
  <2>4. out' = out \o t
    BY <2>2 DEF putch
  <2>5. AllExact(printf) => out' = Upto(OutPieces(printf), k + 1)
    <3>1. PICK u : u = t
      OBVIOUS
    <3>2. Exact(p) => u = Meaning(p)
      BY <2>3, <3>1
    <3>3. AllExact(printf) => out \o u = Upto(OutPieces(printf), k + 1)
      BY <1>1, <3>2, MeaningAppended
    <3> QED
      BY <2>4, <3>1, <3>3
  <2>6. "NUL" \notin Conversions
    BY DEF Conversions
  <2>7. \E b : InText(k + 1, b, 0)'
    <3> DEFINE j == k + 1
    <3>1. /\ j \in 0 .. Len(printf.parts) /\ printf' = printf /\ fmt' = Offset(printf, j) /\ ap' = Taken(printf, j)
          /\ AllExact(printf) => out' = Upto(OutPieces(printf), j)
      BY <1>1, <1>2, <1>3, <2>2, <2>5, <2>6
    <3> HIDE DEF j
    <3>2. \E b : InText(j, b, 0)'
      BY <3>1, IntoNext
    <3> QED
      BY <3>2 DEF j
  <2> QED
    BY <2>2, <2>3, <2>7 DEF Printing
<1>4. CASE p.conv \notin Conversions
  <2>1. p.conv = "%"
    BY <1>4 DEF Unknown
  <2>2. PercentSign
    BY <1>1, <2>1, StepIs
  <2>3. /\ putch(<<"%">>) /\ ap' = ap /\ fmt' = fmt + 1 /\ mode' = "text" /\ UNCHANGED <<printf, via>>
        /\ out' = out \o <<"%">>
    BY <2>2 DEF PercentSign, putch
  <2>4. <<"%">> \in Seq(STRING)
    <3>1. "%" \in STRING
      BY CharacterIs, Zenon
    <3> QED
      BY <3>1, Single, Zenon
  <2>5. Meaning(p) = <<"%">>
    BY <2>1 DEF Meaning, Numeric
  <2>6. AllExact(printf) => out' = Upto(OutPieces(printf), k + 1)
    BY <1>1, <2>3, <2>5, MeaningAppended
  <2>7. \E b : InText(k + 1, b, 0)'
    <3> DEFINE j == k + 1
    <3>1. /\ j \in 0 .. Len(printf.parts) /\ printf' = printf /\ fmt' = Offset(printf, j) /\ ap' = Taken(printf, j)
          /\ AllExact(printf) => out' = Upto(OutPieces(printf), j)
      BY <1>1, <1>2, <1>4, <2>1, <2>3, <2>6
    <3> HIDE DEF j
    <3>2. \E b : InText(j, b, 0)'
      BY <3>1, IntoNext
    <3> QED
      BY <3>2 DEF j
  <2> QED
    BY <2>3, <2>4, <2>7 DEF Printing
<1> QED
  BY <1>3, <1>4

\* Where AfterPercent goes back to.
LEMMA BackTo ==
  ASSUME NEW f \in Nat, fmt = f, NEW m \in 1 .. f, printf.fmt[m] = "%", \A j \in m + 1 .. f : printf.fmt[j] # "%"
  PROVE  AfterPercent = m
<1> DEFINE P(x) == printf.fmt[x] = "%" /\ \A j \in x + 1 .. fmt : printf.fmt[j] # "%"
<1>1. m \in 1 .. fmt /\ P(m)
  OBVIOUS
<1>2. ASSUME NEW x \in 1 .. fmt, P(x) PROVE x = m
  <2>1. CASE x < m
    <3>1. m \in x + 1 .. fmt
      BY <2>1
    <3> QED
      BY <1>2, <3>1
  <2>2. CASE x > m
    <3>1. x \in m + 1 .. f
      BY <2>2
    <3> QED
      BY <1>2, <3>1
  <2> QED
    BY <2>1, <2>2
<1>3. AfterPercent = CHOOSE x \in 1 .. fmt : P(x)
  BY DEF AfterPercent
<1> HIDE DEF P
<1> QED
  BY <1>1, <1>2, <1>3

\* What an unrecognised directive is printed as.
LEMMA UnknownMeans ==
  ASSUME NEW p \in Part, Unknown(p)
  PROVE  Meaning(p) = <<"%">> \o Text(p)
<1>1. p.conv \notin {"d", "u", "o", "x", "p", "s", "c", "e", "%"}
  BY DEF Unknown, Conversions
<1> QED
  BY <1>1 DEF Meaning, Numeric

\* A step into the text of an unrecognised directive, or past it.
LEMMA IntoUnknown ==
  ASSUME printf \in Printfs, NEW k \in 0 .. Len(printf.parts) - 1, NEW p, p = printf.parts[k + 1], Unknown(p),
         NEW t \in 0 .. Len(Text(p)),
         printf' = printf, fmt' = Offset(printf, k) + Len(p.before) + 1 + t, ap' = Taken(printf, k + 1),
         AllExact(printf) => out' = Upto(OutPieces(printf), k) \o (p.before \o (<<"%">> \o SubSeq(Text(p), 1, t)))
  PROVE  IF t < Len(Text(p)) THEN InUnknown(k, p, t)' ELSE \E b : InText(k + 1, b, 0)'
<1>1. /\ p \in Part /\ Len(Text(p)) \in Nat
      /\ Offset(printf, k + 1) = Offset(printf, k) + Len(p.before) + 1 + Len(Text(p))
      /\ Upto(OutPieces(printf), k + 1) = Upto(OutPieces(printf), k) \o (p.before \o Meaning(p))
  BY DirectiveAt, Zenon
<1>2. CASE t < Len(Text(p))
  <2>1. Offset(printf, k)' = Offset(printf, k) /\ Taken(printf, k + 1)' = Taken(printf, k + 1)
    OBVIOUS
  <2>2. At(k, p, t)'
    BY <2>1 DEF At
  <2>3. ap' = Taken(printf, k + 1)'
    BY <2>1
  <2>4. Printed(k, p.before \o (<<"%">> \o SubSeq(Text(p), 1, t)))'
    BY DEF Printed
  <2>5. t \in 0 .. Len(Text(p)) - 1
    BY <1>1, <1>2
  <2>6. k \in (0 .. Len(printf.parts) - 1)' /\ p = (printf.parts[k + 1])'
    OBVIOUS
  <2>7. InUnknown(k, p, t)'
    BY <2>2, <2>3, <2>4, <2>5, <2>6 DEF InUnknown
  <2> QED
    BY <1>2, <2>7
<1>3. CASE ~(t < Len(Text(p)))
  <2>1. t = Len(Text(p))
    BY <1>1, <1>3
  <2>2. SubSeq(Text(p), 1, t) = Text(p)
    <3> DEFINE A == STRING
               y == Text(p)
               x == SubSeq(y, 1, t)
    <3>1. y \in Seq(STRING)
      BY <1>1, TextIs
    <3>2. x \in Seq(A) /\ y \in Seq(A) /\ Len(x) = Len(y) /\ \A j \in 1 .. Len(x) : x[j] = y[j]
      <4>1. x \in Seq(STRING) /\ Len(x) = t /\ \A j \in 1 .. t : x[j] = y[j]
        BY <3>1, FirstOf, Zenon
      <4> QED
        BY <2>1, <3>1, <4>1, Zenon
    <3> HIDE DEF A, x, y
    <3>3. x = y
      BY <3>2, SeqEqual
    <3> QED
      BY <3>3 DEF x, y
  <2>3. AllExact(printf) => out' = Upto(OutPieces(printf), k + 1)
    BY <1>1, <2>2, UnknownMeans
  <2>4. fmt' = Offset(printf, k + 1)
    BY <1>1, <2>1
  <2>5. k + 1 \in 0 .. Len(printf.parts)
    <3>1. Len(printf.parts) \in Nat
      BY PrintfIs
    <3> QED
      BY <3>1
  <2>6. \E b : InText(k + 1, b, 0)'
    <3> DEFINE j == k + 1
    <3>1. /\ j \in 0 .. Len(printf.parts) /\ printf' = printf /\ fmt' = Offset(printf, j) /\ ap' = Taken(printf, j)
          /\ AllExact(printf) => out' = Upto(OutPieces(printf), j)
      BY <2>3, <2>4, <2>5
    <3> HIDE DEF j
    <3>2. \E b : InText(j, b, 0)'
      BY <3>1, IntoNext
    <3> QED
      BY <3>2 DEF j
  <2> QED
    BY <1>3, <2>6
<1> QED
  BY <1>2, <1>3

\* A directive that is not recognised: back to its percent sign.
LEMMA UnrecognizedStep ==
  ASSUME printf \in Printfs, NEW k, NEW p, InEnding(k, p, p.longs), Unknown(p), PrintNext
  PROVE  InUnknown(k, p, 0)' \/ (\E b : InText(k + 1, b, 0)')
<1> DEFINE n == Offset(printf, k)
           y == Len(p.before)
           x == Text(p)
           g == PrecisionEnd(p) + p.longs
           m == n + y + 1
<1>1. /\ mode = "switch" /\ k \in 0 .. Len(printf.parts) - 1 /\ p = printf.parts[k + 1] /\ p \in Part
      /\ ch = p.conv /\ p.longs \in Nat /\ PrecisionEnd(p) \in Nat
      /\ n \in Nat /\ y \in Nat /\ Len(x) \in Nat
      /\ fmt = n + y + 1 + g
      /\ IF p.conv \in Conversions THEN va_arg = p.arg /\ Taken(printf, k + 1) = ap + 1
                                   ELSE Taken(printf, k + 1) = ap
      /\ Printed(k, p.before)
  BY AtConversion, Zenon
<1>2. Unrecognized
  <2>1. ~IsDigit(ch) /\ ch \notin Modifiers \cup Conversions \cup {"%"}
    <3>1. ~IsDigit(p.conv) /\ p.conv \notin Modifiers
      BY <1>1, PartIs, Zenon
    <3>2. p.conv \notin Conversions /\ p.conv # "%"
      BY DEF Unknown
    <3> QED
      BY <1>1, <3>1, <3>2
  <2> QED
    BY <1>1, <2>1, StepIs
<1>3. /\ fmt' = AfterPercent /\ ap' = ap /\ UNCHANGED printf /\ out' = out \o <<"%">>
  BY <1>2 DEF Unrecognized, putch
<1>4. AfterPercent = m
  <2>1. /\ \A i \in 1 .. Len(x) : printf.fmt[m + i] = x[i]
        /\ printf.fmt[m] = "%"
    BY <1>1, DirectiveAt, Zenon
  <2>2. \A i \in 1 .. g : x[i] # "%"
    BY <1>1, NoPercent
  <2>3. g \in Nat /\ g <= Len(x)
    <3> DEFINE e == PrecisionEnd(p)
               l == p.longs
    <3>1. Len(x) = e + l + (IF p.conv = "NUL" THEN 0 ELSE 1) /\ e \in Nat /\ l \in Nat
      BY <1>1, TextIs, Zenon
    <3> HIDE DEF x, e, l
    <3>2. e + l \in Nat /\ e + l <= Len(x)
      BY <3>1
    <3> QED
      BY <3>2 DEF e, l
  <2>4. m \in Nat \ {0} /\ fmt = m + g
    <3>1. n \in Nat /\ y \in Nat /\ g \in Nat /\ fmt = n + y + 1 + g
      BY <1>1, <2>3, Zenon
    <3> HIDE DEF n, y, g
    <3> QED
      BY <3>1 DEF m
  <2> DEFINE z == Len(x)
             f == m + g
  <2>5. z \in Nat
    BY <1>1
  <2> HIDE DEF m, g, z, x
  <2>6. ASSUME NEW j \in m + 1 .. f PROVE printf.fmt[j] # "%"
    <3>1. j - m \in 1 .. z /\ j - m \in 1 .. g /\ m + (j - m) = j
      BY <2>3, <2>4, <2>5 DEF z
    <3>2. printf.fmt[m + (j - m)] = x[j - m]
      BY <2>1, <3>1 DEF z
    <3> QED
      BY <2>2, <3>1, <3>2
  <2>7. f \in Nat /\ m \in 1 .. f
    BY <2>3, <2>4
  <2> HIDE DEF f
  <2>8. fmt = f
    BY <2>4 DEF f
  <2> QED
    BY <2>1, <2>6, <2>7, <2>8, BackTo
<1>5. x \in Seq(STRING) /\ p.before \in Seq(STRING) /\ Upto(OutPieces(printf), k) \in Seq(STRING) /\ <<"%">> \in Seq(STRING)
  <2>1. "%" \in STRING
    BY CharacterIs, Zenon
  <2>2. x \in Seq(STRING) /\ p.before \in Seq(STRING)
    BY <1>1, TextIs, PartIs, Zenon
  <2>3. Upto(OutPieces(printf), k) \in Seq(STRING)
    BY <1>1, DirectiveAt, Zenon
  <2> QED
    BY <2>1, <2>2, <2>3, Single, Zenon
<1>6. 0 \in 0 .. Len(x) /\ fmt' = n + y + 1 + 0
  <2> DEFINE z == Len(x)
  <2>0. n \in Nat /\ y \in Nat /\ z \in Nat
    BY <1>1
  <2>1. m \in Nat /\ 0 \in 0 .. z
    <3> HIDE DEF n, y, z
    <3> QED
      BY <2>0
  <2>2. \A j \in Nat : j + 0 = j
    OBVIOUS
  <2>3. m + 0 = m
    BY <2>1, <2>2, Zenon
  <2> QED
    BY <1>3, <1>4, <2>1, <2>3, Zenon
<1>7. <<"%">> \o SubSeq(x, 1, 0) = <<"%">>
  <2>1. SubSeq(x, 1, 0) \in Seq(STRING) /\ Len(SubSeq(x, 1, 0)) = 0
    BY <1>5, <1>6, FirstOf, Zenon
  <2>2. SubSeq(x, 1, 0) = <<>>
    BY <2>1, EmptySeq, Zenon
  <2> QED
    BY <1>5, <2>2, NoText, Zenon
<1>8. AllExact(printf) => out' = Upto(OutPieces(printf), k) \o (p.before \o (<<"%">> \o SubSeq(x, 1, 0)))
  <2>1. (Upto(OutPieces(printf), k) \o p.before) \o <<"%">> = Upto(OutPieces(printf), k) \o (p.before \o <<"%">>)
    BY <1>5, Grouped, Zenon
  <2>2. AllExact(printf) => out = Upto(OutPieces(printf), k) \o p.before
    BY <1>1 DEF Printed
  <2> QED
    BY <1>3, <1>7, <2>1, <2>2
<1>9. ap' = Taken(printf, k + 1)
  <2>1. p.conv \notin Conversions
    BY DEF Unknown
  <2> QED
    BY <1>1, <1>3, <2>1
<1>10. IF 0 < Len(x) THEN InUnknown(k, p, 0)' ELSE \E b : InText(k + 1, b, 0)'
  <2> HIDE DEF m
  <2> QED
    BY <1>1, <1>3, <1>6, <1>8, <1>9, IntoUnknown
<1> QED
  BY <1>10

\* What it prints.
LEMMA UnrecognizedPrints ==
  ASSUME printf \in Printfs, NEW k, NEW p, InEnding(k, p, p.longs), Unknown(p), PrintNext
  PROVE  mode' = "text" /\ Printing
<1>1. /\ mode = "switch" /\ p \in Part /\ ch = p.conv
  BY AtConversion, Zenon
<1>2. Unrecognized
  <2>1. ~IsDigit(ch) /\ ch \notin Modifiers \cup Conversions \cup {"%"}
    <3>1. ~IsDigit(p.conv) /\ p.conv \notin Modifiers
      BY <1>1, PartIs, Zenon
    <3>2. p.conv \notin Conversions /\ p.conv # "%"
      BY DEF Unknown
    <3> QED
      BY <1>1, <3>1, <3>2
  <2> QED
    BY <1>1, <2>1, StepIs
<1>3. mode' = "text" /\ putch(<<"%">>) /\ UNCHANGED <<printf, via>>
  BY <1>2 DEF Unrecognized
<1>4. <<"%">> \in Seq(STRING)
  <2>1. "%" \in STRING
    BY CharacterIs, Zenon
  <2> QED
    BY <2>1, Single, Zenon
<1> QED
  BY <1>3, <1>4 DEF Printing

\* The text of a directive that was not recognised is printed.
LEMMA UnknownStep ==
  ASSUME printf \in Printfs, NEW k, NEW p, NEW t, InUnknown(k, p, t), mode = "text", PrintNext
  PROVE  /\ InUnknown(k, p, t + 1)' \/ (\E b : InText(k + 1, b, 0)')
         /\ mode' = "text" /\ Printing
<1> DEFINE n == Offset(printf, k)
           y == Len(p.before)
           x == Text(p)
           z == Len(x)
           u == SubSeq(x, 1, t)
           o == Upto(OutPieces(printf), k)
           c == <<"%">>
<1>1. /\ k \in 0 .. Len(printf.parts) - 1 /\ p = printf.parts[k + 1] /\ Unknown(p)
      /\ t \in 0 .. z - 1 /\ At(k, p, t) /\ ap = Taken(printf, k + 1)
      /\ Printed(k, p.before \o (c \o u))
  BY DEF InUnknown
<1>2. p \in Part /\ n \in Nat /\ y \in Nat /\ z \in Nat /\ o \in Seq(STRING)
  BY <1>1, DirectiveAt, Zenon
<1>3. t \in 0 .. z /\ t < z /\ t + 1 \in 1 .. z /\ t + 1 \in 0 .. z /\ t \in Nat
  <2>1. z \in Nat /\ t \in 0 .. z - 1
    BY <1>1, <1>2
  <2> HIDE DEF z
  <2> QED
    BY <2>1
<1>4. ch = x[t + 1]
  BY <1>1, <1>3, NextChar
<1>5. ch \notin {"%", "NUL"}
  <2>1. \A i \in 1 .. z : x[i] \notin {"%", "NUL"}
    BY <1>1, <1>2, NoPercent
  <2> QED
    BY <1>3, <1>4, <2>1
<1>6. TextChar
  BY <1>5, StepIs
<1>7. /\ putch(<<ch>>) /\ out' = out \o <<ch>> /\ fmt' = fmt + 1 /\ ap' = ap /\ mode' = "text"
      /\ UNCHANGED <<printf, via>>
  BY <1>6 DEF TextChar, putch
<1>8. x \in Seq(STRING) /\ p.before \in Seq(STRING) /\ c \in Seq(STRING)
  <2>1. "%" \in STRING
    BY CharacterIs, Zenon
  <2>2. x \in Seq(STRING) /\ p.before \in Seq(STRING)
    BY <1>2, TextIs, PartIs, Zenon
  <2> QED
    BY <2>1, <2>2, Single, Zenon
<1>9. u \in Seq(STRING) /\ <<ch>> \in Seq(STRING) /\ u \o <<ch>> = SubSeq(x, 1, t + 1)
  BY <1>1, <1>4, <1>8, OneFurther, Zenon
<1>10. (o \o (p.before \o (c \o u))) \o <<ch>> = o \o (p.before \o (c \o (u \o <<ch>>)))
  <2>1. c \o u \in Seq(STRING)
    BY <1>8, <1>9, TwoStrings, Zenon
  <2>2. p.before \o (c \o u) \in Seq(STRING)
    BY <1>8, <2>1, TwoStrings, Zenon
  <2>3. (o \o (p.before \o (c \o u))) \o <<ch>> = o \o ((p.before \o (c \o u)) \o <<ch>>)
    BY <1>2, <1>9, <2>2, Grouped, Zenon
  <2>4. (p.before \o (c \o u)) \o <<ch>> = p.before \o ((c \o u) \o <<ch>>)
    BY <1>8, <1>9, <2>1, Grouped, Zenon
  <2>5. (c \o u) \o <<ch>> = c \o (u \o <<ch>>)
    BY <1>8, <1>9, Grouped, Zenon
  <2> QED
    BY <2>3, <2>4, <2>5, Zenon
<1>11. AllExact(printf) => out' = o \o (p.before \o (c \o SubSeq(x, 1, t + 1)))
  <2>1. AllExact(printf) => out = o \o (p.before \o (c \o u))
    BY <1>1 DEF Printed
  <2> QED
    BY <1>7, <1>9, <1>10, <2>1, Zenon
<1>12. fmt' = n + y + 1 + (t + 1)
  <2>1. fmt = n + y + 1 + t
    BY <1>1 DEF At
  <2> HIDE DEF n, y
  <2> QED
    BY <1>2, <1>3, <1>7, <2>1
<1>13. InUnknown(k, p, t + 1)' \/ (\E b : InText(k + 1, b, 0)')
  <2> DEFINE j == t + 1
  <2>1. /\ j \in 0 .. Len(Text(p)) /\ fmt' = Offset(printf, k) + Len(p.before) + 1 + j
        /\ ap' = Taken(printf, k + 1) /\ printf' = printf
        /\ AllExact(printf) => out' = Upto(OutPieces(printf), k) \o (p.before \o (<<"%">> \o SubSeq(Text(p), 1, j)))
    BY <1>1, <1>3, <1>7, <1>11, <1>12, Zenon
  <2> HIDE DEF j, n, y, x, z, u, o, c
  <2>2. IF j < Len(Text(p)) THEN InUnknown(k, p, j)' ELSE \E b : InText(k + 1, b, 0)'
    BY <1>1, <2>1, IntoUnknown
  <2> QED
    BY <2>2 DEF j
<1> QED
  BY <1>7, <1>9, <1>13 DEF Printing

\* What a step within a directive leads to, and one out of it.
StaysWithin == DirectiveWalk' /\ mode' \in {"switch", "number"} /\ Quiet
GoesOn == TextWalk' /\ mode' = "text" /\ Printing

\* A step at the "l"s or the conversion.
LEMMA EndingStep ==
  ASSUME printf \in Printfs, NEW k, NEW p, NEW i \in Nat, InEnding(k, p, i), PrintNext
  PROVE  StaysWithin \/ GoesOn
<1>1. i \in 0 .. p.longs
  BY DEF InEnding
<1>2. CASE i < p.longs
  <2>1. InEnding(k, p, i + 1)' /\ Quiet
    BY <1>2, LongStep
  <2>2. mode' = "switch" /\ i + 1 \in Nat
    BY <2>1 DEF InEnding
  <2> QED
    BY <2>1, <2>2 DEF DirectiveWalk, StaysWithin
<1>3. CASE ~(i < p.longs)
  <2>1. i = p.longs
    <3>1. PICK n : n = p.longs
      OBVIOUS
    <3>2. n \in Nat
      <4>1. /\ k \in 0 .. Len(printf.parts) - 1 /\ p = printf.parts[k + 1]
        BY DEF InEnding, Directive
      <4>2. p \in Part
        BY <4>1, DirectiveAt, Zenon
      <4> QED
        BY <3>1, <4>2, PartIs
    <3> QED
      BY <1>1, <1>3, <3>1, <3>2
  <2>2. InEnding(k, p, p.longs)
    BY <2>1
  <2>3. CASE ~Unknown(p)
    <3>1. (\E b : InText(k + 1, b, 0)') /\ mode' = "text" /\ Printing
      BY <2>2, <2>3, ConversionStep
    <3> QED
      BY <3>1 DEF TextWalk, GoesOn
  <2>4. CASE Unknown(p)
    <3>1. InUnknown(k, p, 0)' \/ (\E b : InText(k + 1, b, 0)')
      BY <2>2, <2>4, UnrecognizedStep
    <3>2. mode' = "text" /\ Printing
      BY <2>2, <2>4, UnrecognizedPrints
    <3> QED
      BY <3>1, <3>2 DEF TextWalk, GoesOn
  <2> QED
    BY <2>3, <2>4
<1> QED
  BY <1>2, <1>3

\* A step after the width, with a precision or without.
LEMMA AfterWidthStep ==
  ASSUME printf \in Printfs, NEW k, NEW p, AfterWidth(k, p), PrintNext
  PROVE  StaysWithin \/ GoesOn
<1>1. CASE InEnding(k, p, 0)
  BY <1>1, EndingStep
<1>2. CASE AfterDot(k, p)' /\ Quiet
  <2>1. mode' = "switch"
    BY <1>2 DEF AfterDot
  <2> QED
    BY <1>2, <2>1 DEF DirectiveWalk, StaysWithin
<1> QED
  BY <1>1, <1>2, WidthEndStep

\* A step anywhere in a directive.
LEMMA DirectiveStep ==
  ASSUME printf \in Printfs, DirectiveWalk, PrintNext
  PROVE  StaysWithin \/ GoesOn
<1>1. PICK k, p : \/ \E i \in Nat : InFlags(k, p, i) \/ InWidth(k, p, i) \/ InPrecision(k, p, i) \/ InEnding(k, p, i)
                  \/ AfterWidth(k, p) \/ AfterDot(k, p)
  BY DEF DirectiveWalk
<1>2. ASSUME NEW i \in Nat, InFlags(k, p, i) PROVE StaysWithin \/ GoesOn
  <2>1. i \in 0 .. FlagsEnd(p) /\ k \in 0 .. Len(printf.parts) - 1 /\ p = printf.parts[k + 1]
    BY <1>2 DEF InFlags, Directive
  <2>2. FlagsEnd(p) \in Nat
    <3>1. p \in Part
      BY <2>1, DirectiveAt, Zenon
    <3> QED
      BY <3>1, TextIs
  <2>3. CASE i < FlagsEnd(p)
    <3>1. InFlags(k, p, i + 1)' /\ UNCHANGED <<printf, via, sink, out>>
      BY <1>2, <2>3, FlagsStep
    <3>2. mode' = "switch" /\ i + 1 \in Nat
      BY <3>1 DEF InFlags
    <3> QED
      BY <3>1, <3>2 DEF DirectiveWalk, StaysWithin, Quiet
  <2>4. CASE i = FlagsEnd(p)
    <3>1. AfterWidth(k, p) \/ (AfterWidth(k, p)' /\ Quiet) \/ (InWidth(k, p, 1)' /\ Quiet)
      BY <1>2, <2>4, FlagsEndStep
    <3>2. CASE AfterWidth(k, p)
      BY <3>2, AfterWidthStep
    <3>3. CASE AfterWidth(k, p)' /\ Quiet
      <4>1. mode' = "switch"
        BY <3>3 DEF AfterWidth
      <4> QED
        BY <3>3, <4>1 DEF DirectiveWalk, StaysWithin
    <3>4. CASE InWidth(k, p, 1)' /\ Quiet
      <4>1. mode' = "number" /\ 1 \in Nat
        BY <3>4 DEF InWidth
      <4> QED
        BY <3>4, <4>1 DEF DirectiveWalk, StaysWithin
    <3> QED
      BY <3>1, <3>2, <3>3, <3>4
  <2> QED
    BY <2>1, <2>2, <2>3, <2>4
<1>3. ASSUME NEW i \in Nat, InWidth(k, p, i) PROVE StaysWithin \/ GoesOn
  <2>1. (InWidth(k, p, i + 1)' \/ AfterWidth(k, p)') /\ Quiet
    BY <1>3, WidthStep
  <2>2. mode' \in {"switch", "number"} /\ i + 1 \in Nat
    BY <2>1 DEF InWidth, AfterWidth
  <2> QED
    BY <2>1, <2>2 DEF DirectiveWalk, StaysWithin
<1>4. ASSUME NEW i \in Nat, InPrecision(k, p, i) PROVE StaysWithin \/ GoesOn
  <2>1. (InPrecision(k, p, i + 1)' \/ InEnding(k, p, 0)') /\ Quiet
    BY <1>4, PrecisionStep
  <2>2. mode' \in {"switch", "number"} /\ i + 1 \in Nat /\ 0 \in Nat
    BY <2>1 DEF InPrecision, InEnding
  <2> QED
    BY <2>1, <2>2 DEF DirectiveWalk, StaysWithin
<1>5. ASSUME AfterDot(k, p) PROVE StaysWithin \/ GoesOn
  <2>1. (InEnding(k, p, 0)' \/ InPrecision(k, p, 1)') /\ Quiet
    BY <1>5, DotStep
  <2>2. mode' \in {"switch", "number"} /\ 0 \in Nat /\ 1 \in Nat
    BY <2>1 DEF InPrecision, InEnding
  <2> QED
    BY <2>1, <2>2 DEF DirectiveWalk, StaysWithin
<1> QED
  BY <1>1, <1>2, <1>3, <1>4, <1>5, EndingStep, AfterWidthStep

\* What a step in the text leads to.
LEMMA TextStep ==
  ASSUME printf \in Printfs, TextWalk, mode = "text", PrintNext
  PROVE  StaysWithin \/ GoesOn \/ (Finish /\ Printed(Len(printf.parts), printf.rest))
<1>1. PICK k : (\E b, i : InText(k, b, i)) \/ (\E p, t : InUnknown(k, p, t))
  BY DEF TextWalk
<1>2. ASSUME NEW b, NEW i, InText(k, b, i)
      PROVE  StaysWithin \/ GoesOn \/ (Finish /\ Printed(Len(printf.parts), printf.rest))
  <2>1. i \in 0 .. Len(b) /\ Len(b) \in Nat
    BY <1>2, TextCharAt
  <2>2. CASE i < Len(b)
    <3>1. InText(k, b, i + 1)' /\ mode' = "text" /\ Printing
      BY <1>2, <2>2, CharStep
    <3> QED
      BY <3>1 DEF TextWalk, GoesOn
  <2>3. CASE i = Len(b) /\ k < Len(printf.parts)
    <3>1. PICK p : InFlags(k, p, 0)' /\ Quiet
      BY <1>2, <2>3, PercentStep
    <3>2. mode' = "switch" /\ 0 \in Nat
      BY <3>1 DEF InFlags
    <3> QED
      BY <3>1, <3>2 DEF DirectiveWalk, StaysWithin
  <2>4. CASE i = Len(b) /\ ~(k < Len(printf.parts))
    BY <1>2, <2>4, EndStep
  <2> QED
    BY <2>1, <2>2, <2>3, <2>4
<1>3. ASSUME NEW p, NEW t, InUnknown(k, p, t) PROVE GoesOn
  <2>1. /\ InUnknown(k, p, t + 1)' \/ (\E b : InText(k + 1, b, 0)')
        /\ mode' = "text" /\ Printing
    BY <1>3, UnknownStep
  <2> QED
    BY <2>1 DEF TextWalk, GoesOn
<1> QED
  BY <1>1, <1>2, <1>3

\* The beginning.
LEMMA WalkStarts ==
  ASSUME PrintInit
  PROVE  Walk
<1>1. <<>> \in Seq(STRING)
  BY NoText
<1> QED
  BY <1>1 DEF PrintInit, Walk

\* One step of the walk.
LEMMA WalkStep ==
  ASSUME Walk, PrintNext
  PROVE  /\ Walk'
         /\ \/ Refuse \/ StartFormat
            \/ mode \in {"text", "switch", "number"} /\ mode' \in {"text", "switch", "number"} /\ (Quiet \/ Printing)
            \/ Finish
<1>1. printf \in Printfs /\ out \in Seq(STRING)
  BY DEF Walk
<1>2. mode \in {"start", "text", "switch", "number"}
  BY StepIs
<1>3. CASE mode = "start"
  <2>1. fmt = 0 /\ ap = 0 /\ out = <<>>
    BY <1>3 DEF Walk
  <2>2. CASE Refuse
    BY <1>1, <2>2 DEF Refuse, Walk
  <2>3. CASE StartFormat
    <3>1. mode' = "text" /\ UNCHANGED <<printf, fmt, ap, out>>
      BY <2>3 DEF StartFormat
    <3>2. \E b : InText(0, b, 0)'
      <4>1. Offset(printf, 0) = 0 /\ Taken(printf, 0) = 0 /\ Upto(OutPieces(printf), 0) = <<>>
        BY <1>1, EndsAt, Zenon
      <4>2. 0 \in 0 .. Len(printf.parts)
        <5>1. Len(printf.parts) \in Nat
          BY <1>1, PrintfIs
        <5> QED
          BY <5>1
      <4> DEFINE z == 0
      <4>3. /\ z \in 0 .. Len(printf.parts) /\ fmt' = Offset(printf, z) /\ ap' = Taken(printf, z)
            /\ AllExact(printf) => out' = Upto(OutPieces(printf), z)
        BY <2>1, <3>1, <4>1, <4>2
      <4> HIDE DEF z
      <4>4. \E b : InText(z, b, 0)'
        BY <1>1, <3>1, <4>3, IntoNext
      <4> QED
        BY <4>4 DEF z
    <3>3. TextWalk'
      BY <3>2 DEF TextWalk
    <3> QED
      BY <1>1, <2>3, <3>1, <3>3 DEF Walk
  <2> QED
    BY <1>3, <2>2, <2>3, StepIs
<1>4. CASE mode # "start"
  <2>1. StaysWithin \/ GoesOn \/ (Finish /\ Printed(Len(printf.parts), printf.rest))
    <3>1. CASE mode = "text"
      <4>1. TextWalk
        BY <3>1 DEF Walk
      <4> QED
        BY <1>1, <3>1, <4>1, TextStep
    <3>2. CASE mode # "text"
      <4>1. DirectiveWalk
        BY <1>2, <1>4, <3>2 DEF Walk
      <4> QED
        BY <1>1, <4>1, DirectiveStep
    <3> QED
      BY <3>1, <3>2
  <2>2. CASE StaysWithin
    <3>1. DirectiveWalk' /\ mode' \in {"switch", "number"} /\ printf' = printf /\ out' = out
      BY <2>2 DEF StaysWithin, Quiet
    <3>2. Walk'
      BY <1>1, <3>1 DEF Walk
    <3> QED
      BY <1>2, <1>4, <2>2, <3>1, <3>2 DEF StaysWithin
  <2>3. CASE GoesOn
    <3>1. TextWalk' /\ mode' = "text" /\ printf' = printf
      BY <2>3 DEF GoesOn, Printing
    <3>2. out' \in Seq(STRING)
      <4>1. PICK t \in Seq(STRING) : putch(t)
        BY <2>3 DEF GoesOn, Printing
      <4>2. out' = out \o t
        BY <4>1 DEF putch
      <4>3. out \o t \in Seq(STRING)
        BY <1>1, TwoStrings, Zenon
      <4> QED
        BY <4>2, <4>3
    <3>3. Walk'
      BY <1>1, <3>1, <3>2 DEF Walk
    <3> QED
      BY <1>2, <1>4, <2>3, <3>1, <3>3 DEF GoesOn
  <2>4. CASE Finish /\ Printed(Len(printf.parts), printf.rest)
    <3>1. mode' = "done" /\ printf' = printf /\ out' = out
      BY <2>4 DEF Finish
    <3>2. Printed(Len(printf.parts), printf.rest)'
      BY <2>4, <3>1 DEF Printed
    <3> QED
      BY <1>1, <2>4, <3>1, <3>2 DEF Walk
  <2> QED
    BY <2>1, <2>2, <2>3, <2>4
<1> QED
  BY <1>3, <1>4

\* Nothing happening.
LEMMA WalkStays ==
  ASSUME Walk, UNCHANGED printVars
  PROVE  Walk'
<1>1. UNCHANGED <<printf, fmt, ap, mode, padc, width, precision, lflag, altflag, out, returned>>
  BY DEF printVars, flags
<1>2. printf' \in Printfs /\ out' \in Seq(STRING) /\ mode' \in {"start", "text", "switch", "number", "done"}
  BY <1>1 DEF Walk
<1>3. mode' = "start" => fmt' = 0 /\ ap' = 0 /\ out' = <<>>
  BY <1>1 DEF Walk
<1>4. ASSUME TextWalk PROVE TextWalk'
  BY <1>1, <1>4 DEF TextWalk, InText, InUnknown, At, Printed
<1>5. ASSUME DirectiveWalk PROVE DirectiveWalk'
  <2>1. PICK k, p : \/ \E i \in Nat : InFlags(k, p, i) \/ InWidth(k, p, i) \/ InPrecision(k, p, i) \/ InEnding(k, p, i)
                    \/ AfterWidth(k, p) \/ AfterDot(k, p)
    BY <1>5 DEF DirectiveWalk
  <2>2. ASSUME NEW t, NEW w, NEW r, NEW l, NEW n, Directive(k, p, t, w, r, l, n)
        PROVE  Directive(k, p, t, w, r, l, n)'
    BY <1>1, <2>2 DEF Directive, At, Printed
  <2>3. ASSUME NEW t PROVE (Padding(p, t) => Padding(p, t)') /\ (HasFlags(p, t) => HasFlags(p, t)')
    BY <1>1 DEF HasFlags, Padding
  <2>4. ASSUME NEW i \in Nat, InFlags(k, p, i) PROVE InFlags(k, p, i)'
    BY <1>1, <2>2, <2>3, <2>4 DEF InFlags
  <2>5. ASSUME NEW i \in Nat, InWidth(k, p, i) PROVE InWidth(k, p, i)'
    BY <1>1, <2>2, <2>3, <2>5 DEF InWidth
  <2>6. ASSUME NEW i \in Nat, InPrecision(k, p, i) PROVE InPrecision(k, p, i)'
    BY <1>1, <2>2, <2>3, <2>6 DEF InPrecision
  <2>7. ASSUME NEW i \in Nat, InEnding(k, p, i) PROVE InEnding(k, p, i)'
    BY <1>1, <2>2, <2>3, <2>7 DEF InEnding
  <2>8. AfterWidth(k, p) => AfterWidth(k, p)'
    BY <1>1, <2>2, <2>3 DEF AfterWidth
  <2>9. AfterDot(k, p) => AfterDot(k, p)'
    BY <1>1, <2>2, <2>3 DEF AfterDot
  <2> QED
    BY <2>1, <2>4, <2>5, <2>6, <2>7, <2>8, <2>9 DEF DirectiveWalk
<1>6. mode' = "done" => (returned = -E_INVAL \/ Printed(Len(printf.parts), printf.rest))'
  BY <1>1 DEF Walk, Printed, E_INVAL
<1> QED
  BY <1>1, <1>2, <1>3, <1>4, <1>5, <1>6 DEF Walk

-----------------------------------------------------------------------------
(* The buffer of vsnprintf. *)

\* The buffer x of a size of at least 1 when o has been given to sprintputch: as much of it as
\* there is room for before the last byte, and all of it counted.
BufferHolds(x, o) ==
  /\ x = [n |-> x.n, buf |-> x.buf, pos |-> x.pos, cnt |-> x.cnt]
  /\ x.n \in Nat \ {0} /\ DOMAIN x.buf = 0 .. x.n - 1
  /\ x.pos = (IF Len(o) < x.n THEN Len(o) ELSE x.n - 1) /\ x.cnt = Len(o)
  /\ \A k \in 0 .. x.pos - 1 : x.buf[k] = o[k + 1]

\* The walk, and the buffer in it.
BufferFilled ==
  /\ mode = "start" /\ via = "vsnprintf" =>
       /\ sink.n \in Int
       /\ sink = [n |-> sink.n, buf |-> sink.buf, pos |-> 0, cnt |-> 0] /\ DOMAIN sink.buf = 0 .. sink.n - 1
  /\ mode \in {"text", "switch", "number"} /\ via = "vsnprintf" => BufferHolds(sink, out)
  /\ BufferHoldsPrefix

\* Characters t are stored and counted.
LEMMA HoldsMore ==
  ASSUME NEW o \in Seq(STRING), NEW t \in Seq(STRING), NEW x, BufferHolds(x, o)
  PROVE  BufferHolds(sprintputch(x, t), o \o t)
<1> DEFINE n == x.n
           q == x.pos
           l == Len(o)
           m == Len(t)
           room == n - 1 - q
           kept == IF m < room THEN m ELSE room
           buf == [k \in 0 .. n - 1 |-> IF k - q \in 0 .. kept - 1 THEN t[k - q + 1] ELSE x.buf[k]]
           u == o \o t
<1>1. /\ x = [n |-> n, buf |-> x.buf, pos |-> q, cnt |-> x.cnt]
      /\ n \in Nat \ {0} /\ DOMAIN x.buf = 0 .. n - 1
      /\ q = (IF l < n THEN l ELSE n - 1) /\ x.cnt = l
      /\ \A k \in 0 .. q - 1 : x.buf[k] = o[k + 1]
  BY DEF BufferHolds
<1>2. /\ Len(u) = l + m /\ l \in Nat /\ m \in Nat
      /\ \A i \in 1 .. l : u[i] = o[i]
      /\ \A i \in 1 .. m : u[l + i] = t[i]
  BY TwoStrings, Zenon
<1>3. sprintputch(x, t) = [n |-> n, buf |-> buf, pos |-> q + kept, cnt |-> l + m]
  <2>1. sprintputch(x, t) =
          [n |-> n, buf |-> [k \in DOMAIN x.buf |-> IF k - q \in 0 .. kept - 1 THEN t[k - q + 1] ELSE x.buf[k]],
           pos |-> q + kept, cnt |-> x.cnt + m]
    BY Zenon DEF sprintputch
  <2>2. DOMAIN x.buf = 0 .. n - 1 /\ x.cnt = l
    BY <1>1
  <2> QED
    BY <2>1, <2>2, Zenon
<1> HIDE DEF u, m, l, n, q, room, kept, buf
<1>4. /\ room \in Nat /\ kept \in Nat /\ q \in Nat /\ kept <= m /\ q <= l /\ q + kept <= n - 1
      /\ kept > 0 => q = l
      /\ q + kept = (IF l + m < n THEN l + m ELSE n - 1)
  BY <1>1, <1>2 DEF room, kept
<1>5. ASSUME NEW k \in 0 .. q + kept - 1 PROVE buf[k] = u[k + 1]
  <2>1. k \in 0 .. n - 1
    BY <1>1, <1>4
  <2>2. buf[k] = IF k - q \in 0 .. kept - 1 THEN t[k - q + 1] ELSE x.buf[k]
    BY <2>1 DEF buf
  <2>3. CASE k < q
    <3>1. k \in 0 .. q - 1 /\ ~(k - q \in 0 .. kept - 1) /\ k + 1 \in 1 .. l
      BY <1>2, <1>4, <2>3
    <3> QED
      BY <1>1, <1>2, <2>2, <3>1
  <2>4. CASE ~(k < q)
    <3>1. k - q \in 0 .. kept - 1 /\ k - q + 1 \in 1 .. m /\ q = l /\ l + (k - q + 1) = k + 1
      BY <1>2, <1>4, <2>4
    <3> QED
      BY <1>2, <2>2, <3>1
  <2> QED
    BY <2>3, <2>4
<1>6. DOMAIN buf = 0 .. n - 1
  BY DEF buf
<1> DEFINE r == [n |-> n, buf |-> buf, pos |-> q + kept, cnt |-> l + m]
<1>7. r.n = n /\ r.buf = buf /\ r.pos = q + kept /\ r.cnt = l + m
  OBVIOUS
<1>8. r = [n |-> r.n, buf |-> r.buf, pos |-> r.pos, cnt |-> r.cnt]
  OBVIOUS
<1> HIDE DEF r
<1>9. BufferHolds(r, u)
  BY <1>1, <1>2, <1>4, <1>5, <1>6, <1>7, <1>8 DEF BufferHolds
<1> QED
  BY <1>3, <1>9 DEF r, u

\* The buffer at the start.
LEMMA BufferFilledStarts ==
  ASSUME PrintInit
  PROVE  BufferFilled
<1>1. mode = "start"
  BY DEF PrintInit
<1>2. ASSUME via = "vsnprintf"
      PROVE  /\ sink.n \in Int
             /\ sink = [n |-> sink.n, buf |-> sink.buf, pos |-> 0, cnt |-> 0] /\ DOMAIN sink.buf = 0 .. sink.n - 1
  <2>1. PICK n \in BUFSIZES : sink = [n |-> n, buf |-> [k \in 0 .. n - 1 |-> "junk"], pos |-> 0, cnt |-> 0]
    BY <1>2 DEF PrintInit
  <2>2. n \in Int
    BY PrintfmtAssumption
  <2> QED
    BY <2>1, <2>2
<1> QED
  BY <1>1, <1>2 DEF BufferFilled, BufferHoldsPrefix

\* A step keeps the buffer as it is to be.
LEMMA BufferFilledStep ==
  ASSUME Walk, BufferFilled, PrintNext
  PROVE  BufferFilled'
<1>1. out \in Seq(STRING)
  BY DEF Walk
<1>2. \/ Refuse \/ StartFormat
      \/ mode \in {"text", "switch", "number"} /\ mode' \in {"text", "switch", "number"} /\ (Quiet \/ Printing)
      \/ Finish
  BY WalkStep
<1>3. CASE Refuse
  <2>1. mode = "start" /\ mode' = "done" /\ sink.n < 1 /\ UNCHANGED <<via, sink, out>> /\ returned' = -E_INVAL
    BY <1>3 DEF Refuse, NoRoom
  <2>2. out = <<>>
    BY <2>1 DEF Walk
  <2>3. BufferHoldsPrefix'
    BY <2>1, <2>2 DEF BufferHoldsPrefix, E_INVAL
  <2> QED
    BY <2>1, <2>3 DEF BufferFilled
<1>4. CASE StartFormat
  <2>1. mode = "start" /\ ~NoRoom /\ mode' = "text" /\ UNCHANGED <<via, sink, out>>
    BY <1>4 DEF StartFormat, NoRoom
  <2>2. out = <<>>
    BY <2>1 DEF Walk
  <2>3. ASSUME via = "vsnprintf" PROVE BufferHolds(sink, out)
    <3>1. /\ sink.n \in Int /\ ~(sink.n < 1)
          /\ sink = [n |-> sink.n, buf |-> sink.buf, pos |-> 0, cnt |-> 0] /\ DOMAIN sink.buf = 0 .. sink.n - 1
      BY <2>1, <2>3 DEF BufferFilled, NoRoom
    <3>2. Len(out) = 0 /\ sink.pos = 0 /\ sink.cnt = 0
      BY <2>2, <3>1, NoText
    <3> QED
      BY <3>1, <3>2 DEF BufferHolds
  <2>4. via' = "vsnprintf" => BufferHolds(sink, out)'
    BY <2>1, <2>3 DEF BufferHolds
  <2> QED
    BY <2>1, <2>4 DEF BufferFilled, BufferHoldsPrefix
<1>5. CASE mode \in {"text", "switch", "number"} /\ mode' \in {"text", "switch", "number"} /\ Quiet
  <2>1. UNCHANGED <<via, sink, out>>
    BY <1>5 DEF Quiet
  <2>2. via' = "vsnprintf" => BufferHolds(sink, out)'
    BY <1>5, <2>1 DEF BufferFilled, BufferHolds
  <2>3. mode' # "start" /\ mode' # "done"
    BY <1>5
  <2> QED
    BY <1>5, <2>2, <2>3 DEF BufferFilled, BufferHoldsPrefix
<1>6. CASE mode \in {"text", "switch", "number"} /\ mode' \in {"text", "switch", "number"} /\ Printing
  <2>1. PICK t \in Seq(STRING) : putch(t)
    BY <1>6 DEF Printing
  <2>2. via' = via /\ out' = out \o t /\ (via = "vsnprintf" => sink' = sprintputch(sink, t))
    BY <1>6, <2>1 DEF Printing, putch
  <2>3. ASSUME via' = "vsnprintf" PROVE BufferHolds(sink, out)'
    <3>1. BufferHolds(sink, out)
      BY <1>6, <2>2, <2>3 DEF BufferFilled
    <3>2. BufferHolds(sprintputch(sink, t), out \o t)
      BY <1>1, <3>1, HoldsMore
    <3>3. PICK x, o : x = sprintputch(sink, t) /\ o = out \o t
      OBVIOUS
    <3>4. BufferHolds(x, o) /\ sink' = x /\ out' = o
      BY <2>2, <2>3, <3>2, <3>3
    <3> QED
      BY <3>4 DEF BufferHolds
  <2>4. mode' # "start" /\ mode' # "done"
    BY <1>6
  <2> QED
    BY <1>6, <2>3, <2>4 DEF BufferFilled, BufferHoldsPrefix
<1>7. CASE Finish
  <2>1. /\ mode = "text" /\ mode' = "done" /\ UNCHANGED <<via, out>> /\ returned' = sink.cnt
        /\ via = "vsnprintf" => sink' = [sink EXCEPT !.buf[sink.pos] = "NUL"]
    BY <1>7 DEF Finish
  <2>2. ASSUME via' = "vsnprintf"
        PROVE  /\ sink'.n \in Nat \ {0} /\ returned' = Len(out)
               /\ DOMAIN sink'.buf = 0 .. sink'.n - 1
               /\ LET kept == IF Len(out) < sink'.n THEN Len(out) ELSE sink'.n - 1 IN
                  (\A k \in 0 .. kept - 1 : sink'.buf[k] = out[k + 1]) /\ sink'.buf[kept] = "NUL"
    <3> DEFINE n == sink.n
               q == sink.pos
               l == Len(out)
    <3>1. /\ sink = [n |-> n, buf |-> sink.buf, pos |-> q, cnt |-> sink.cnt]
          /\ n \in Nat \ {0} /\ DOMAIN sink.buf = 0 .. n - 1
          /\ q = (IF l < n THEN l ELSE n - 1) /\ sink.cnt = l
          /\ \A k \in 0 .. q - 1 : sink.buf[k] = out[k + 1]
      BY <2>1, <2>2 DEF BufferFilled, BufferHolds
    <3>2. l \in Nat
      BY <1>1, LenProperties, Zenon
    <3>3. sink' = [n |-> n, buf |-> [sink.buf EXCEPT ![q] = "NUL"], pos |-> q, cnt |-> l]
      BY <2>1, <2>2, <3>1
    <3>4. sink'.n = n /\ sink'.buf = [sink.buf EXCEPT ![q] = "NUL"]
      BY <3>3
    <3> HIDE DEF n, q, l
    <3>5. q \in 0 .. n - 1 /\ \A k \in 0 .. q - 1 : k \in 0 .. n - 1 /\ k # q
      BY <3>1, <3>2
    <3>6. /\ DOMAIN sink'.buf = 0 .. n - 1 /\ sink'.buf[q] = "NUL"
          /\ \A k \in 0 .. q - 1 : sink'.buf[k] = out[k + 1]
      BY <3>1, <3>4, <3>5
    <3>7. q = (IF Len(out) < sink'.n THEN Len(out) ELSE sink'.n - 1)
      BY <3>1, <3>4 DEF l
    <3>8. returned' = Len(out)
      BY <2>1, <3>1 DEF l
    <3> QED
      BY <3>1, <3>4, <3>6, <3>7, <3>8
  <2>3. BufferHoldsPrefix'
    <3>1. ASSUME via' = "vsnprintf" PROVE ~(sink'.n < 1)
      BY <2>2, <3>1
    <3> QED
      BY <2>1, <2>2, <3>1 DEF BufferHoldsPrefix
  <2> QED
    BY <2>1, <2>3 DEF BufferFilled
<1> QED
  BY <1>2, <1>3, <1>4, <1>5, <1>6, <1>7

\* Nothing happening.
LEMMA BufferFilledStays ==
  ASSUME BufferFilled, UNCHANGED printVars
  PROVE  BufferFilled'
<1>1. UNCHANGED <<via, mode, sink, out, returned>>
  BY DEF printVars
<1> QED
  BY <1>1 DEF BufferFilled, BufferHolds, BufferHoldsPrefix, E_INVAL

-----------------------------------------------------------------------------
\* The walk and the buffer, in every state.
LEMMA WalkFills == PrintSpec => [](Walk /\ BufferFilled)
<1>1. PrintInit => Walk /\ BufferFilled
  BY WalkStarts, BufferFilledStarts
<1>2. Walk /\ BufferFilled /\ [PrintNext]_printVars => (Walk /\ BufferFilled)'
  BY WalkStep, WalkStays, BufferFilledStep, BufferFilledStays
<1> QED
  BY <1>1, <1>2, PTL DEF PrintSpec

\* vsnprintf, with every format, every arguments and every size, leaves in the buffer as much of
\* what is printed as there is room for and a NUL, and returns how much there was to print.
THEOREM BufferCorrect == PrintSpec => []BufferHoldsPrefix
<1>1. Walk /\ BufferFilled => BufferHoldsPrefix
  BY DEF BufferFilled
<1> QED
  BY <1>1, WalkFills, PTL

\* vprintfmt, which takes a format by the character and goes back over what it does not recognise,
\* prints what the directives of the format mean (Meaning, which is K & R's in part and this
\* printf's own in part), but for the four kinds that are left out.
THEOREM MeaningPrinted == PrintSpec => []PrintsMeaning
<1>1. ASSUME Walk PROVE PrintsMeaning
  <2>1. SUFFICES ASSUME mode = "done", returned # -E_INVAL, AllExact(printf)
                 PROVE  out = FlattenSeq(OutPieces(printf)) \o printf.rest
    BY DEF PrintsMeaning, AllExact, Exact, OutPieces
  <2>2. printf \in Printfs /\ Printed(Len(printf.parts), printf.rest)
    BY <1>1, <2>1 DEF Walk
  <2>3. Upto(OutPieces(printf), Len(printf.parts)) = FlattenSeq(OutPieces(printf))
    BY <2>2, EndsAt, Zenon
  <2> QED
    BY <2>1, <2>2, <2>3 DEF Printed
<1> QED
  BY <1>1, WalkFills, PTL
=============================================================================
