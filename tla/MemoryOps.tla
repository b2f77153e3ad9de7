----------------------------- MODULE MemoryOps ------------------------------
(***************************************************************************)
(* lib/string.c: memset and memmove, as they are compiled with ASM: the    *)
(* call sets up the string registers, and one instruction repeats itself,  *)
(* a byte or a word at a time, up or down as the direction flag says.      *)
(***************************************************************************)
EXTENDS Integers

CONSTANTS
  WORD,      \* bytes of a word (4)
  BYTES,     \* values of a byte (256)
  Blocks,    \* memories that are moved about and filled in
  Fills      \* ints that memset is called with

ASSUME MemoryAssumption ==
  /\ WORD \in Nat \ {0} /\ BYTES \in Nat \ {0}
  /\ Fills \subseteq Nat
  /\ \A m \in Blocks : DOMAIN m \subseteq Nat /\ m \in [DOMAIN m -> 0 .. BYTES - 1]

VARIABLES
  mem, before,   \* memory, and history: what it was when the call was made
  call,          \* [fn, p, q, n, c]: the function, its addresses p and q, its size or
                 \* base n, its character c
  pc,            \* "call", "done", or what the function is doing
  result,
  DF,            \* the direction flag
  unit,          \* how many bytes the instruction moves at a time
  edi, esi, ecx

calling == <<before, call>>
registers == <<DF, unit, edi, esi, ecx>>

Address == DOMAIN mem
dst == call.p
src == call.q

Unit(addresses, length) ==
  IF (\A a \in addresses : a % WORD = 0) /\ length % WORD = 0 THEN WORD ELSE 1

-----------------------------------------------------------------------------
\* Mutant: the overlap at the other end is looked for.
Overlaps_below == dst < src /\ dst + call.n > src
Overlaps == src < dst /\ src + call.n > dst

\* memmove, and memcpy which calls it.
memmove_up ==
  /\ pc = "call" /\ call.fn \in {"memmove", "memcpy"} /\ ~Overlaps
  /\ unit' = Unit({src, dst}, call.n)
  /\ DF' = FALSE /\ edi' = dst /\ esi' = src /\ ecx' = call.n \div unit'
  /\ pc' = "movs"
  /\ UNCHANGED <<mem, calling, result>>

memmove_down ==
  /\ pc = "call" /\ call.fn \in {"memmove", "memcpy"} /\ Overlaps
  /\ unit' = Unit({src + call.n, dst + call.n}, call.n)
  /\ DF' = TRUE /\ edi' = dst + call.n - unit' /\ esi' = src + call.n - unit' /\ ecx' = call.n \div unit'
  /\ pc' = "movs"
  /\ UNCHANGED <<mem, calling, result>>

memset ==
  /\ pc = "call" /\ call.fn = "memset" /\ call.n > 0
  /\ unit' = Unit({dst}, call.n)
  /\ DF' = FALSE /\ edi' = dst /\ ecx' = call.n \div unit'
  /\ pc' = "stos"
  /\ UNCHANGED <<mem, calling, result, esi>>

memset_nothing ==
  /\ pc = "call" /\ call.fn = "memset" /\ call.n = 0
  /\ pc' = "done" /\ result' = dst
  /\ UNCHANGED <<mem, calling, registers>>

-----------------------------------------------------------------------------
Next_unit(a) == IF DF THEN a - unit ELSE a + unit
Written == edi .. edi + unit - 1

\* Mutant: always upwards.
movs_up ==
  /\ pc = "movs" /\ ecx > 0
  /\ mem' = [a \in Address |-> IF a \in Written THEN mem[a - edi + esi] ELSE mem[a]]
  /\ edi' = edi + unit /\ esi' = esi + unit /\ ecx' = ecx - 1
  /\ UNCHANGED <<calling, result, DF, pc, unit>>
movs ==
  /\ pc = "movs" /\ ecx > 0
  /\ mem' = [a \in Address |-> IF a \in Written THEN mem[a - edi + esi] ELSE mem[a]]
  /\ edi' = Next_unit(edi) /\ esi' = Next_unit(esi) /\ ecx' = ecx - 1
  /\ UNCHANGED <<calling, result, DF, pc, unit>>

\* The word stored has the byte c & 0xFF four times.
\* Mutant: once, and zeros.
Pattern_byte(i) == IF i = 0 THEN call.c % BYTES ELSE 0
Pattern(i) == call.c % BYTES

stos ==
  /\ pc = "stos" /\ ecx > 0
  /\ mem' = [a \in Address |-> IF a \in Written THEN Pattern(a - edi) ELSE mem[a]]
  /\ edi' = Next_unit(edi) /\ ecx' = ecx - 1
  /\ UNCHANGED <<calling, result, DF, pc, unit, esi>>

\* The instruction has repeated itself as often as it should; going down, there is a
\* cld to come.
\* Mutant: there is not.
Repeated_no_cld ==
  /\ pc \in {"movs", "stos"} /\ ecx = 0
  /\ pc' = "done" /\ result' = dst
  /\ UNCHANGED <<mem, calling, registers>>
\* Mutant: a length of nothing is not noticed.
Repeated_nonzero ==
  /\ pc \in {"movs", "stos"} /\ ecx = 0 /\ call.n > 0
  /\ pc' = IF pc = "movs" /\ Overlaps THEN "cld" ELSE "done"
  /\ result' = dst
  /\ UNCHANGED <<mem, calling, registers>>
Repeated ==
  /\ pc \in {"movs", "stos"} /\ ecx = 0
  /\ pc' = IF pc = "movs" /\ Overlaps THEN "cld" ELSE "done"
  /\ result' = dst
  /\ UNCHANGED <<mem, calling, registers>>

cld ==
  /\ pc = "cld"
  /\ DF' = FALSE
  /\ pc' = "done"
  /\ UNCHANGED <<mem, calling, result, unit, edi, esi, ecx>>

-----------------------------------------------------------------------------
\* A call of one of these, with ranges that are in memory.
MemoryCall ==
  /\ call.fn \in {"memmove", "memcpy", "memset"}
  /\ dst .. dst + call.n - 1 \subseteq Address
  /\ src .. src + call.n - 1 \subseteq Address
  /\ IF call.fn = "memset" THEN src = dst /\ call.c \in Fills ELSE call.c = 0

MemoryInit ==
  /\ before = mem /\ pc = "call" /\ result = 0
  /\ DF = FALSE /\ unit = 1 /\ edi = 0 /\ esi = 0 /\ ecx = 0

MemoryNext ==
  \/ memmove_up \/ memmove_down \/ memset \/ memset_nothing
  \/ movs \/ stos \/ Repeated \/ cld

-----------------------------------------------------------------------------
(* Properties. *)

\* Every variable has its type: no repetition leaves memory, up or down.
MemoryTypeOK ==
  /\ mem \in [DOMAIN before -> 0 .. BYTES - 1]
  /\ DF \in BOOLEAN /\ unit \in {1, WORD} /\ ecx \in Nat
  /\ pc \in {"movs", "stos"} /\ ecx > 0 => Written \subseteq Address
  /\ pc = "movs" /\ ecx > 0 => esi .. esi + unit - 1 \subseteq Address

\* However the two ranges overlap, and whatever is moved at a time, the bytes that
\* were at src are at dst in the end, and all others are as they were.
MemmoveMoves ==
  pc = "done" /\ call.fn \in {"memmove", "memcpy"} =>
    mem = [a \in Address |-> IF a \in dst .. dst + call.n - 1 THEN before[a - dst + src] ELSE before[a]]

\* The n bytes at dst are all set to the low byte of c, and no other.
MemsetSets ==
  pc = "done" /\ call.fn = "memset" =>
    mem = [a \in Address |-> IF a \in dst .. dst + call.n - 1 THEN call.c % BYTES ELSE before[a]]

\* "Some versions of GCC rely on DF being clear": it is, when the function returns.
DirectionCleared == pc = "done" => ~DF

\* Together: what the functions on memory leave there and in the direction flag.
MovesAsPromised == MemmoveMoves /\ MemsetSets /\ DirectionCleared
=============================================================================
