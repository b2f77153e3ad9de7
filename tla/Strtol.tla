------------------------------- MODULE Strtol -------------------------------
(***************************************************************************)
(* lib/string.c: strtol, and with it calls of any function of the file.    *)
(* A character is its code, 0 ends the string; call.n is the base.         *)
(***************************************************************************)
EXTENDS Strings, Powers

CONSTANTS
  Numbers,   \* memories that hold one string from 0 on
  Bases,     \* bases strtol is called with
  LONG       \* values of a long (2^32)

ASSUME StrtolAssumption ==
  /\ \A m \in Numbers : StringMemory(m)
  /\ LONG \in Nat \ 0 .. 15 /\ LONG % 2 = 0
  /\ Bases \subseteq 0 .. LONG - 1

VARIABLES neg, base, val

number == <<neg, base, val>>
vars == <<mem, calling, pc, result, registers, places, number>>

Digit(ch) ==
  CASE ch \in 48 .. 57  -> ch - 48
    [] ch \in 97 .. 122 -> ch - 97 + 10
    [] ch \in 65 .. 90  -> ch - 65 + 10
    [] OTHER -> LONG

\* What arithmetic on longs leaves: "we don't properly detect overflow!"
AsLong(v) == IF v % LONG < LONG \div 2 THEN v % LONG ELSE (v % LONG) - LONG

-----------------------------------------------------------------------------
strtol ==
  /\ pc = "call" /\ call.fn = "strtol"
  /\ s' = call.p /\ neg' = FALSE /\ base' = call.n /\ val' = 0
  /\ pc' = "space"
  /\ UNCHANGED <<mem, calling, result, d, left>>

Space ==
  /\ pc = "space"
  /\ IF mem[s] \in {32, 9} THEN s' = s + 1 /\ pc' = pc ELSE pc' = "sign" /\ s' = s
  /\ UNCHANGED <<mem, calling, result, d, left, neg, base, val>>

\* Mutant: as many signs as there are.
Sign_repeated ==
  /\ pc = "sign"
  /\ s' = IF mem[s] \in {43, 45} THEN s + 1 ELSE s
  /\ neg' = (mem[s] = 45)
  /\ pc' = IF mem[s] \in {43, 45} THEN "sign" ELSE "prefix"
  /\ UNCHANGED <<mem, calling, result, d, left, base, val>>
Sign ==
  /\ pc = "sign"
  /\ s' = IF mem[s] \in {43, 45} THEN s + 1 ELSE s
  /\ neg' = (mem[s] = 45)
  /\ pc' = "prefix"
  /\ UNCHANGED <<mem, calling, result, d, left, base, val>>

\* Mutant: the prefix 0x is looked for when any base is given.
Prefix_always ==
  /\ pc = "prefix"
  /\ IF mem[s] = 48 /\ mem[s + 1] = 120 THEN base' = 16 /\ s' = s + 2
     ELSE IF base = 0 /\ mem[s] = 48 THEN base' = 8 /\ s' = s + 1
     ELSE base' = (IF base = 0 THEN 10 ELSE base) /\ s' = s
  /\ pc' = "digits"
  /\ UNCHANGED <<mem, calling, result, d, left, neg, val>>
Prefix ==
  /\ pc = "prefix"
  /\ IF base \in {0, 16} /\ mem[s] = 48 /\ mem[s + 1] = 120 THEN base' = 16 /\ s' = s + 2
     ELSE IF base = 0 /\ mem[s] = 48 THEN base' = 8 /\ s' = s + 1
     ELSE base' = (IF base = 0 THEN 10 ELSE base) /\ s' = s
  /\ pc' = "digits"
  /\ UNCHANGED <<mem, calling, result, d, left, neg, val>>

\* Mutant: the end is one further, past what has ended the number.
Digits_past ==
  /\ pc = "digits"
  /\ IF Digit(mem[s]) < base
     THEN /\ val' = AsLong(val * base + Digit(mem[s]))
          /\ UNCHANGED <<pc, result>>
     ELSE result' = (IF neg THEN AsLong(-val) ELSE val) /\ pc' = "done" /\ UNCHANGED val
  /\ s' = s + 1
  /\ UNCHANGED <<mem, calling, d, left, neg, base>>
Digits ==
  /\ pc = "digits"
  /\ IF Digit(mem[s]) < base
     THEN /\ val' = AsLong(val * base + Digit(mem[s]))
          /\ s' = s + 1 /\ UNCHANGED <<pc, result>>
     ELSE result' = (IF neg THEN AsLong(-val) ELSE val) /\ pc' = "done" /\ UNCHANGED <<s, val>>
  /\ UNCHANGED <<mem, calling, d, left, neg, base>>

-----------------------------------------------------------------------------
NumberCall == call.fn = "strtol" /\ call.p = 0 /\ call.q = 0 /\ call.n \in Bases /\ call.c = 0

StrtolNext == strtol \/ Space \/ Sign \/ Prefix \/ Digits

\* One call of one function, on a memory of the kind it is for.
Calls(names) ==
  [fn : names, p : Address, q : Address, n : (0 .. Cardinality(Address)) \cup Bases,
   c : {mem[a] : a \in Address} \cup Fills \cup {0}]
Init ==
  /\ \/ mem \in Blocks /\ call \in Calls({"memmove", "memcpy", "memset"}) /\ MemoryCall
     \/ mem \in Texts /\ call \in Calls(Looks \cup Copies) /\ StringCall
     \/ mem \in Numbers /\ call \in Calls({"strtol"}) /\ NumberCall
  /\ MemoryInit /\ StringsInit
  /\ neg = FALSE /\ base = 0 /\ val = 0

Next ==
  \/ MemoryNext /\ UNCHANGED <<places, number>>
  \/ StringsNext /\ UNCHANGED <<registers, number>>
  \/ StrtolNext /\ UNCHANGED registers

Spec == Init /\ [][Next]_vars
FairSpec == Spec /\ WF_vars(Next)

-----------------------------------------------------------------------------
(* Properties. *)

\* Every variable has its type: the string is not read past its NUL, and the other
\* functions do not leave memory either.
StrtolTypeOK ==
  /\ MemoryTypeOK /\ StringsTypeOK
  /\ pc \in {"call", "movs", "stos", "cld", "copy", "space", "sign", "prefix", "digits", "done"}
  /\ neg \in BOOLEAN /\ base \in Nat /\ val \in -(LONG \div 2) .. LONG \div 2 - 1
  /\ call.fn = "strtol" => s \in Address

\* Every call returns.
CallReturns == <>(pc = "done")

\* Where, by the text, the number's digits begin and end, and their base.  The 0 of an
\* octal number may as well be one of its digits.
First == CHOOSE a \in Address : mem[a] \notin {32, 9} /\ \A b \in 0 .. a - 1 : mem[b] \in {32, 9}
Unsigned == IF mem[First] \in {43, 45} THEN First + 1 ELSE First
Hex == call.n \in {0, 16} /\ mem[Unsigned] = 48 /\ mem[Unsigned + 1] = 120
TrueBase ==
  CASE Hex -> 16
    [] ~Hex /\ call.n = 0 -> IF mem[Unsigned] = 48 THEN 8 ELSE 10
    [] OTHER -> call.n
Start == IF Hex THEN Unsigned + 2 ELSE Unsigned
End == CHOOSE a \in Address :
  /\ a >= Start /\ Digit(mem[a]) >= TrueBase
  /\ \A b \in Start .. a - 1 : Digit(mem[b]) < TrueBase
Partial[k \in Start - 1 .. End - 1] ==
  IF k < Start THEN 0 ELSE Partial[k - 1] + Digit(mem[k]) * Power(TrueBase, End - 1 - k)
Value == Partial[End - 1]

\* The number is the sum of its digits, weighted by powers of its base, as far as that
\* is in a long's range, and with its sign; wrapping at each digit is no different
\* from wrapping at the end.
ReadsNumber ==
  pc = "done" /\ call.fn = "strtol" =>
    result = AsLong(IF mem[First] = 45 THEN -Value ELSE Value)

\* endptr is where the first character is that does not belong to the number.
EndsAtNoDigit == pc = "done" /\ call.fn = "strtol" => s = End

\* Together: what the functions on strings leave in memory, and what they return.
StringsAsPromised ==
  /\ CopiesString /\ CopyResult /\ ComparesAtFirstDifference /\ FindsFirst
  /\ ReadsNumber /\ EndsAtNoDigit
=============================================================================
