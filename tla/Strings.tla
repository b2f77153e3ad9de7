------------------------------ MODULE Strings -------------------------------
(***************************************************************************)
(* lib/string.c: the functions on strings.  Those that write are stepped   *)
(* through, one character at a time; those that only look are functions of *)
(* memory.  A character is its code, 0 ends a string.                      *)
(***************************************************************************)
EXTENDS MemoryOps, FiniteSets

CONSTANT Texts    \* memories in which there are strings

\* Memory of bytes, with a string from every address on: the last byte is 0.
StringMemory(m) == \E last \in DOMAIN m \cap Nat : m \in [0 .. last -> 0 .. BYTES - 1] /\ m[last] = 0

ASSUME StringsAssumption == \A m \in Texts : StringMemory(m)

VARIABLES d, s, left   \* dst and src of a function, and how much size is left

places == <<d, s, left>>

-----------------------------------------------------------------------------
(* Looking.  A loop is a function of how many steps it has made, k. *)

strlen(m, p) == LET loop[k \in Nat] == IF m[p + k] # 0 THEN loop[k + 1] ELSE k IN loop[0]

strnlen(m, p, n) ==
  LET loop[k \in Nat] == IF k < n /\ m[p + k] # 0 THEN loop[k + 1] ELSE k IN loop[0]

strcmp(m, p, q) ==
  LET loop[k \in Nat] ==
        IF m[p + k] # 0 /\ m[p + k] = m[q + k] THEN loop[k + 1] ELSE m[p + k] - m[q + k]
  IN  loop[0]

\* Mutant: the character after the n-th is compared too.
strncmp_one_more(m, p, q, n) ==
  LET loop[k \in Nat] ==
        IF k < n /\ m[p + k] # 0 /\ m[p + k] = m[q + k] THEN loop[k + 1]
        ELSE m[p + k] - m[q + k]
  IN  loop[0]
strncmp(m, p, q, n) ==
  LET loop[k \in Nat] ==
        IF k < n /\ m[p + k] # 0 /\ m[p + k] = m[q + k] THEN loop[k + 1]
        ELSE IF k = n THEN 0 ELSE m[p + k] - m[q + k]
  IN  loop[0]

memcmp(m, p, q, n) ==
  LET loop[k \in Nat] ==
        IF k = n THEN 0 ELSE IF m[p + k] # m[q + k] THEN m[p + k] - m[q + k] ELSE loop[k + 1]
  IN  loop[0]

Null == -1
\* Mutant: the end of the string is returned when there is no c.
strchr_end(m, p, c) ==
  LET loop[k \in Nat] == IF m[p + k] \in {0, c} THEN p + k ELSE loop[k + 1] IN loop[0]
strchr(m, p, c) ==
  LET loop[k \in Nat] == IF m[p + k] = 0 THEN Null ELSE IF m[p + k] = c THEN p + k ELSE loop[k + 1]
  IN  loop[0]

strfind(m, p, c) ==
  LET loop[k \in Nat] == IF m[p + k] # 0 /\ m[p + k] # c THEN loop[k + 1] ELSE p + k IN loop[0]

memfind(m, p, c, n) ==
  LET loop[k \in Nat] == IF k < n /\ m[p + k] # c % BYTES THEN loop[k + 1] ELSE p + k IN loop[0]

-----------------------------------------------------------------------------
(* Calls. *)

Looked ==
  LET p == call.p  q == call.q  n == call.n  c == call.c IN
  CASE call.fn = "strlen"  -> strlen(mem, p)
    [] call.fn = "strnlen" -> strnlen(mem, p, n)
    [] call.fn = "strcmp"  -> strcmp(mem, p, q)
    [] call.fn = "strncmp" -> strncmp(mem, p, q, n)
    [] call.fn = "memcmp"  -> memcmp(mem, p, q, n)
    [] call.fn = "strchr"  -> strchr(mem, p, c)
    [] call.fn = "strfind" -> strfind(mem, p, c)
    [] call.fn = "memfind" -> memfind(mem, p, c, n)

Copies == {"strcpy", "strcat", "strncpy", "strlcpy"}
Looks == {"strlen", "strnlen", "strcmp", "strncmp", "memcmp", "strchr", "strfind", "memfind"}

Look ==
  /\ pc = "call" /\ call.fn \in Looks
  /\ result' = Looked /\ pc' = "done"
  /\ UNCHANGED <<mem, calling, places>>

StartCopy ==
  /\ pc = "call" /\ call.fn \in Copies
  /\ d' = IF call.fn = "strcat" THEN call.p + strlen(mem, call.p) ELSE call.p
  /\ s' = call.q /\ left' = call.n
  /\ pc' = "copy"
  /\ UNCHANGED <<mem, calling, result>>

\* strcpy, which strcat calls: the NUL is the last character copied.
\* Mutant: the character to come is tested, and the NUL not copied.
CopyAll_before ==
  /\ pc = "copy" /\ call.fn \in {"strcpy", "strcat"}
  /\ IF mem[s] = 0 THEN pc' = "done" /\ result' = call.p /\ UNCHANGED <<mem, d, s>>
     ELSE mem' = [mem EXCEPT ![d] = mem[s]] /\ d' = d + 1 /\ s' = s + 1 /\ UNCHANGED <<pc, result>>
  /\ UNCHANGED <<calling, left>>
CopyAll ==
  /\ pc = "copy" /\ call.fn \in {"strcpy", "strcat"}
  /\ mem' = [mem EXCEPT ![d] = mem[s]]
  /\ d' = d + 1 /\ s' = s + 1
  /\ IF mem[s] = 0 THEN pc' = "done" /\ result' = call.p ELSE UNCHANGED <<pc, result>>
  /\ UNCHANGED <<calling, left>>

\* Mutant: the source is left behind when it has ended.
CopyPadding_on ==
  /\ pc = "copy" /\ call.fn = "strncpy"
  /\ IF left > 0
     THEN /\ mem' = [mem EXCEPT ![d] = mem[s]]
          /\ d' = d + 1 /\ left' = left - 1
          /\ s' = s + 1
          /\ UNCHANGED <<pc, result>>
     ELSE pc' = "done" /\ result' = call.p /\ UNCHANGED <<mem, d, s, left>>
  /\ UNCHANGED calling
CopyPadding ==
  /\ pc = "copy" /\ call.fn = "strncpy"
  /\ IF left > 0
     THEN /\ mem' = [mem EXCEPT ![d] = mem[s]]
          /\ d' = d + 1 /\ left' = left - 1
          /\ s' = IF mem'[s] # 0 THEN s + 1 ELSE s
          /\ UNCHANGED <<pc, result>>
     ELSE pc' = "done" /\ result' = call.p /\ UNCHANGED <<mem, d, s, left>>
  /\ UNCHANGED calling

\* Mutant: the NUL is not counted in the size.
CopyLimited_full ==
  /\ pc = "copy" /\ call.fn = "strlcpy"
  /\ IF left > 0 /\ mem[s] # 0
     THEN /\ mem' = [mem EXCEPT ![d] = mem[s]]
          /\ d' = d + 1 /\ s' = s + 1 /\ left' = left - 1
          /\ UNCHANGED <<pc, result>>
     ELSE /\ mem' = IF call.n > 0 THEN [mem EXCEPT ![d] = 0] ELSE mem
          /\ pc' = "done" /\ result' = d - call.p
          /\ UNCHANGED <<d, s, left>>
  /\ UNCHANGED calling
CopyLimited ==
  /\ pc = "copy" /\ call.fn = "strlcpy"
  /\ IF left > 1 /\ mem[s] # 0
     THEN /\ mem' = [mem EXCEPT ![d] = mem[s]]
          /\ d' = d + 1 /\ s' = s + 1 /\ left' = left - 1
          /\ UNCHANGED <<pc, result>>
     ELSE /\ mem' = IF call.n > 0 THEN [mem EXCEPT ![d] = 0] ELSE mem
          /\ pc' = "done" /\ result' = d - call.p
          /\ UNCHANGED <<d, s, left>>
  /\ UNCHANGED calling

-----------------------------------------------------------------------------
\* The number of characters before the first that is in the set: a reference for the
\* loops.
Before(m, p, stop) == CHOOSE k \in 0 .. Cardinality(DOMAIN m) - 1 - p :
  m[p + k] \in stop /\ \A j \in 0 .. k - 1 : m[p + j] \notin stop
Length(m, p) == Before(m, p, {0})
Least(a, b) == IF a < b THEN a ELSE b

\* Calls that C allows: sizes stay in memory, and what is written does not overlap
\* what is read.  What a function does not take is 0.
Copied ==
  CASE call.fn = "strcpy" -> Length(mem, src) + 1
    [] call.fn = "strcat" -> Length(mem, dst) + Length(mem, src) + 1
    [] OTHER -> call.n

StringCall ==
  \/ /\ call.fn \in Copies /\ call.c = 0
     /\ dst .. dst + Copied - 1 \subseteq Address
     /\ (dst .. dst + Copied - 1) \cap (src .. src + Length(mem, src)) = {}
     /\ call.fn \in {"strcpy", "strcat"} => call.n = 0
  \/ call.fn = "memcmp" /\ {src, dst} \subseteq 0 .. Cardinality(Address) - call.n /\ call.c = 0
  \/ call.fn = "memfind" /\ call.p \in 0 .. Cardinality(Address) - call.n /\ call.q = 0
  \/ call.fn = "strncmp" /\ call.c = 0
  \/ call.fn = "strcmp" /\ call.n = 0 /\ call.c = 0
  \/ call.fn = "strnlen" /\ call.q = 0 /\ call.c = 0
  \/ call.fn = "strlen" /\ call.q = 0 /\ call.n = 0 /\ call.c = 0
  \/ call.fn \in {"strchr", "strfind"} /\ call.q = 0 /\ call.n = 0 /\ call.c \in 1 .. BYTES - 1

StringsInit == d = 0 /\ s = 0 /\ left = 0

StringsNext == Look \/ StartCopy \/ CopyAll \/ CopyPadding \/ CopyLimited

-----------------------------------------------------------------------------
(* Properties. *)

\* Every variable has its type: nothing is written or read outside memory.
StringsTypeOK ==
  /\ DOMAIN mem = DOMAIN before
  /\ result \in Int /\ left \in Nat
  /\ d \in Nat /\ s \in Nat /\ (pc = "copy" => s \in Address)

\* What ends up at dst, as the string it was made from has it: the whole string and
\* its NUL, behind what was there (strcat), padded with NULs or cut off (strncpy), or
\* cut off to end with a NUL (strlcpy).  Nothing else in memory has changed.
Target ==
  LET len == Length(before, call.q)
      kept == Least(len, call.n - 1)
      from == IF call.fn = "strcat" THEN call.p + Length(before, call.p) ELSE call.p
      text(k) == IF k < len THEN before[call.q + k] ELSE 0
  IN  CASE call.fn \in {"strcpy", "strcat"} ->
             [a \in from .. from + len |-> text(a - from)]
        [] call.fn = "strncpy" -> [a \in from .. from + call.n - 1 |-> text(a - from)]
        [] call.fn = "strlcpy" ->
             [a \in from .. from + kept |-> IF a - from < kept THEN text(a - from) ELSE 0]
CopiesString ==
  pc = "done" /\ call.fn \in Copies =>
    mem = [a \in Address |-> IF a \in DOMAIN Target THEN Target[a] ELSE before[a]]

\* strlcpy returns how much it copied, the others where they were told to copy to.
CopyResult ==
  pc = "done" =>
    CASE call.fn = "strlcpy" -> result = IF call.n = 0 THEN 0 ELSE Least(Length(before, call.q), call.n - 1)
      [] call.fn \in {"strcpy", "strcat", "strncpy", "memset", "memmove", "memcpy"} -> result = call.p
      [] OTHER -> TRUE

\* A comparison decides by the first place, within the limit, where the two differ,
\* and a string that has ended is less than one that has not.
Differ ==
  {k \in 0 .. Cardinality(Address) - 1 :
     /\ {call.p + k, call.q + k} \subseteq Address
     /\ call.fn # "strcmp" => k < call.n
     /\ before[call.p + k] # before[call.q + k]
     /\ call.fn # "memcmp" => \A j \in 0 .. k - 1 : before[call.p + j] # 0}
ComparesAtFirstDifference ==
  pc = "done" /\ call.fn \in {"strcmp", "strncmp", "memcmp"} =>
    IF Differ = {} THEN result = 0
    ELSE \E k \in Differ :
           /\ \A j \in Differ : k <= j
           /\ result = before[call.p + k] - before[call.q + k]

\* "Return a pointer to the first occurrence of 'c'", or null (strchr), or the end of
\* the string (strfind) or of the memory (memfind); a length is where the NUL is.
FindsFirst ==
  pc = "done" =>
    CASE call.fn = "strlen"  -> result = Length(before, call.p)
      [] call.fn = "strnlen" -> result = Least(call.n, Length(before, call.p))
      [] call.fn = "strchr"  ->
           LET at == call.p + Before(before, call.p, {0, call.c}) IN
           result = IF before[at] = call.c THEN at ELSE Null
      [] call.fn = "strfind" -> result = call.p + Before(before, call.p, {0, call.c})
      [] call.fn = "memfind" ->
           LET found == {a \in call.p .. call.p + call.n - 1 : before[a] = call.c % BYTES} IN
           IF found = {} THEN result = call.p + call.n
           ELSE result \in found /\ \A a \in found : result <= a
      [] OTHER -> TRUE
=============================================================================
