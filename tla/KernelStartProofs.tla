-------------------------- MODULE KernelStartProofs -------------------------
(***************************************************************************)
(* The way from the firmware to the kernel's C code, for every kernel that *)
(* is laid out as kernel.ld does, every size of sector and page and every  *)
(* timing of the disk and the keyboard controller: what is written to      *)
(* memory, and that it is what was linked.                                 *)
(***************************************************************************)
EXTENDS KernelStart, SequenceTheorems, TLAPS

-----------------------------------------------------------------------------
(* Division, whatever the divisor. *)

LEMMA ProductGrows ==
  ASSUME NEW n \in Nat, NEW q \in Int, NEW r \in Int, q >= r
  PROVE  n * q >= n * r
  OBVIOUS

LEMMA QuotientUnique ==
  ASSUME NEW n \in Nat \ {0}, NEW q \in Int, NEW r \in Int,
         NEW m \in 0 .. n - 1, NEW k \in 0 .. n - 1, q * n + m = r * n + k
  PROVE  q = r /\ m = k
<1> DEFINE x == n * q
           y == n * r
<1>1. q * n = x /\ r * n = y
  OBVIOUS
<1>2. n * (r + 1) = y + n /\ n * (q + 1) = x + n /\ x \in Int /\ y \in Int
  OBVIOUS
<1>3. q >= r + 1 => x >= y + n
  BY <1>2, ProductGrows
<1>4. r >= q + 1 => y >= x + n
  BY <1>2, ProductGrows
<1>5. q = r => x = y
  OBVIOUS
<1> HIDE DEF x, y
<1>6. x + m = y + k
  BY <1>1
<1> QED
  BY <1>2, <1>3, <1>4, <1>5, <1>6

LEMMA Division ==
  ASSUME NEW n \in Nat \ {0}, NEW a \in Int
  PROVE  a \div n \in Int /\ a % n \in 0 .. n - 1 /\ a = (a \div n) * n + (a % n)
<1>1. a = n * (a \div n) + (a % n) /\ a % n \in 0 .. n - 1 /\ a \div n \in Int
  OBVIOUS
<1>2. n * (a \div n) = (a \div n) * n
  BY <1>1
<1> QED
  BY <1>1, <1>2

LEMMA Quotient ==
  ASSUME NEW n \in Nat \ {0}, NEW q \in Int, NEW m \in 0 .. n - 1
  PROVE  (q * n + m) \div n = q /\ (q * n + m) % n = m
<1> DEFINE a == q * n + m
<1>1. a \in Int
  OBVIOUS
<1>2. a \div n \in Int /\ a % n \in 0 .. n - 1 /\ a = (a \div n) * n + (a % n)
  BY <1>1, Division
<1>3. a = q * n + m
  OBVIOUS
<1> DEFINE d == a \div n
           e == a % n
<1> HIDE DEF d, e
<1>4. d \in Int /\ e \in 0 .. n - 1 /\ d * n + e = q * n + m
  BY <1>2, <1>3 DEF d, e
<1>5. d = q /\ e = m
  BY <1>4, QuotientUnique
<1> QED
  BY <1>5 DEF d, e

-----------------------------------------------------------------------------
(* Sectors. *)

LEMMA Sizes ==
  /\ SECTSIZE \in Nat \ {0} /\ ELFHDR \in Nat /\ ELFHDR % SECTSIZE = 0
  /\ MEMSIZE \in Nat /\ LIMIT \in Nat
  /\ ELFHDR + 8 * SECTSIZE <= MEMSIZE /\ MEMSIZE <= LIMIT
  BY BootAssumption, SectorAssumption

LEMMA Rounds ==
  ASSUME NEW a \in Int
  PROVE  /\ RoundDown(a) \in Int /\ RoundDown(a) <= a /\ a < RoundDown(a) + SECTSIZE
         /\ RoundDown(a) % SECTSIZE = 0 /\ RoundDown(a) = (a \div SECTSIZE) * SECTSIZE
         /\ a \div SECTSIZE \in Int
<1>1. SECTSIZE \in Nat \ {0}
  BY Sizes
<1> DEFINE q == a \div SECTSIZE
           m == a % SECTSIZE
           x == q * SECTSIZE
<1>2. q \in Int /\ m \in 0 .. SECTSIZE - 1 /\ a = x + m
  BY <1>1, Division
<1>3. x \in Int
  BY <1>1, <1>2
<1>4. (x + 0) % SECTSIZE = 0
  <2>1. 0 \in 0 .. SECTSIZE - 1
    BY <1>1
  <2> QED
    BY <1>1, <1>2, <2>1, Quotient
<1>5. RoundDown(a) = a - m
  BY DEF RoundDown
<1> HIDE DEF q, m, x
<1>6. RoundDown(a) = x /\ x + 0 = x
  BY <1>1, <1>2, <1>3, <1>5
<1> QED
  BY <1>1, <1>2, <1>3, <1>4, <1>6 DEF q, x

\* A position that is a sector's beginning, next to the end of what is asked for.
LEMMA SectorEnds ==
  ASSUME NEW a \in Int, a % SECTSIZE = 0, NEW e \in Int
  PROVE  /\ (a + SECTSIZE) % SECTSIZE = 0
         /\ a >= e => a >= RoundDown(e + SECTSIZE - 1)
         /\ a < e => a + SECTSIZE <= RoundDown(e + SECTSIZE - 1)
<1>1. SECTSIZE \in Nat \ {0}
  BY Sizes
<1> DEFINE x == a \div SECTSIZE
           u == RoundDown(e + SECTSIZE - 1)
           y == (e + SECTSIZE - 1) \div SECTSIZE
<1>2. x \in Int /\ a = x * SECTSIZE + (a % SECTSIZE)
  BY <1>1, Division
<1>3. e + SECTSIZE - 1 \in Int
  BY <1>1
<1>4. u \in Int /\ u <= e + SECTSIZE - 1 /\ e + SECTSIZE - 1 < u + SECTSIZE
      /\ y \in Int /\ u = y * SECTSIZE
  BY <1>3, Rounds
<1> HIDE DEF x, u, y
<1>5. a = SECTSIZE * x /\ u = SECTSIZE * y
  BY <1>1, <1>2, <1>4
<1>6. SECTSIZE * (x + 1) = a + SECTSIZE /\ SECTSIZE * (y + 1) = u + SECTSIZE
  BY <1>1, <1>2, <1>4, <1>5
<1>7. y >= x + 1 => u >= a + SECTSIZE
  BY <1>1, <1>2, <1>4, <1>5, <1>6, ProductGrows
<1>8. x >= y => a >= u
  BY <1>1, <1>2, <1>4, <1>5, ProductGrows
<1>9. (a + SECTSIZE) % SECTSIZE = 0
  <2>1. 0 \in 0 .. SECTSIZE - 1 /\ (x + 1) * SECTSIZE + 0 = a + SECTSIZE /\ x + 1 \in Int
    BY <1>1, <1>2, <1>6
  <2>2. ((x + 1) * SECTSIZE + 0) % SECTSIZE = 0
    BY <1>1, <2>1, Quotient
  <2> QED
    BY <2>1, <2>2
<1>10. x >= y + 1 => a >= u + SECTSIZE
  BY <1>1, <1>2, <1>4, <1>5, <1>6, ProductGrows
<1>11. a >= e => a >= u
  BY <1>1, <1>2, <1>4, <1>7, <1>8
<1>12. a < e => a + SECTSIZE <= u
  BY <1>1, <1>2, <1>4, <1>7, <1>8
<1> QED
  BY <1>9, <1>11, <1>12 DEF u

\* Where the first page goes.
LEMMA PageSectors ==
  RoundDown(ELFHDR) = ELFHDR /\ Sectors(ELFHDR, SECTSIZE * 8) = ELFHDR .. ELFHDR + 8 * SECTSIZE - 1
<1>1. SECTSIZE \in Nat \ {0} /\ ELFHDR \in Nat /\ ELFHDR % SECTSIZE = 0
  BY Sizes
<1>2. RoundDown(ELFHDR) = ELFHDR
  BY <1>1 DEF RoundDown
<1> DEFINE e == ELFHDR + SECTSIZE * 8
           u == RoundDown(e + SECTSIZE - 1)
           x == ELFHDR \div SECTSIZE
<1>3. x \in Int /\ ELFHDR = x * SECTSIZE + 0
  BY <1>1, Division
<1>4. (x + 8) * SECTSIZE + (SECTSIZE - 1) = e + SECTSIZE - 1
  BY <1>1, <1>3
<1>5. SECTSIZE - 1 \in 0 .. SECTSIZE - 1 /\ x + 8 \in Int
  BY <1>1, <1>3
<1>6. ((x + 8) * SECTSIZE + (SECTSIZE - 1)) % SECTSIZE = SECTSIZE - 1
  BY <1>1, <1>5, Quotient
<1>7. u = (e + SECTSIZE - 1) - (SECTSIZE - 1)
  BY <1>4, <1>6 DEF RoundDown
<1>8. e \in Int /\ e = ELFHDR + 8 * SECTSIZE
  BY <1>1
<1>9. Sectors(ELFHDR, SECTSIZE * 8) = ELFHDR .. u - 1
  BY <1>2 DEF Sectors
<1> HIDE DEF e, u
<1>10. u = e
  BY <1>1, <1>7, <1>8
<1>11. u - 1 = ELFHDR + 8 * SECTSIZE - 1
  BY <1>1, <1>8, <1>10
<1> QED
  BY <1>2, <1>9, <1>11, Zenon

\* The disk makes of its four registers the number that was put into them.
SectorNumbers == BYTE * BYTE * BYTE * TOP

LEMMA Registered ==
  ASSUME NEW o \in Nat, o < SectorNumbers
  PROVE  LBA(Registers(o)) = o
<1>1. BYTE \in Nat \ {0} /\ TOP \in Nat \ {0} /\ TOP <= BYTE
  BY BootAssumption
<1> DEFINE q1 == o \div BYTE
           r1 == o % BYTE
           q2 == q1 \div BYTE
           r2 == q1 % BYTE
           q3 == q2 \div BYTE
           r3 == q2 % BYTE
<1>2. q1 \in Int /\ r1 \in 0 .. BYTE - 1 /\ o = q1 * BYTE + r1
  BY <1>1, Division
<1>3. q2 \in Int /\ r2 \in 0 .. BYTE - 1 /\ q1 = q2 * BYTE + r2
  BY <1>1, <1>2, Division
<1>4. q3 \in Int /\ r3 \in 0 .. BYTE - 1 /\ q2 = q3 * BYTE + r3
  BY <1>1, <1>3, Division
<1> HIDE DEF q1, r1, q2, r2, q3, r3
<1>5. BYTE2 \in Nat \ {0} /\ BYTE3 \in Nat \ {0} /\ BYTE2 = BYTE * BYTE /\ BYTE3 = BYTE2 * BYTE
  BY <1>1 DEF BYTE2, BYTE3
<1>6. o \div BYTE2 = q2
  <2> DEFINE m == r2 * BYTE + r1
  <2>1. m \in 0 .. BYTE2 - 1
    <3>1. BYTE * (BYTE - 1) >= BYTE * r2
      BY <1>1, <1>3, ProductGrows
    <3>2. BYTE * (BYTE - 1) = BYTE2 - BYTE /\ BYTE * r2 = r2 * BYTE /\ r2 * BYTE \in Nat
      BY <1>1, <1>3, <1>5
    <3> DEFINE z == r2 * BYTE
    <3> HIDE DEF z
    <3>3. z \in Nat /\ z <= BYTE2 - BYTE /\ r1 \in 0 .. BYTE - 1
      BY <1>2, <3>1, <3>2 DEF z
    <3>4. z + r1 \in 0 .. BYTE2 - 1
      BY <1>1, <1>5, <3>3
    <3> QED
      BY <3>4 DEF z
  <2>2. o = q2 * BYTE2 + m
    <3>1. (q2 * BYTE + r2) * BYTE = q2 * (BYTE * BYTE) + r2 * BYTE
      BY <1>1, <1>3
    <3> QED
      BY <1>1, <1>2, <1>3, <1>5, <3>1
  <2> HIDE DEF m
  <2> QED
    BY <1>3, <1>5, <2>1, <2>2, Quotient
<1>7. o \div BYTE3 = q3
  <2> DEFINE m == r3 * BYTE2 + (r2 * BYTE + r1)
  <2>1. m \in 0 .. BYTE3 - 1
    <3>1. BYTE * (BYTE - 1) >= BYTE * r2
      BY <1>1, <1>3, ProductGrows
    <3>2. BYTE * (BYTE - 1) = BYTE2 - BYTE /\ BYTE * r2 = r2 * BYTE /\ r2 * BYTE \in Nat
      BY <1>1, <1>3, <1>5
    <3>3. BYTE2 * (BYTE - 1) >= BYTE2 * r3
      BY <1>1, <1>4, <1>5, ProductGrows
    <3>4. BYTE2 * (BYTE - 1) = BYTE3 - BYTE2 /\ BYTE2 * r3 = r3 * BYTE2 /\ r3 * BYTE2 \in Nat
      BY <1>1, <1>4, <1>5
    <3> DEFINE z == r2 * BYTE
               w == r3 * BYTE2
    <3> HIDE DEF z, w
    <3>5. z \in Nat /\ z <= BYTE2 - BYTE /\ r1 \in 0 .. BYTE - 1 /\ w \in Nat /\ w <= BYTE3 - BYTE2
      BY <1>2, <3>1, <3>2, <3>3, <3>4 DEF z, w
    <3>6. w + (z + r1) \in 0 .. BYTE3 - 1
      BY <1>1, <1>5, <3>5
    <3> QED
      BY <3>6 DEF z, w
  <2>2. o = q3 * BYTE3 + m
    <3>1. ((q3 * BYTE + r3) * BYTE + r2) * BYTE = q3 * ((BYTE * BYTE) * BYTE) + r3 * (BYTE * BYTE) + r2 * BYTE
      BY <1>1, <1>3, <1>4
    <3> QED
      BY <1>1, <1>2, <1>3, <1>4, <1>5, <3>1
  <2> HIDE DEF m
  <2> QED
    BY <1>4, <1>5, <2>1, <2>2, Quotient
<1>8. q3 \in 0 .. TOP - 1
  <2> DEFINE m == r3 * BYTE2 + (r2 * BYTE + r1)
             x == BYTE3 * q3
  <2>1. o = x + m
    <3>1. ((q3 * BYTE + r3) * BYTE + r2) * BYTE = ((BYTE * BYTE) * BYTE) * q3 + r3 * (BYTE * BYTE) + r2 * BYTE
      BY <1>1, <1>3, <1>4
    <3> QED
      BY <1>1, <1>2, <1>3, <1>4, <1>5, <3>1
  <2>2. m \in Nat /\ x \in Int
    BY <1>1, <1>2, <1>3, <1>4, <1>5
  <2>3. q3 >= TOP => x >= BYTE3 * TOP
    BY <1>1, <1>4, <1>5, ProductGrows
  <2>4. BYTE3 * TOP = SectorNumbers /\ BYTE3 * TOP \in Nat
    BY <1>1, <1>5 DEF SectorNumbers
  <2>5. -1 >= q3 => BYTE3 * (-1) >= x
    BY <1>1, <1>4, <1>5, ProductGrows
  <2>6. BYTE3 * (-1) = -BYTE3
    BY <1>5
  <2>7. q3 >= 0
    <3>1. o \div BYTE3 >= 0
      BY <1>5
    <3> QED
      BY <1>7, <3>1
  <2> HIDE DEF m, x
  <2>8. q3 < TOP
    BY <1>1, <1>4, <2>1, <2>2, <2>3, <2>4
  <2> QED
    BY <1>1, <1>4, <2>7, <2>8
<1>9. Registers(o) = <<r1, r2, q2 % BYTE, q3 % BYTE>>
  <2>1. o % BYTE = r1 /\ (o \div BYTE) % BYTE = r2
    BY DEF r1, r2, q1
  <2> QED
    BY <1>6, <1>7, <2>1 DEF Registers
<1>10. q2 % BYTE = r3 /\ (q3 % BYTE) % TOP = q3
  <2>1. q2 % BYTE = r3
    BY DEF r3
  <2>2. q3 % BYTE = q3
    <3>1. (0 * BYTE + q3) % BYTE = q3
      BY <1>1, <1>8, Quotient
    <3> QED
      BY <1>1, <1>8, <3>1
  <2>3. q3 % TOP = q3
    <3>1. (0 * TOP + q3) % TOP = q3
      BY <1>1, <1>8, Quotient
    <3> QED
      BY <1>1, <1>8, <3>1
  <2> QED
    BY <2>1, <2>2, <2>3
<1>11. LBA(Registers(o)) = r1 + (r2 * BYTE) + (r3 * BYTE2) + (q3 * BYTE3)
  BY <1>9, <1>10 DEF LBA
<1>12. o = r1 + (r2 * BYTE) + (r3 * BYTE2) + (q3 * BYTE3)
  <2>1. ((q3 * BYTE + r3) * BYTE + r2) * BYTE = q3 * ((BYTE * BYTE) * BYTE) + r3 * (BYTE * BYTE) + r2 * BYTE
    BY <1>1, <1>3, <1>4
  <2>2. q3 * ((BYTE * BYTE) * BYTE) = q3 * BYTE3 /\ r3 * (BYTE * BYTE) = r3 * BYTE2
    BY <1>5
  <2>3. o = q3 * BYTE3 + r3 * BYTE2 + r2 * BYTE + r1
    BY <1>1, <1>2, <1>3, <1>4, <2>1, <2>2
  <2> DEFINE x == q3 * BYTE3
             y == r3 * BYTE2
             z == r2 * BYTE
  <2>4. x \in Int /\ y \in Int /\ z \in Int
    BY <1>1, <1>3, <1>4, <1>5
  <2> HIDE DEF x, y, z
  <2>5. o = r1 + z + y + x
    BY <1>2, <2>3, <2>4 DEF x, y, z
  <2> QED
    BY <2>5 DEF x, y, z
<1> QED
  BY <1>11, <1>12

-----------------------------------------------------------------------------
(* The invariant. *)

Code == [base |-> 0, limit |-> LIMIT, type |-> {"X", "R"}]
Data == [base |-> 0, limit |-> LIMIT, type |-> {"W", "R"}]

InBootS == {"start", "seta20.1", "0xd1", "seta20.2", "0xdf", "lgdt", "pe", "ljmp", "protcseg"}
Reading == {"readseg", "command", "insl"}
InBootmain == {"bootmain", "header", "segments", "bad", "entry"} \cup Reading

\* The controller has got both bytes, or has the second still in its buffer.
A20Asked == (input = "0xdf" /\ expects) \/ (input = "empty" /\ a20)

\* boot.S: what the controller has seen of the two bytes, and what the segments are.
Modes ==
  /\ pc \in InBootS \cup InBootmain
  /\ a20 \in BOOLEAN /\ expects \in BOOLEAN
  /\ pc = "start" => ~CR0_PE
  /\ pc # "start" => ~interrupts
  /\ pc \in {"start", "seta20.1"} => ~expects /\ input \in {"empty", "0xed"}
  /\ pc = "0xd1" => ~expects /\ input = "empty"
  /\ pc = "seta20.2" => (input = "0xd1" /\ ~expects) \/ (input = "empty" /\ expects)
  /\ pc = "0xdf" => expects /\ input = "empty"
  /\ pc \in {"lgdt", "pe", "ljmp", "protcseg"} \cup InBootmain => A20Asked
  /\ pc \in InBootS \ {"start"} => ds.base = 0
  /\ pc \in {"pe", "ljmp", "protcseg"} => gdtr = gdt
  /\ pc \in InBootmain => ds = Data /\ es = Data

LoaderTypes ==
  /\ image \in Images
  /\ memory \in [0 .. MEMSIZE - 1 -> Int]
  /\ BSY \in BOOLEAN /\ RDY \in BOOLEAN
  /\ ph \in Nat /\ (pc \in InBootS \cup {"bootmain"} => ph = 0)

\* What readseg has been called for.
Request ==
  IF ph = 0 THEN [p |-> ELFHDR, count |-> SECTSIZE * 8, o |-> 0]
  ELSE [p |-> image.ph[ph - 1].p_pa, count |-> image.ph[ph - 1].p_memsz, o |-> image.ph[ph - 1].p_offset]

\* readseg: the sectors up to pa have been read.
ReadInv ==
  pc \in Reading =>
    /\ ph > 0 => image.magic /\ ph - 1 \in DOMAIN image.ph
    /\ pa \in Int /\ offset \in Nat \ {0} /\ pa % SECTSIZE = 0
    /\ end_pa = Request.p + Request.count
    /\ pa >= RoundDown(Request.p)
    /\ (offset - 1) * SECTSIZE = pa - Request.p + Request.o
    /\ pc # "readseg" => pa < end_pa
    /\ \A a \in RoundDown(Request.p) .. pa - 1 : memory[a] = a - Request.p + Request.o

\* readsect: the disk has been asked for the sector that is waited for.
Sent(n) == [k \in 0 .. SECTSIZE - 1 |-> (n - 1) * SECTSIZE + k]
DiskInv ==
  pc = "insl" => RDY /\ sector = offset /\ (~BSY => data = Sent(offset) /\ input = "empty")

\* Line 20 is through before anything has been loaded.
A20Inv ==
  /\ pc \in {"header", "segments", "bad", "entry"} => a20
  /\ pc \in Reading /\ (ph > 0 \/ pa > ELFHDR) => a20

\* The first page has been read ...
PageInv ==
  pc \in {"header", "segments", "entry"} \/ (pc \in Reading /\ ph > 0) =>
    \A a \in ELFHDR .. ELFHDR + 8 * SECTSIZE - 1 : memory[a] = a - ELFHDR

\* ... and so have these segments.
Loaded == IF pc \in {"segments", "entry"} THEN ph - 1 ELSE IF pc \in Reading THEN ph - 2 ELSE 0

\* What the kernel writes before its C code: a word of its stack, and the BSS.
Slot == RELOC(image.bootstacktop) - 1
LowBss == RELOC(image.edata) .. RELOC(image.end) - 1
InInit == {image.i386_init, image.i386_init + 1}
Overwritten(a) == pc = "entry" /\ ((eip \in InInit /\ a = Slot) \/ (Cleared /\ a \in LowBss))

SegmentsInv ==
  /\ pc = "segments" => image.magic /\ ph \in 1 .. Len(image.ph) + 1
  /\ pc = "entry" => image.magic /\ ph = Len(image.ph) + 1
  /\ pc = "header" => ph = 0
  /\ \A k \in 1 .. Loaded : \A a \in Sectors(image.ph[k].p_pa, image.ph[k].p_memsz) :
       memory[a] = a - image.ph[k].p_pa + image.ph[k].p_offset \/ Overwritten(a)

\* entry.S and the first step of i386_init.
EntryInv ==
  /\ pc # "entry" => eip = 0 /\ ~paging
  /\ pc = "entry" =>
       /\ eip \in {image._start, image._start + 1, image._start + 2,
                   image.relocated, image.relocated + 1} \cup InInit
       /\ paging <=> eip \notin {image._start, image._start + 1}
       /\ eip # image._start => cr3 = RELOC(image.entry_pgdir)
       /\ eip = image.relocated + 1 => ebp = 0 /\ esp = image.bootstacktop
       /\ eip \in InInit => ebp = 0 /\ esp = image.bootstacktop - 1 /\ memory[Slot] = Spin
       /\ Cleared => \A a \in LowBss : memory[a] = Zero

IInv ==
  /\ Modes /\ LoaderTypes /\ ReadInv /\ DiskInv /\ A20Inv
  /\ PageInv /\ SegmentsInv /\ EntryInv /\ RestOfMemoryKept

-----------------------------------------------------------------------------
(* The constants. *)

Header(s) == s \in [p_pa : Nat, p_filesz : Nat, p_memsz : Nat, p_offset : Nat]

LEMMA Files ==
  ASSUME NEW file \in Images
  PROVE  /\ file.magic \in BOOLEAN /\ file.phoff \in Nat
         /\ Len(file.ph) \in Nat /\ DOMAIN file.ph = 1 .. Len(file.ph)
         /\ \A k \in DOMAIN file.ph : Header(file.ph[k])
<1>1. FileLaidOut(file)
  BY ImagesAssumption
<1>2. file.ph \in Seq([p_pa : Nat, p_filesz : Nat, p_memsz : Nat, p_offset : Nat])
  BY <1>1 DEF FileLaidOut
<1>3. file.magic \in BOOLEAN /\ file.phoff \in Nat
  BY <1>1 DEF FileLaidOut
<1> DEFINE S == [p_pa : Nat, p_filesz : Nat, p_memsz : Nat, p_offset : Nat]
           s == file.ph
<1> HIDE DEF S, s
<1>4. s \in Seq(S)
  BY <1>2 DEF S, s
<1>5. Len(s) \in Nat /\ DOMAIN s = 1 .. Len(s) /\ \A k \in DOMAIN s : s[k] \in S
  BY <1>4
<1> QED
  BY <1>3, <1>5 DEF S, s, Header

SectorsOf(s) == Sectors(s.p_pa, s.p_memsz)
Page == ELFHDR .. ELFHDR + 8 * SECTSIZE - 1

LEMMA Segments ==
  ASSUME NEW file \in Images, file.magic
  PROVE  /\ file.phoff + Len(file.ph) <= 8 * SECTSIZE
         /\ \A k \in DOMAIN file.ph :
              /\ file.ph[k].p_offset % SECTSIZE = file.ph[k].p_pa % SECTSIZE
              /\ file.ph[k].p_filesz <= file.ph[k].p_memsz
              /\ file.ph[k].p_offset + file.ph[k].p_memsz <= (SectorNumbers - 1) * SECTSIZE
              /\ SectorsOf(file.ph[k]) \subseteq 0 .. MEMSIZE - 1
              /\ SectorsOf(file.ph[k]) \cap Page = {}
              /\ \A l \in DOMAIN file.ph : l # k => SectorsOf(file.ph[k]) \cap SectorsOf(file.ph[l]) = {}
<1>1. FileLaidOut(file)
  BY ImagesAssumption
<1>2. file.phoff + Len(file.ph) <= 8 * SECTSIZE
  BY <1>1 DEF FileLaidOut
<1>3. ASSUME NEW k \in DOMAIN file.ph
      PROVE  /\ file.ph[k].p_offset % SECTSIZE = file.ph[k].p_pa % SECTSIZE
             /\ file.ph[k].p_filesz <= file.ph[k].p_memsz
             /\ file.ph[k].p_offset + file.ph[k].p_memsz <= (SectorNumbers - 1) * SECTSIZE
             /\ SectorsOf(file.ph[k]) \subseteq (0 .. MEMSIZE - 1) \ Page
             /\ \A l \in (DOMAIN file.ph) \ {k} : SectorsOf(file.ph[k]) \cap SectorsOf(file.ph[l]) = {}
  BY <1>1 DEF FileLaidOut, SectorNumbers, SectorsOf, Page
<1> QED
  BY <1>2, <1>3

-----------------------------------------------------------------------------
(* boot.S. *)

LEMMA Tables ==
  Descriptor(gdt, PROT_MODE_CSEG) = Code /\ Descriptor(gdt, PROT_MODE_DSEG) = Data
<1>1. (8 \div 8) + 1 = 2 /\ (16 \div 8) + 1 = 3
  OBVIOUS
<1>2. gdt[2] = Code /\ gdt[3] = Data
  BY DEF gdt, Code, Data
<1> QED
  BY <1>1, <1>2 DEF Descriptor, PROT_MODE_CSEG, PROT_MODE_DSEG

LEMMA ModesInit == KernelInit => Modes
  BY DEF KernelInit, Init, SectorInit, Modes, InBootS, InBootmain, Reading

LEMMA ModesStep == Modes /\ [KernelNext]_kernel_vars => Modes'
<1> SUFFICES ASSUME Modes, [KernelNext]_kernel_vars PROVE Modes'
  OBVIOUS
<1> USE DEF InBootS, InBootmain, Reading
<1>1. CASE start
  BY <1>1 DEF start, Goes, RealSegment, controller, Modes
<1>2. CASE seta20_1
  BY <1>2 DEF seta20_1, Goes, NotBusy, modes, segments, controller, Modes
<1>3. CASE out_d1
  BY <1>3 DEF out_d1, Goes, modes, segments, Modes
<1>4. CASE seta20_2
  BY <1>4 DEF seta20_2, Goes, NotBusy, modes, segments, controller, Modes
<1>5. CASE out_df
  BY <1>5 DEF out_df, Goes, modes, segments, Modes, A20Asked
<1>6. CASE lgdt
  BY <1>6 DEF lgdt, Goes, segments, controller, Modes, A20Asked
<1>7. CASE set_pe
  BY <1>7 DEF set_pe, Goes, segments, controller, Modes, A20Asked
<1>8. CASE ljmp
  BY <1>8 DEF ljmp, Goes, segments, controller, Modes, A20Asked
<1>9. CASE protcseg
  BY <1>9, Tables DEF protcseg, Goes, controller, Modes, A20Asked
<1>10. CASE Controller
  BY <1>10 DEF Controller, modes, segments, Modes, A20Asked
<1>11. CASE Interrupt
  BY <1>11 DEF Interrupt, modes, segments, Modes, A20Asked
<1>12. CASE /\ pc \in InBootmain /\ pc' \in InBootmain
            /\ UNCHANGED <<modes, controller>>
  BY <1>12 DEF modes, segments, controller, Modes, A20Asked
<1>13. CASE Processor
  BY <1>12, <1>13 DEF Processor, StartBoot, CheckMagic, LoadSegment, CallEntry, MoreToRead, AskForSector,
     ReadSector, ReadsegReturns, CallReadseg
<1>14. CASE UNCHANGED sectorVars
  BY <1>14 DEF sectorVars, modes, segments, controller, Modes, A20Asked
<1>15. CASE DiskReady \/ DiskDone
  BY <1>14, <1>15 DEF DiskReady, DiskDone
<1>16. CASE Kernel
  BY <1>14, <1>16 DEF Kernel, LoadCr3, TurnOnPaging, JumpToRelocated, SetUpStack, CallInit, ClearBss, Stays
<1>17. CASE UNCHANGED kernel_vars
  BY <1>14, <1>17 DEF kernel_vars, vars
<1> QED
  BY <1>1, <1>2, <1>3, <1>4, <1>5, <1>6, <1>7, <1>8, <1>9, <1>10, <1>11, <1>13, <1>15, <1>16, <1>17
  DEF KernelNext, Loading, Next, InSector, boot_S, Firmware

-----------------------------------------------------------------------------
(* readseg. *)

\* A call of readseg that the disk and memory have room for.
Requestable(r) ==
  /\ r.p \in Nat /\ r.count \in Nat /\ r.o \in Nat
  /\ r.o % SECTSIZE = r.p % SECTSIZE
  /\ r.o + r.count <= (SectorNumbers - 1) * SECTSIZE
  /\ Sectors(r.p, r.count) \subseteq 0 .. MEMSIZE - 1

PageRequest == [p |-> ELFHDR, count |-> SECTSIZE * 8, o |-> 0]
SegmentRequest(s) == [p |-> s.p_pa, count |-> s.p_memsz, o |-> s.p_offset]

LEMMA PageRequestable == Requestable(PageRequest)
<1>1. SECTSIZE \in Nat \ {0} /\ BYTE \in Nat \ {0} /\ TOP \in Nat /\ SectorNumbers > 8
  BY BootAssumption DEF SectorNumbers
<1>2. SectorNumbers \in Nat
  BY <1>1 DEF SectorNumbers
<1>3. SECTSIZE * (SectorNumbers - 1) >= SECTSIZE * 8
  BY <1>1, <1>2, ProductGrows
<1>4. SECTSIZE * (SectorNumbers - 1) = (SectorNumbers - 1) * SECTSIZE
  BY <1>1, <1>2
<1>5. 0 + SECTSIZE * 8 <= (SectorNumbers - 1) * SECTSIZE
  BY <1>1, <1>2, <1>3, <1>4
<1>6. 0 % SECTSIZE = 0
  <2>1. (0 * SECTSIZE + 0) % SECTSIZE = 0
    BY <1>1, Quotient
  <2> QED
    BY <1>1, <2>1
<1>7. Sectors(ELFHDR, SECTSIZE * 8) \subseteq 0 .. MEMSIZE - 1
  BY PageSectors, Sizes
<1> QED
  BY <1>1, <1>5, <1>6, <1>7, Sizes DEF Requestable, PageRequest

LEMMA SegmentRequestable ==
  ASSUME NEW file \in Images, file.magic, NEW k \in DOMAIN file.ph
  PROVE  Requestable(SegmentRequest(file.ph[k]))
<1>1. Header(file.ph[k])
  BY Files
<1> QED
  BY <1>1, Segments DEF Requestable, SegmentRequest, SectorsOf, Header

LEMMA RequestOk ==
  ASSUME LoaderTypes, ReadInv, pc \in Reading
  PROVE  Requestable(Request)
<1>1. CASE ph = 0
  BY <1>1, PageRequestable DEF Request, PageRequest
<1>2. CASE ph # 0
  <2>1. image \in Images /\ image.magic /\ ph - 1 \in DOMAIN image.ph
    BY <1>2 DEF LoaderTypes, ReadInv
  <2> QED
    BY <1>2, <2>1, SegmentRequestable DEF Request, SegmentRequest
<1> QED
  BY <1>1, <1>2

\* What is to be read lies less than a sector on either side of what was asked for.
LEMMA SectorsNear ==
  ASSUME NEW p \in Nat, NEW count \in Nat
  PROVE  /\ Sectors(p, count) \subseteq p - SECTSIZE + 1 .. p + count + SECTSIZE - 2
         /\ p .. p + count - 1 \subseteq Sectors(p, count)
<1> DEFINE u == RoundDown(p)
           e == p + count + SECTSIZE - 1
           v == RoundDown(e)
<1>1. SECTSIZE \in Nat \ {0} /\ e \in Int
  BY Sizes
<1>2. u \in Int /\ u <= p /\ p < u + SECTSIZE
  BY Rounds
<1>3. v \in Int /\ v <= e /\ e < v + SECTSIZE
  BY <1>1, Rounds
<1>4. Sectors(p, count) = u .. v - 1 /\ e = p + count + SECTSIZE - 1
  BY DEF Sectors
<1> HIDE DEF u, v, e
<1> QED
  BY <1>1, <1>2, <1>3, <1>4

\* The sector that is read next is one that was asked for, and has a number the disk knows.
LEMMA NextSector ==
  ASSUME LoaderTypes, ReadInv, pc \in Reading, pc # "readseg"
  PROVE  /\ pa .. pa + SECTSIZE - 1 \subseteq Sectors(Request.p, Request.count)
         /\ pa .. pa + SECTSIZE - 1 \subseteq 0 .. MEMSIZE - 1
         /\ LBA(Registers(offset)) = offset
<1> DEFINE p == Request.p
           count == Request.count
           o == Request.o
           u == RoundDown(p)
           v == RoundDown(p + count + SECTSIZE - 1)
           n == SectorNumbers
           x == (offset - 1) * SECTSIZE
           y == (n - 1) * SECTSIZE
<1>1. p \in Nat /\ count \in Nat /\ o \in Nat /\ o + count <= y
      /\ Sectors(p, count) \subseteq 0 .. MEMSIZE - 1
  BY RequestOk DEF Requestable
<1>2. pa \in Int /\ offset \in Nat \ {0} /\ pa % SECTSIZE = 0 /\ pa < p + count /\ u <= pa
      /\ x = pa - p + o
  BY DEF ReadInv
<1>3. SECTSIZE \in Nat \ {0} /\ MEMSIZE \in Nat
  BY Sizes
<1>4. pa + SECTSIZE <= v
  BY <1>1, <1>2, SectorEnds
<1>5. Sectors(p, count) = u .. v - 1 /\ u \in Int /\ v \in Int
  <2>1. p \in Int /\ p + count + SECTSIZE - 1 \in Int
    BY <1>1, <1>3
  <2>2. Sectors(p, count) = u .. v - 1
    BY DEF Sectors
  <2> HIDE DEF p, count
  <2> QED
    BY <2>1, <2>2, Rounds
<1>6. n \in Nat /\ n > 8
  BY BootAssumption DEF SectorNumbers
<1>7. y = SECTSIZE * (n - 1) /\ x = SECTSIZE * (offset - 1)
  BY <1>2, <1>3, <1>6
<1>8. offset - 1 >= n - 1 => x >= y
  BY <1>2, <1>3, <1>6, <1>7, ProductGrows
<1>9. y \in Int /\ x \in Int
  BY <1>2, <1>3, <1>6
<1> HIDE DEF p, count, o, u, v, n, x, y
<1>10. offset < n
  BY <1>1, <1>2, <1>6, <1>8, <1>9
<1>11. LBA(Registers(offset)) = offset
  BY <1>2, <1>10, Registered DEF n
<1>12. pa .. pa + SECTSIZE - 1 \subseteq u .. v - 1
  BY <1>2, <1>3, <1>4, <1>5
<1> QED
  BY <1>1, <1>5, <1>11, <1>12 DEF p, count

Read(a) == a - Request.p + Request.o

\* The body of readseg's loop: a whole sector, in its place, once line 20 is through.
LEMMA ReadsSector ==
  ASSUME Modes, LoaderTypes, ReadInv, DiskInv, ReadSector
  PROVE  /\ a20
         /\ pa .. pa + SECTSIZE - 1 \subseteq Sectors(Request.p, Request.count)
         /\ memory' = [a \in 0 .. MEMSIZE - 1 |->
                         IF a \in pa .. pa + SECTSIZE - 1 THEN Read(a) ELSE memory[a]]
<1>1. pc = "insl" /\ ~BSY /\ memory' = Stored(data, pa)
  BY DEF ReadSector, waitdisk
<1>2. pc \in Reading /\ pc # "readseg" /\ pc \in InBootmain
  BY <1>1 DEF Reading, InBootmain
<1>3. data = Sent(offset) /\ input = "empty"
  BY <1>1 DEF DiskInv
<1>4. a20 /\ es = Data
  BY <1>2, <1>3 DEF Modes, A20Asked
<1>5. pa .. pa + SECTSIZE - 1 \subseteq 0 .. MEMSIZE - 1
  BY <1>2, NextSector
<1>6. SECTSIZE \in Nat \ {0} /\ MEMSIZE \in Nat /\ LIMIT \in Nat /\ MEMSIZE <= LIMIT
  BY Sizes
<1>7. pa \in Int /\ offset \in Nat \ {0} /\ (offset - 1) * SECTSIZE = pa - Request.p + Request.o
  BY <1>2 DEF ReadInv
<1>8. Request.p \in Nat /\ Request.o \in Nat
  BY <1>2, RequestOk DEF Requestable
<1>9. DOMAIN data = 0 .. SECTSIZE - 1 /\ DOMAIN memory = 0 .. MEMSIZE - 1
  BY <1>3 DEF Sent, LoaderTypes
<1>10. ASSUME NEW k \in 0 .. SECTSIZE - 1
       PROVE  Linear(es, "W", pa + k) = {pa + k}
  <2>1. pa + k \in 0 .. MEMSIZE - 1
    BY <1>5, <1>6, <1>7
  <2> QED
    BY <1>4, <1>6, <2>1 DEF Linear, Data, Bus
<1>11. ASSUME NEW a \in 0 .. MEMSIZE - 1
       PROVE  Stored(data, pa)[a] = IF a \in pa .. pa + SECTSIZE - 1 THEN Read(a) ELSE memory[a]
  <2> DEFINE ks == {k \in DOMAIN data : a \in Linear(es, "W", pa + k)}
  <2>1. Stored(data, pa)[a] = IF ks = {} THEN memory[a] ELSE data[CHOOSE k \in ks : TRUE]
    BY <1>9 DEF Stored
  <2>2. ks = {k \in 0 .. SECTSIZE - 1 : a = pa + k}
    BY <1>9, <1>10
  <2>3. CASE a \in pa .. pa + SECTSIZE - 1
    <3>1. ks = {a - pa} /\ a - pa \in 0 .. SECTSIZE - 1
      BY <1>6, <1>7, <2>2, <2>3
    <3> HIDE DEF ks
    <3>2. (CHOOSE k \in ks : TRUE) = a - pa /\ ks # {}
      BY <3>1
    <3>3. data[a - pa] = (offset - 1) * SECTSIZE + (a - pa)
      BY <1>3, <3>1 DEF Sent
    <3> DEFINE x == (offset - 1) * SECTSIZE
    <3>4. x = pa - Request.p + Request.o /\ data[a - pa] = x + (a - pa)
      BY <1>7, <3>3
    <3> HIDE DEF x
    <3>5. data[a - pa] = a - Request.p + Request.o
      BY <1>7, <1>8, <3>4
    <3> QED
      BY <2>1, <2>3, <3>2, <3>5 DEF Read
  <2>4. CASE a \notin pa .. pa + SECTSIZE - 1
    <3>1. ks = {}
      BY <1>6, <1>7, <2>2, <2>4
    <3> HIDE DEF ks
    <3> QED
      BY <2>1, <2>4, <3>1
  <2> QED
    BY <2>3, <2>4
<1>12. Stored(data, pa) = [a \in 0 .. MEMSIZE - 1 |-> Stored(data, pa)[a]]
  BY <1>9 DEF Stored
<1>13. memory' = [a \in 0 .. MEMSIZE - 1 |->
                    IF a \in pa .. pa + SECTSIZE - 1 THEN Read(a) ELSE memory[a]]
  <2> DEFINE m == Stored(data, pa)
             f == [a \in 0 .. MEMSIZE - 1 |->
                    IF a \in pa .. pa + SECTSIZE - 1 THEN Read(a) ELSE memory[a]]
  <2>1. f = [a \in 0 .. MEMSIZE - 1 |-> f[a]] /\ \A a \in 0 .. MEMSIZE - 1 : m[a] = f[a]
    BY <1>11
  <2>2. m = [a \in 0 .. MEMSIZE - 1 |-> m[a]]
    BY <1>12
  <2> HIDE DEF m, f
  <2>3. m = f
    BY <2>1, <2>2
  <2> QED
    BY <1>1, <2>3 DEF m, f
<1>14. pa .. pa + SECTSIZE - 1 \subseteq Sectors(Request.p, Request.count)
  BY <1>2, NextSector
<1> QED
  BY <1>4, <1>13, <1>14

-----------------------------------------------------------------------------
(* The page tables. *)

LEMMA Paged ==
  ASSUME NEW x \in 0 .. PTSIZE - 1
  PROVE  /\ entry_pgdir[(KERNBASE + x) \div PTSIZE] = [P |-> TRUE, W |-> TRUE]
         /\ entry_pgtable[((KERNBASE + x) \div PGSIZE) % NPTENTRIES]
              = [page |-> x - ((KERNBASE + x) % PGSIZE), P |-> TRUE, W |-> TRUE]
<1> DEFINE n == PTSIZE
           g == PGSIZE
           e == NPTENTRIES
           d == NPDENTRIES
           K == KERNBASE \div n
           q == x \div g
           m == x % g
<1>1. g \in Nat \ {0} /\ e \in Nat \ {0} /\ d \in Nat \ {0} /\ n = g * e
  BY KernelAssumption DEF PTSIZE
<1>2. n \in Nat \ {0} /\ n = e * g
  BY <1>1
<1>3. KERNBASE \in n .. (d - 1) * n /\ KERNBASE % n = 0
  BY KernelAssumption
<1> HIDE DEF n, g, e, d
<1>4. KERNBASE \in Int /\ (d - 1) * n \in Int
  BY <1>1, <1>2, <1>3
<1>5. K \in Int /\ KERNBASE = K * n + 0
  BY <1>2, <1>3, <1>4, Division
<1>6. x \in 0 .. n - 1
  BY DEF n
<1>7. q \in Int /\ m \in 0 .. g - 1 /\ x = q * g + m
  BY <1>1, <1>2, <1>6, Division
<1> HIDE DEF K, q, m
<1>8. q \in 0 .. e - 1
  <2>1. q >= e => g * q >= g * e
    BY <1>1, <1>7, ProductGrows
  <2>2. -1 >= q => g * (-1) >= g * q
    BY <1>1, <1>7, ProductGrows
  <2> DEFINE y == g * q
  <2>3. y = q * g /\ y \in Int /\ g * e = n /\ g * (-1) = -g
    BY <1>1, <1>2, <1>7
  <2> HIDE DEF y
  <2>4. ~ (q >= e)
    BY <1>1, <1>2, <1>6, <1>7, <2>1, <2>3 DEF y
  <2>5. x = y + m
    BY <1>7, <2>3
  <2>6. ~ (-1 >= q)
    BY <1>1, <1>2, <1>6, <1>7, <2>2, <2>3, <2>5 DEF y
  <2> QED
    BY <1>1, <1>7, <2>4, <2>6
<1>9. (KERNBASE + x) \div n = K
  <2>1. (K * n + x) \div n = K
    BY <1>2, <1>5, <1>6, Quotient
  <2> QED
    BY <1>2, <1>5, <2>1
<1>10. KERNBASE + x = (K * e + q) * g + m
  <2>1. (K * e + q) * g + m = K * (e * g) + q * g + m
    BY <1>1, <1>5, <1>7
  <2> QED
    BY <1>1, <1>2, <1>5, <1>7, <2>1
<1>11. (KERNBASE + x) \div g = K * e + q /\ (KERNBASE + x) % g = m
  <2>1. K * e + q \in Int
    BY <1>1, <1>5, <1>7
  <2> DEFINE z == K * e + q
  <2> HIDE DEF z
  <2>2. z \in Int
    BY <2>1 DEF z
  <2>3. (z * g + m) \div g = z /\ (z * g + m) % g = m
    BY <1>1, <1>7, <2>2, Quotient
  <2> QED
    BY <1>10, <2>3 DEF z
<1>12. (K * e + q) % e = q
  BY <1>1, <1>5, <1>8, Quotient
<1>13. K \in 0 .. d - 1 /\ K # 0
  <2>1. n * K = KERNBASE
    BY <1>2, <1>5
  <2>2. K >= d => n * K >= n * d
    BY <1>1, <1>2, <1>5, ProductGrows
  <2>3. 0 >= K => n * 0 >= n * K
    BY <1>2, <1>5, ProductGrows
  <2>4. n * d = (d - 1) * n + n /\ n * 0 = 0
    BY <1>1, <1>2
  <2> DEFINE w == (d - 1) * n
  <2> HIDE DEF w
  <2>5. w \in Int /\ KERNBASE <= w /\ n <= KERNBASE /\ n * d = w + n
    BY <1>3, <1>4, <2>4 DEF w
  <2>6. ~ (K >= d)
    BY <1>1, <1>2, <1>4, <1>5, <2>1, <2>2, <2>5
  <2>7. ~ (0 >= K)
    BY <1>2, <1>4, <2>1, <2>3, <2>4, <2>5
  <2> QED
    BY <1>1, <1>5, <2>6, <2>7
<1>14. entry_pgdir[K] = [P |-> TRUE, W |-> TRUE]
  BY <1>13 DEF entry_pgdir, K, n, d
<1>15. entry_pgtable[q] = [page |-> q * g, P |-> TRUE, W |-> TRUE]
  BY <1>8 DEF entry_pgtable, e, g
<1>16. q * g = x - m
  <2> DEFINE y == q * g
  <2>1. y \in Int /\ x = y + m
    BY <1>1, <1>7
  <2> HIDE DEF y
  <2>2. y = x - m
    BY <1>1, <1>6, <1>7, <2>1
  <2> QED
    BY <2>2 DEF y
<1>17. entry_pgdir[(KERNBASE + x) \div n] = [P |-> TRUE, W |-> TRUE]
  BY <1>9, <1>14
<1>18. entry_pgtable[((KERNBASE + x) \div g) % e] = [page |-> x - ((KERNBASE + x) % g), P |-> TRUE, W |-> TRUE]
  <2>1. ((KERNBASE + x) \div g) % e = q
    BY <1>11, <1>12
  <2>2. q * g = x - ((KERNBASE + x) % g)
    BY <1>11, <1>16, Zenon
  <2> QED
    BY <1>15, <2>1, <2>2, Zenon
<1> QED
  BY <1>17, <1>18 DEF n, g, e

\* An address of the kernel's, with paging on, is the byte at RELOC of it or none; with
\* the directory where cr3 says, it is that byte.
LEMMA KernelAddress ==
  ASSUME paging, a20, memory \in [0 .. MEMSIZE - 1 -> Int],
         NEW x \in 0 .. PTSIZE - 1, NEW va \in Int, va = KERNBASE + x
  PROVE  /\ Reads(va) \subseteq {x} /\ Writes(va) = Reads(va)
         /\ memory[cr3] \in FileOffsets(image.entry_pgdir) /\ x \in 0 .. MEMSIZE - 1 => Reads(va) = {x}
<1> DEFINE pde == entry_pgdir[va \div PTSIZE]
           pte == entry_pgtable[(va \div PGSIZE) % NPTENTRIES]
<1>1. pde = [P |-> TRUE, W |-> TRUE] /\ pte = [page |-> x - (va % PGSIZE), P |-> TRUE, W |-> TRUE]
  BY Paged
<1>2. Reads(va) = {a \in DOMAIN memory :
              /\ memory[cr3] \in FileOffsets(image.entry_pgdir)
              /\ pde.P /\ pte.P /\ a = Bus(pte.page + (va % PGSIZE))}
  BY DEF Reads
<1>3. Writes(va) = {a \in Reads(va) : pde.W /\ pte.W}
  BY DEF Writes
<1> DEFINE r == va % PGSIZE
<1>4. r \in Int
  BY KernelAssumption
<1> HIDE DEF r
<1>5. x \in Int
  BY KernelAssumption DEF PTSIZE
<1>6. pte.page + r = x
  <2>1. pte = [page |-> x - r, P |-> TRUE, W |-> TRUE]
    BY <1>1, Zenon DEF r
  <2> HIDE DEF pte
  <2>2. pte.page = x - r
    BY <2>1
  <2> QED
    BY <1>4, <1>5, <2>2
<1>7. Bus(pte.page + r) = x
  BY <1>6 DEF Bus
<1>8. DOMAIN memory = 0 .. MEMSIZE - 1
  OBVIOUS
<1>9. pde.P /\ pte.P /\ pde.W /\ pte.W
  BY <1>1
<1> HIDE DEF pde, pte
<1>10. Reads(va) = {a \in 0 .. MEMSIZE - 1 : memory[cr3] \in FileOffsets(image.entry_pgdir) /\ a = x}
  BY <1>2, <1>7, <1>8, <1>9 DEF r
<1>11. Writes(va) = Reads(va)
  BY <1>3, <1>9
<1> QED
  BY <1>10, <1>11

-----------------------------------------------------------------------------
(* Where the kernel writes, and where it does not. *)

LEMMA Low ==
  ASSUME NEW va \in Int
  PROVE  RELOC(va) \in Int /\ va = KERNBASE + RELOC(va)
<1>1. KERNBASE \in Int
  BY KernelAssumption DEF PTSIZE
<1> QED
  BY <1>1 DEF RELOC

Of(s) == s.p_pa .. s.p_pa + s.p_memsz - 1

LEMMA InSegment ==
  ASSUME NEW file \in Images, file.magic, NEW k \in DOMAIN file.ph
  PROVE  /\ Of(file.ph[k]) \subseteq SectorsOf(file.ph[k])
         /\ Of(file.ph[k]) \subseteq 0 .. PTSIZE - 1
         /\ Of(file.ph[k]) \cap Page = {} /\ Of(file.ph[k]) \subseteq 0 .. MEMSIZE - 1
         /\ WARMBOOT \notin SectorsOf(file.ph[k])
<1>1. Header(file.ph[k])
  BY Files
<1>2. Linked(file)
  BY LinkAssumption
<1>3. file.ph[k].p_pa + file.ph[k].p_memsz <= PTSIZE /\ WARMBOOT \notin SectorsOf(file.ph[k])
  BY <1>2 DEF Linked, SectorsOf
<1>4. PTSIZE \in Nat
  BY KernelAssumption DEF PTSIZE
<1>5. Of(file.ph[k]) \subseteq SectorsOf(file.ph[k])
  BY <1>1, SectorsNear DEF Header, Of, SectorsOf
<1>6. Of(file.ph[k]) \subseteq 0 .. PTSIZE - 1
  BY <1>1, <1>3, <1>4 DEF Header, Of
<1>7. SectorsOf(file.ph[k]) \subseteq 0 .. MEMSIZE - 1 /\ SectorsOf(file.ph[k]) \cap Page = {}
  BY Segments
<1> QED
  BY <1>3, <1>5, <1>6, <1>7

LEMMA Symbols ==
  ASSUME NEW file \in Images, file.magic
  PROVE  /\ {file.relocated, file.i386_init, file.bootstacktop, file.entry_pgdir, file.edata, file.end} \subseteq Nat
         /\ file._start \in Nat \ {0} /\ file.relocated > file._start + 2
         /\ file.i386_init > file.relocated + 1
         /\ WARMBOOT \in 0 .. MEMSIZE - 1 /\ WARMBOOT \notin Page
  BY LinkAssumption, KernelAssumption DEF Linked, Page

LEMMA WrittenInSegments ==
  ASSUME image \in Images, image.magic
  PROVE  /\ \E k \in DOMAIN image.ph : Slot \in Of(image.ph[k])
         /\ \E k \in DOMAIN image.ph : LowBss \subseteq Of(image.ph[k])
         /\ Slot \notin LowBss
         /\ \E k \in DOMAIN image.ph :
              /\ RELOC(image.entry_pgdir) \in image.ph[k].p_pa .. image.ph[k].p_pa + image.ph[k].p_filesz - 1
              /\ RELOC(image.entry_pgdir) \notin LowBss \cup {Slot}
  BY LinkAssumption DEF Linked, Slot, LowBss, Of

LEMMA SegmentsAsked ==
  ASSUME image \in Images, NEW k \in DOMAIN image.ph, NEW a \in SectorsOf(image.ph[k])
  PROVE  Asked(a)
<1>1. Header(image.ph[k])
  BY Files
<1>2. a \in image.ph[k].p_pa - SECTSIZE + 1 ..
             image.ph[k].p_pa + image.ph[k].p_memsz + SECTSIZE - 2
  BY <1>1, SectorsNear DEF Header, SectorsOf
<1> QED
  BY <1>2 DEF Asked

Written == {Slot} \cup LowBss

\* What is there that nobody has loaded is not taken for what the disk sends.
LEMMA Marks ==
  /\ {Junk, Warm, Zero, Spin} \subseteq Int /\ {Junk, Warm, Zero, Spin} \cap Nat = {}
  /\ Junk # Warm /\ {Junk, Warm} \cap {Zero, Spin} = {}
<1>1. SECTSIZE \in Nat /\ SECTSIZE > 1
  BY Sizes, KernelAssumption
<1> QED
  BY <1>1 DEF Junk, Warm, Zero, Spin

LEMMA WhereWritten ==
  ASSUME image \in Images, image.magic, NEW a \in Written
  PROVE  /\ a \in 0 .. PTSIZE - 1 /\ a \in 0 .. MEMSIZE - 1 /\ a \notin Page /\ Asked(a)
         /\ \E k \in DOMAIN image.ph : a \in Of(image.ph[k])
<1>1. PICK k \in DOMAIN image.ph : a \in Of(image.ph[k])
  BY WrittenInSegments DEF Written
<1>2. a \in SectorsOf(image.ph[k]) /\ a \in 0 .. PTSIZE - 1 /\ a \notin Page /\ a \in 0 .. MEMSIZE - 1
  BY <1>1, InSegment
<1> QED
  BY <1>1, <1>2, SegmentsAsked

-----------------------------------------------------------------------------
(* The loader's steps. *)

Rest ==
  /\ LoaderTypes /\ ReadInv /\ DiskInv /\ A20Inv
  /\ PageInv /\ SegmentsInv /\ EntryInv /\ RestOfMemoryKept

LEMMA RestInit == KernelInit => Rest
<1> SUFFICES ASSUME KernelInit PROVE Rest
  OBVIOUS
<1>1. pc = "start" /\ ph = 0 /\ eip = 0 /\ ~paging /\ image \in Images
      /\ BSY \in BOOLEAN /\ RDY \in BOOLEAN
      /\ memory = [a \in 0 .. MEMSIZE - 1 |-> Junk]
  BY DEF KernelInit, Init, SectorInit
<1>2. Junk \in Int /\ Junk # Warm /\ Junk \notin {Zero, Spin}
  BY Marks
<1>3. LoaderTypes
  BY <1>1, <1>2 DEF LoaderTypes
<1>4. ReadInv /\ DiskInv /\ A20Inv /\ PageInv /\ EntryInv
  BY <1>1 DEF ReadInv, DiskInv, A20Inv, PageInv, EntryInv, Reading
<1>5. Loaded = 0
  BY <1>1 DEF Loaded, Reading
<1>6. SegmentsInv
  BY <1>1, <1>5 DEF SegmentsInv
<1>7. RestOfMemoryKept
  BY <1>1, <1>2 DEF RestOfMemoryKept
<1> QED
  BY <1>3, <1>4, <1>6, <1>7 DEF Rest

\* Which writes RestOfMemoryKept allows.
LEMMA KeptStep ==
  ASSUME Rest, image' = image, memory \in [0 .. MEMSIZE - 1 -> Int], DOMAIN memory' = DOMAIN memory,
         pc = "entry" => pc' = "entry",
         \A a \in DOMAIN memory :
           \/ memory'[a] = memory[a]
           \/ memory'[a] \in Nat \cup {Junk} /\ Asked(a)
           \/ memory'[a] = Warm /\ a = WARMBOOT /\ pc' = "entry"
           \/ memory'[a] \in {Zero, Spin} /\ Asked(a) /\ \E k \in DOMAIN image.ph : a \in Of(image.ph[k])
  PROVE  RestOfMemoryKept'
<1>1. ASSUME NEW a \in DOMAIN memory
      PROVE  /\ memory'[a] \notin {Junk, Warm} => Asked(a)
             /\ memory'[a] = Warm => a = WARMBOOT /\ pc' = "entry"
             /\ memory'[a] \in {Zero, Spin} => \E k \in DOMAIN image.ph : a \in Of(image.ph[k])
  <2>1. CASE memory'[a] = memory[a]
    BY <1>1, <2>1 DEF Rest, RestOfMemoryKept, Of
  <2>2. CASE memory'[a] \in Nat \cup {Junk} /\ Asked(a)
    BY <2>2, Marks
  <2>3. CASE memory'[a] = Warm /\ a = WARMBOOT /\ pc' = "entry"
    BY <2>3, Marks
  <2>4. CASE memory'[a] \in {Zero, Spin} /\ Asked(a) /\ \E k \in DOMAIN image.ph : a \in Of(image.ph[k])
    BY <2>4, Marks
  <2> QED
    BY <1>1, <2>1, <2>2, <2>3, <2>4
<1> QED
  BY <1>1 DEF RestOfMemoryKept, Asked, Of

\* A step that neither loads nor calls anything.
LEMMA QuietStep ==
  ASSUME Rest, UNCHANGED <<image, memory, readseg_vars, ph, cpu>>, a20 => a20',
         pc' = pc \/ (pc \in InBootS /\ pc' \in InBootS \cup {"bootmain"}),
         BSY' \in BOOLEAN, RDY' \in BOOLEAN, DiskInv'
  PROVE  Rest'
<1> USE DEF readseg_vars, cpu
<1>1. Request' = Request /\ Slot' = Slot /\ LowBss' = LowBss /\ InInit' = InInit /\ (Cleared' <=> Cleared)
  BY DEF Request, Slot, LowBss, InInit, Cleared, InBootS
<1>2. LoaderTypes'
  BY DEF Rest, LoaderTypes, InBootS
<1>3. ReadInv'
  BY <1>1 DEF Rest, ReadInv, Reading, InBootS
<1>4. A20Inv'
  BY DEF Rest, A20Inv, Reading, InBootS
<1>5. PageInv'
  BY DEF Rest, PageInv, Reading, InBootS
<1>6. Loaded' = Loaded
  BY DEF Loaded, Reading, InBootS
<1>7. SegmentsInv'
  BY <1>1, <1>6 DEF Rest, SegmentsInv, InBootS, Overwritten
<1>8. EntryInv'
  BY <1>1 DEF Rest, EntryInv, InBootS
<1>9. RestOfMemoryKept'
  BY KeptStep DEF Rest, LoaderTypes, InBootS
<1> QED
  BY <1>2, <1>3, <1>4, <1>5, <1>7, <1>8, <1>9 DEF Rest

LEMMA SectorStep ==
  ASSUME Modes, Rest, InSector, UNCHANGED cpu
  PROVE  Rest'
<1>1. UNCHANGED <<image, memory, readseg_vars, ph, disk>>
  BY DEF InSector, loaderVars
<1>2. BSY' \in BOOLEAN /\ RDY' \in BOOLEAN
  BY <1>1 DEF disk, Rest, LoaderTypes
<1>3. CASE boot_S
  <2>1. pc \in InBootS /\ pc' \in InBootS \cup {"bootmain"} /\ a20' = a20
    BY <1>3 DEF boot_S, start, seta20_1, out_d1, seta20_2, out_df, lgdt, set_pe, ljmp, protcseg,
       Goes, controller, InBootS
  <2>2. DiskInv'
    BY <2>1 DEF DiskInv, InBootS
  <2> QED
    BY <1>1, <1>2, <2>1, <2>2, QuietStep
<1>4. CASE Controller
  <2>1. pc' = pc /\ a20 => a20' /\ input # "empty" /\ input' = "empty"
    BY <1>4 DEF Controller
  <2>2. DiskInv'
    BY <1>1, <1>4, <2>1 DEF Controller, Rest, DiskInv, disk, readseg_vars, Sent
  <2> QED
    BY <1>1, <1>2, <1>4, <2>2, QuietStep DEF Controller
<1>5. CASE Interrupt
  <2>1. pc = "start" /\ pc' = pc /\ a20' = a20
    BY <1>5 DEF Interrupt, Modes
  <2>2. DiskInv'
    BY <2>1 DEF DiskInv
  <2> QED
    BY <1>1, <1>2, <2>1, <2>2, QuietStep
<1> QED
  BY <1>3, <1>4, <1>5 DEF InSector, Firmware

LEMMA DriveStep ==
  ASSUME Rest, DiskReady \/ DiskDone, UNCHANGED cpu
  PROVE  Rest'
<1>1. UNCHANGED <<image, memory, readseg_vars, ph>> /\ pc' = pc /\ a20' = a20
  BY DEF DiskReady, DiskDone, sectorVars, controller
<1>2. BSY' \in BOOLEAN /\ RDY' \in BOOLEAN
  BY DEF DiskReady, DiskDone, Rest, LoaderTypes
<1>3. DiskInv'
  <2>1. CASE DiskReady
    BY <2>1 DEF DiskReady, sectorVars, Rest, DiskInv
  <2>2. CASE DiskDone
    <3> SUFFICES ASSUME pc = "insl"
                 PROVE  RDY' /\ sector' = offset' /\ data' = Sent(offset') /\ input' = "empty"
      BY <1>1 DEF DiskInv
    <3>1. RDY /\ sector = offset /\ offset # 0
      BY DEF Rest, DiskInv, ReadInv, Reading
    <3>2. data' = [k \in 0 .. SECTSIZE - 1 |-> (offset - 1) * SECTSIZE + k]
      BY <2>2, <3>1 DEF DiskDone
    <3> QED
      BY <2>2, <3>1, <3>2 DEF DiskDone, Sent, sectorVars, controller, readseg_vars
  <2> QED
    BY <2>1, <2>2
<1> QED
  BY <1>1, <1>2, <1>3, QuietStep

LEMMA StutterStep ==
  ASSUME Rest, UNCHANGED kernel_vars
  PROVE  Rest'
<1>1. UNCHANGED <<image, memory, readseg_vars, ph, cpu, disk, pc, controller>>
  BY DEF kernel_vars, vars, loaderVars, sectorVars
<1>2. BSY' \in BOOLEAN /\ RDY' \in BOOLEAN
  BY <1>1 DEF disk, Rest, LoaderTypes
<1>3. DiskInv'
  BY <1>1 DEF Rest, DiskInv, disk, readseg_vars, controller
<1> QED
  BY <1>1, <1>2, <1>3, QuietStep DEF controller

\* readseg is called for what Requestable says it can read.
LEMMA CallStep ==
  ASSUME NEW r, Requestable(r), CallReadseg(r.p, r.count, r.o), Request' = r, ph' = ph + 1 \/ ph' = ph,
         ph' > 0 => image'.magic /\ ph' - 1 \in DOMAIN image'.ph
  PROVE  ReadInv' /\ DiskInv' /\ pc' = "readseg" /\ pa' <= r.p
<1>1. SECTSIZE \in Nat \ {0} /\ r.p \in Nat /\ r.o \in Nat /\ r.count \in Nat
      /\ r.o % SECTSIZE = r.p % SECTSIZE
  BY Sizes DEF Requestable
<1>2. pc' = "readseg" /\ end_pa' = r.p + r.count /\ pa' = RoundDown(r.p)
      /\ offset' = (r.o \div SECTSIZE) + 1
  BY DEF CallReadseg
<1>3. pa' \in Int /\ pa' % SECTSIZE = 0 /\ pa' <= r.p
  BY <1>1, <1>2, Rounds
<1>4. r.o \div SECTSIZE \in Nat
  BY <1>1
<1>5. offset' \in Nat \ {0} /\ offset' - 1 = r.o \div SECTSIZE
  BY <1>2, <1>4
<1>6. (offset' - 1) * SECTSIZE = pa' - r.p + r.o
  <2>1. (r.o \div SECTSIZE) * SECTSIZE = RoundDown(r.o)
    <3>1. r.o \in Int
      BY <1>1
    <3> DEFINE o == r.o
    <3> HIDE DEF o
    <3>2. (o \div SECTSIZE) * SECTSIZE = RoundDown(o)
      BY <3>1, Rounds DEF o
    <3> QED
      BY <3>2 DEF o
  <2>2. RoundDown(r.o) = r.o - (r.o % SECTSIZE) /\ RoundDown(r.p) = r.p - (r.p % SECTSIZE)
    BY DEF RoundDown
  <2>3. r.p % SECTSIZE \in Int
    BY <1>1
  <2> QED
    BY <1>1, <1>2, <1>5, <2>1, <2>2, <2>3
<1>7. \A a \in RoundDown(r.p) .. pa' - 1 : FALSE
  BY <1>2, <1>3
<1>8. ReadInv'
  BY <1>2, <1>3, <1>5, <1>6, <1>7 DEF ReadInv, Reading
<1> QED
  BY <1>2, <1>3, <1>8 DEF DiskInv

\* A step of bootmain's that leaves memory alone and stays in the loader.
LEMMA LoaderFrame ==
  ASSUME Rest, UNCHANGED <<image, memory>>, Loading, pc # "entry", pc' # "entry"
  PROVE  /\ EntryInv' /\ RestOfMemoryKept' /\ image \in Images
         /\ image' \in Images /\ memory' \in [0 .. MEMSIZE - 1 -> Int]
         /\ \A a : ~Overwritten(a)
<1>1. eip' = 0 /\ eip = 0 /\ ~paging'
  BY DEF Loading, Rest, EntryInv
<1>2. EntryInv'
  BY <1>1 DEF EntryInv
<1>3. RestOfMemoryKept'
  BY KeptStep DEF Rest, LoaderTypes
<1>4. image \in Images /\ memory \in [0 .. MEMSIZE - 1 -> Int]
  BY DEF Rest, LoaderTypes
<1>5. \A a : ~Overwritten(a)
  BY DEF Overwritten
<1> QED
  BY <1>2, <1>3, <1>4, <1>5

LEMMA StartBootStep ==
  ASSUME Rest, Loading, StartBoot
  PROVE  Rest'
<1>1. pc = "bootmain" /\ ph = 0 /\ ph' = 0 /\ UNCHANGED <<image, memory, disk>>
      /\ CallReadseg(ELFHDR, SECTSIZE * 8, 0)
  BY DEF StartBoot, Rest, LoaderTypes
<1>2. Request' = PageRequest
  BY <1>1 DEF Request, PageRequest
<1>3. CallReadseg(PageRequest.p, PageRequest.count, PageRequest.o) /\ PageRequest.p = ELFHDR
  BY <1>1 DEF PageRequest
<1>4. ReadInv' /\ DiskInv' /\ pc' = "readseg" /\ pa' <= ELFHDR
  BY <1>1, <1>2, <1>3, PageRequestable, CallStep
<1>5. pa' \in Int /\ ELFHDR \in Nat
  BY <1>4, Sizes DEF ReadInv, Reading
<1>6. LoaderTypes'
  BY <1>1, <1>4, LoaderFrame DEF disk, Rest, LoaderTypes, InBootS
<1>7. A20Inv' /\ PageInv'
  BY <1>1, <1>4, <1>5 DEF A20Inv, PageInv
<1>8. Loaded' = -2
  BY <1>1, <1>4 DEF Loaded, Reading
<1>9. SegmentsInv'
  BY <1>4, <1>8 DEF SegmentsInv
<1> QED
  BY <1>1, <1>4, <1>6, <1>7, <1>9, LoaderFrame DEF Rest

LEMMA MoreToReadStep ==
  ASSUME Rest, Loading, MoreToRead
  PROVE  Rest'
<1>1. pc = "readseg" /\ pc' = "command" /\ pa < end_pa
      /\ UNCHANGED <<image, memory, disk, readseg_vars, ph, controller>>
  BY DEF MoreToRead
<1>2. Request' = Request
  BY <1>1 DEF Request
<1>3. ReadInv' /\ DiskInv'
  BY <1>1, <1>2 DEF Rest, ReadInv, DiskInv, Reading, readseg_vars
<1>4. LoaderTypes'
  BY <1>1, LoaderFrame DEF disk, Rest, LoaderTypes, InBootS
<1>5. A20Inv' /\ PageInv'
  BY <1>1 DEF Rest, A20Inv, PageInv, Reading, controller, readseg_vars
<1>6. Loaded' = Loaded
  BY <1>1 DEF Loaded, Reading
<1>7. SegmentsInv'
  BY <1>1, <1>6, LoaderFrame DEF Rest, SegmentsInv
<1> QED
  BY <1>1, <1>3, <1>4, <1>5, <1>7, LoaderFrame DEF Rest

LEMMA AskForSectorStep ==
  ASSUME Rest, Loading, AskForSector
  PROVE  Rest'
<1>1. pc = "command" /\ pc' = "insl" /\ RDY /\ RDY' = RDY /\ BSY' = TRUE
      /\ sector' = LBA(Registers(offset))
      /\ UNCHANGED <<image, memory, readseg_vars, ph, controller>>
  BY DEF AskForSector, waitdisk
<1>2. Request' = Request
  BY <1>1 DEF Request
<1>3. LBA(Registers(offset)) = offset
  <2>1. LoaderTypes /\ ReadInv /\ pc \in Reading /\ pc # "readseg"
    BY <1>1 DEF Rest, Reading
  <2> QED
    BY <2>1, NextSector
<1>4. ReadInv' /\ DiskInv'
  BY <1>1, <1>2, <1>3 DEF Rest, ReadInv, DiskInv, Reading, readseg_vars
<1>5. LoaderTypes'
  BY <1>1, LoaderFrame DEF Rest, LoaderTypes, InBootS
<1>6. A20Inv' /\ PageInv'
  BY <1>1 DEF Rest, A20Inv, PageInv, Reading, controller, readseg_vars
<1>7. Loaded' = Loaded
  BY <1>1 DEF Loaded, Reading
<1>8. SegmentsInv'
  BY <1>1, <1>7, LoaderFrame DEF Rest, SegmentsInv
<1> QED
  BY <1>1, <1>4, <1>5, <1>6, <1>8, LoaderFrame DEF Rest

LEMMA ReadsegReturnsStep ==
  ASSUME Rest, Loading, ReadsegReturns
  PROVE  Rest'
<1>1. pc = "readseg" /\ pc' = (IF ph = 0 THEN "header" ELSE "segments") /\ pa >= end_pa
      /\ UNCHANGED <<image, memory, disk, readseg_vars, ph, controller>>
  BY DEF ReadsegReturns
<1>2. pc' \in {"header", "segments"} /\ pc \in Reading
  BY <1>1 DEF Reading
<1> DEFINE p == Request.p
           count == Request.count
           e == p + count + SECTSIZE - 1
<1>3. p \in Nat /\ count \in Nat /\ Request.o \in Nat
  BY <1>2, RequestOk DEF Rest, Requestable
<1>4. pa \in Int /\ pa % SECTSIZE = 0 /\ end_pa = p + count /\ RoundDown(p) <= pa
      /\ \A a \in RoundDown(p) .. pa - 1 : memory[a] = Read(a)
  BY <1>2 DEF Rest, ReadInv, Read
<1>5. pa >= RoundDown(e)
  BY <1>1, <1>3, <1>4, SectorEnds
<1>6. SECTSIZE \in Nat \ {0} /\ ELFHDR \in Nat
  BY Sizes
<1>7. RoundDown(p) \in Int /\ RoundDown(e) \in Int
  <2>1. p \in Int /\ e \in Int
    BY <1>3, <1>6
  <2> HIDE DEF p, e
  <2> QED
    BY <2>1, Rounds
<1>8. \A a \in Sectors(p, count) : memory[a] = Read(a)
  <2>1. Sectors(p, count) = RoundDown(p) .. RoundDown(e) - 1
    BY DEF Sectors
  <2> HIDE DEF p, count, e
  <2> QED
    BY <1>4, <1>5, <1>7, <2>1
<1>9. image \in Images /\ ph \in Nat
  BY DEF Rest, LoaderTypes
<1>10. ReadInv' /\ DiskInv'
  BY <1>2 DEF ReadInv, DiskInv, Reading
<1>11. LoaderTypes'
  BY <1>1, <1>2, LoaderFrame DEF disk, Rest, LoaderTypes, InBootS
<1>12. PageInv'
  <2>1. CASE ph = 0
    <3>1. p = ELFHDR /\ count = SECTSIZE * 8 /\ \A a : Read(a) = a - ELFHDR + 0
      BY <2>1 DEF Request, Read
    <3>2. \A a \in ELFHDR .. ELFHDR + 8 * SECTSIZE - 1 : memory[a] = a - ELFHDR + 0
      BY <1>8, <3>1, PageSectors
    <3>3. \A a \in ELFHDR .. ELFHDR + 8 * SECTSIZE - 1 : memory[a] = a - ELFHDR
      BY <1>6, <3>2
    <3> QED
      BY <1>1, <3>3 DEF PageInv
  <2>2. CASE ph # 0
    BY <1>1, <1>2, <1>9, <2>2 DEF PageInv, Rest, Reading
  <2> QED
    BY <2>1, <2>2
<1>13. A20Inv'
  <2>1. ph > 0 \/ pa > ELFHDR
    <3>1. CASE ph = 0
      <4>1. p = ELFHDR /\ count = SECTSIZE * 8
        BY <3>1 DEF Request
      <4> QED
        BY <1>1, <1>4, <1>6, <4>1
    <3> QED
      BY <1>9, <3>1
  <2>2. a20
    BY <1>2, <2>1 DEF Rest, A20Inv
  <2> QED
    BY <1>1, <2>2 DEF A20Inv, controller
<1>14. SegmentsInv'
  <2>1. CASE ph = 0
    BY <1>1, <2>1 DEF SegmentsInv, Loaded, Reading
  <2>2. CASE ph # 0
    <3>1. image.magic /\ ph - 1 \in DOMAIN image.ph /\ pc' = "segments" /\ ph' = ph /\ image' = image
      <4>1. ph > 0
        BY <1>9, <2>2
      <4>2. image.magic /\ ph - 1 \in DOMAIN image.ph
        BY <1>2, <4>1 DEF Rest, ReadInv
      <4>3. pc' = "segments"
        BY <1>1, <2>2
      <4> QED
        BY <1>1, <4>2, <4>3
    <3>2. DOMAIN image.ph = 1 .. Len(image.ph) /\ Len(image.ph) \in Nat
      BY <1>9, Files
    <3>3. ph \in 1 .. Len(image.ph) + 1
      BY <1>9, <2>2, <3>1, <3>2
    <3>4. Loaded = ph - 2 /\ Loaded' = ph - 1
      BY <1>1, <3>1 DEF Loaded, Reading
    <3>5. ASSUME NEW k \in 1 .. ph - 1, NEW a \in SectorsOf(image.ph[k])
          PROVE  memory[a] = a - image.ph[k].p_pa + image.ph[k].p_offset
      <4>1. CASE k = ph - 1
        BY <1>8, <2>2, <4>1 DEF Request, Read, SectorsOf
      <4>2. CASE k # ph - 1
        BY <1>1, <1>9, <3>4, <4>2, LoaderFrame DEF Rest, SegmentsInv, SectorsOf
      <4> QED
        BY <4>1, <4>2
    <3> QED
      BY <1>1, <3>1, <3>3, <3>4, <3>5 DEF SegmentsInv, SectorsOf
  <2> QED
    BY <2>1, <2>2
<1> QED
  BY <1>1, <1>2, <1>10, <1>11, <1>12, <1>13, <1>14, LoaderFrame DEF Rest

LEMMA ReadSectorStep ==
  ASSUME Modes, Rest, Loading, ReadSector
  PROVE  Rest'
<1> DEFINE p == Request.p
           count == Request.count
           o == Request.o
           new == pa .. pa + SECTSIZE - 1
<1>1. pc = "insl" /\ pc' = "readseg" /\ pa' = pa + SECTSIZE /\ offset' = offset + 1
      /\ UNCHANGED <<image, disk, end_pa, ph>>
  BY DEF ReadSector
<1>2. pc \in Reading /\ pc # "readseg" /\ pc' \in Reading /\ eip' = 0 /\ eip = 0 /\ ~paging'
  BY <1>1 DEF Reading, Loading, Rest, EntryInv
<1>3. a20 /\ new \subseteq Sectors(p, count)
      /\ memory' = [a \in 0 .. MEMSIZE - 1 |-> IF a \in new THEN Read(a) ELSE memory[a]]
  BY ReadsSector DEF Rest
<1>4. a20'
  BY <1>3 DEF ReadSector, controller
<1>5. p \in Nat /\ count \in Nat /\ o \in Nat /\ Sectors(p, count) \subseteq 0 .. MEMSIZE - 1
  BY <1>2, RequestOk DEF Rest, Requestable
<1>6. SECTSIZE \in Nat \ {0}
  BY Sizes
<1>7. pa \in Int /\ pa % SECTSIZE = 0 /\ end_pa = p + count /\ RoundDown(p) <= pa /\ pa < end_pa
      /\ offset \in Nat \ {0} /\ (offset - 1) * SECTSIZE = pa - p + o
      /\ \A a \in RoundDown(p) .. pa - 1 : memory[a] = Read(a)
  BY <1>2 DEF Rest, ReadInv, Read
<1>8. (pa + SECTSIZE) % SECTSIZE = 0
  <2>1. p + count \in Int
    BY <1>5
  <2> QED
    BY <1>7, <2>1, SectorEnds
<1>9. ph > 0 => image.magic /\ ph - 1 \in DOMAIN image.ph
  BY <1>2 DEF Rest, ReadInv
<1>10. image \in Images /\ ph \in Nat /\ memory \in [0 .. MEMSIZE - 1 -> Int]
  BY DEF Rest, LoaderTypes
<1>11. Request' = Request /\ \A a : Read(a)' = Read(a)
  BY <1>1 DEF Request, Read
<1>12. memory' \in [0 .. MEMSIZE - 1 -> Int]
  <2>1. \A a \in 0 .. MEMSIZE - 1 : Read(a) \in Int /\ memory[a] \in Int
    BY <1>5, <1>10 DEF Read
  <2> HIDE DEF new
  <2> QED
    BY <1>3, <2>1
<1>13. LoaderTypes'
  BY <1>1, <1>10, <1>12 DEF disk, Rest, LoaderTypes, InBootS
<1>14. ReadInv'
  <2>1. (offset' - 1) * SECTSIZE = pa' - p + o
    <3>1. offset * SECTSIZE = (offset - 1) * SECTSIZE + SECTSIZE
      BY <1>6, <1>7
    <3> DEFINE x == (offset - 1) * SECTSIZE
               y == offset * SECTSIZE
    <3>2. x \in Int /\ y = x + SECTSIZE /\ x = pa - p + o
      BY <1>6, <1>7, <3>1
    <3>3. (offset' - 1) * SECTSIZE = y
      BY <1>1, <1>7
    <3> HIDE DEF x, y, p, o
    <3> QED
      BY <1>1, <1>5, <1>6, <1>7, <3>2, <3>3
  <2>2. RoundDown(p) \in Int
    BY <1>5, Rounds
  <2>3. RoundDown(p) .. pa + SECTSIZE - 1 \subseteq 0 .. MEMSIZE - 1
    <3> DEFINE v == RoundDown(p + count + SECTSIZE - 1)
    <3>1. v \in Int
      <4>1. p + count + SECTSIZE - 1 \in Int
        BY <1>5, <1>6
      <4> DEFINE e == p + count + SECTSIZE - 1
      <4> HIDE DEF e
      <4>2. RoundDown(e) \in Int
        BY <4>1, Rounds DEF e
      <4> QED
        BY <4>2 DEF e
    <3>2. Sectors(p, count) = RoundDown(p) .. v - 1
      BY DEF Sectors
    <3>3. pa + SECTSIZE - 1 \in new
      BY <1>6, <1>7
    <3> HIDE DEF v, p, count, new
    <3>4. pa + SECTSIZE - 1 \in RoundDown(p) .. v - 1
      BY <1>3, <3>2, <3>3
    <3> QED
      BY <1>5, <1>6, <1>7, <2>2, <3>1, <3>2, <3>4
  <2>4. \A a \in RoundDown(p) .. pa' - 1 : memory'[a] = Read(a)
    <3> SUFFICES ASSUME NEW a \in RoundDown(p) .. pa' - 1
                 PROVE  memory'[a] = Read(a)
      OBVIOUS
    <3> DEFINE w == RoundDown(p)
    <3>0. w \in Int /\ pa' \in Int /\ pa' = pa + SECTSIZE /\ a \in w .. pa' - 1
          /\ w .. pa + SECTSIZE - 1 \subseteq 0 .. MEMSIZE - 1
          /\ \A b \in w .. pa - 1 : memory[b] = Read(b)
      BY <1>1, <1>6, <1>7, <2>2, <2>3
    <3> HIDE DEF w, p
    <3>1. a \in 0 .. MEMSIZE - 1 /\ a \in Int
      BY <1>6, <1>7, <3>0
    <3>2. a \in new \/ a \in w .. pa - 1
      BY <1>6, <1>7, <3>0
    <3> QED
      BY <1>3, <3>0, <3>1, <3>2
  <2>5. pa' \in Int /\ offset' \in Nat \ {0} /\ pa' % SECTSIZE = 0 /\ pa' >= RoundDown(p)
        /\ end_pa' = p + count
    BY <1>1, <1>6, <1>7, <1>8, <2>2
  <2> HIDE DEF p, count, o
  <2>6. \A a \in RoundDown(p) .. pa' - 1 : memory'[a] = a - p + o
    BY <2>4 DEF Read, p, o
  <2> QED
    BY <1>1, <1>9, <1>11, <2>1, <2>5, <2>6 DEF ReadInv, p, count, o
<1>15. DiskInv' /\ A20Inv'
  BY <1>1, <1>4 DEF DiskInv, A20Inv
<1>16. ASSUME NEW a \in 0 .. MEMSIZE - 1, a \notin Sectors(p, count)
       PROVE  memory'[a] = memory[a]
  BY <1>3, <1>16
<1>17. PageInv'
  <2> SUFFICES ASSUME ph > 0, NEW a \in Page PROVE memory'[a] = a - ELFHDR
    BY <1>1, <1>10 DEF PageInv, Page
  <2>1. Sectors(p, count) = SectorsOf(image.ph[ph - 1])
    BY DEF Request, SectorsOf
  <2>2. a \notin Sectors(p, count) /\ a \in 0 .. MEMSIZE - 1
    <3>1. SectorsOf(image.ph[ph - 1]) \cap Page = {}
      BY <1>9, <1>10, Segments
    <3>2. a \in 0 .. MEMSIZE - 1
      BY Sizes DEF Page
    <3> QED
      BY <2>1, <3>1, <3>2
  <2>3. memory[a] = a - ELFHDR
    BY <1>2 DEF Rest, PageInv, Page
  <2> QED
    BY <1>16, <2>2, <2>3
<1>18. SegmentsInv'
  <2>1. Loaded' = ph - 2 /\ Loaded = ph - 2
    BY <1>1, <1>2 DEF Loaded, Reading
  <2>2. ASSUME NEW k \in 1 .. ph - 2, NEW a \in SectorsOf(image.ph[k])
        PROVE  memory'[a] = a - image.ph[k].p_pa + image.ph[k].p_offset
    <3>1. ph > 0 /\ k # ph - 1
      BY <1>10
    <3>2. image.magic /\ ph - 1 \in DOMAIN image.ph
      BY <1>9, <3>1
    <3>3. DOMAIN image.ph = 1 .. Len(image.ph) /\ Len(image.ph) \in Nat
      BY <1>10, Files
    <3>4. k \in DOMAIN image.ph
      BY <1>10, <3>2, <3>3
    <3>5. Sectors(p, count) = SectorsOf(image.ph[ph - 1])
      BY <3>1 DEF Request, SectorsOf
    <3>6. a \notin Sectors(p, count) /\ a \in 0 .. MEMSIZE - 1
      BY <1>10, <3>1, <3>2, <3>4, <3>5, Segments
    <3>7. memory[a] = a - image.ph[k].p_pa + image.ph[k].p_offset
      BY <1>1, <2>1 DEF Rest, SegmentsInv, SectorsOf, Overwritten
    <3> QED
      BY <1>16, <3>6, <3>7
  <2> QED
    BY <1>1, <2>1, <2>2 DEF SegmentsInv, SectorsOf
<1>19. EntryInv'
  BY <1>1, <1>2 DEF EntryInv
<1>20. RestOfMemoryKept'
  <2>1. ASSUME NEW a \in new
        PROVE  memory'[a] \in Nat
    <3>1. memory'[a] = a - p + o
      BY <1>3, <1>5, <2>1 DEF Read
    <3>2. (offset - 1) * SECTSIZE \in Nat
      BY <1>6, <1>7
    <3> DEFINE first == (offset - 1) * SECTSIZE
    <3> HIDE DEF first, p, o
    <3>3. first \in Nat /\ first = pa - p + o /\ p \in Nat /\ o \in Nat
      BY <1>5, <1>7, <3>2 DEF first
    <3>4. a - p + o \in Nat
      BY <1>7, <2>1, <3>3
    <3> QED
      BY <3>1, <3>4
  <2>2. ASSUME NEW a \in Sectors(p, count)
        PROVE  Asked(a)
    <3>1. CASE ph = 0
      <4>1. p = ELFHDR /\ count = SECTSIZE * 8
        BY <3>1 DEF Request
      <4> QED
        BY <2>2, <4>1, PageSectors DEF Asked
    <3>2. CASE ph # 0
      <4>1. Sectors(p, count) = SectorsOf(image.ph[ph - 1]) /\ ph > 0
        BY <1>10, <3>2 DEF Request, SectorsOf
      <4> QED
        BY <1>9, <1>10, <2>2, <4>1, SegmentsAsked
    <3> QED
      BY <3>1, <3>2
  <2> HIDE DEF new
  <2>3. \A a \in 0 .. MEMSIZE - 1 : memory'[a] = memory[a] \/ (memory'[a] \in Nat /\ Asked(a))
    BY <1>3, <2>1, <2>2
  <2>4. DOMAIN memory = 0 .. MEMSIZE - 1 /\ DOMAIN memory' = 0 .. MEMSIZE - 1
    BY <1>10, <1>12
  <2>5. pc # "entry" /\ image' = image
    BY <1>1
  <2> QED
    BY <1>10, <2>3, <2>4, <2>5, KeptStep
<1> QED
  BY <1>13, <1>14, <1>15, <1>17, <1>18, <1>19, <1>20 DEF Rest

LEMMA CheckMagicStep ==
  ASSUME Rest, Loading, CheckMagic
  PROVE  Rest'
<1>1. pc = "header" /\ UNCHANGED <<image, memory, disk, readseg_vars, controller>>
      /\ \/ pc' = "segments" /\ ph' = 1 /\ image.magic
         \/ pc' = "bad" /\ ph' = ph
  BY DEF CheckMagic
<1>2. image \in Images /\ ph \in Nat /\ image' \in Images /\ memory' \in [0 .. MEMSIZE - 1 -> Int]
  BY <1>1, LoaderFrame DEF Rest, LoaderTypes
<1>3. Len(image.ph) \in Nat
  BY <1>2, Files
<1>4. LoaderTypes'
  BY <1>1, <1>2 DEF disk, Rest, LoaderTypes, InBootS
<1>5. ReadInv' /\ DiskInv' /\ A20Inv' /\ PageInv'
  BY <1>1 DEF Rest, ReadInv, DiskInv, A20Inv, PageInv, Reading, controller
<1>6. Loaded' = 0
  BY <1>1 DEF Loaded, Reading
<1>7. SegmentsInv'
  BY <1>1, <1>3, <1>6 DEF SegmentsInv
<1> QED
  BY <1>1, <1>4, <1>5, <1>7, LoaderFrame DEF Rest

\* The program header that is found in memory is the image's.
LEMMA HeaderFound ==
  ASSUME Modes, Rest, pc = "segments", ph \in DOMAIN image.ph
  PROVE  ProgramHeader(ph) = image.ph[ph]
<1> DEFINE a == ELFHDR + image.phoff + ph - 1
<1>1. image.magic /\ image \in Images /\ a20 /\ ds = Data
  BY DEF Rest, SegmentsInv, LoaderTypes, A20Inv, Modes, InBootmain
<1>2. image.phoff \in Nat /\ Len(image.ph) \in Nat /\ DOMAIN image.ph = 1 .. Len(image.ph)
      /\ image.phoff + Len(image.ph) <= 8 * SECTSIZE
  BY <1>1, Files, Segments
<1>3. SECTSIZE \in Nat /\ ELFHDR \in Nat /\ MEMSIZE \in Nat /\ LIMIT \in Nat
      /\ ELFHDR + 8 * SECTSIZE <= MEMSIZE /\ MEMSIZE <= LIMIT
  BY Sizes
<1>4. a \in Page /\ a <= LIMIT /\ a \in Int /\ a - ELFHDR = image.phoff + ph - 1
  BY <1>2, <1>3 DEF Page
<1>5. memory[a] = a - ELFHDR
  BY <1>4 DEF Rest, PageInv, Page
<1>6. Linear(ds, "R", a) = {a}
  <2> HIDE DEF a
  <2> QED
    BY <1>1, <1>4 DEF Linear, Data, Bus
<1>7. Byte(a) = image.phoff + ph - 1
  <2>1. Byte(a) = memory[CHOOSE x \in Linear(ds, "R", a) : TRUE]
    BY DEF Byte
  <2> HIDE DEF a
  <2>2. (CHOOSE x \in Linear(ds, "R", a) : TRUE) = a
    BY <1>6
  <2> QED
    BY <1>4, <1>5, <2>1, <2>2
<1> DEFINE byte == Byte(a)
<1>8. ProgramHeader(ph) =
        IF byte - image.phoff + 1 \in DOMAIN image.ph THEN image.ph[byte - image.phoff + 1]
        ELSE [p_pa |-> 0, p_filesz |-> 0, p_memsz |-> 0, p_offset |-> 0]
  BY DEF ProgramHeader
<1>9. byte - image.phoff + 1 = ph
  BY <1>2, <1>7
<1> HIDE DEF byte
<1> QED
  BY <1>8, <1>9

LEMMA LoadSegmentStep ==
  ASSUME Modes, Rest, Loading, LoadSegment
  PROVE  Rest'
<1>1. pc = "segments" /\ ph <= Len(image.ph) /\ ph' = ph + 1
      /\ UNCHANGED <<image, memory, disk, controller>>
  BY DEF LoadSegment
<1>2. image.magic /\ ph \in 1 .. Len(image.ph) + 1 /\ a20 /\ image \in Images
  BY <1>1 DEF Rest, SegmentsInv, A20Inv, LoaderTypes
<1>3. Len(image.ph) \in Nat /\ DOMAIN image.ph = 1 .. Len(image.ph)
  BY <1>2, Files
<1>4. ph \in DOMAIN image.ph /\ ph \in Nat
  BY <1>1, <1>2, <1>3
<1> DEFINE s == image.ph[ph]
           r == SegmentRequest(s)
<1>5. CallReadseg(s.p_pa, s.p_memsz, s.p_offset)
  BY <1>1, <1>4, HeaderFound DEF LoadSegment
<1>6. Requestable(r)
  BY <1>2, <1>4, SegmentRequestable
<1>7. r.p = s.p_pa /\ r.count = s.p_memsz /\ r.o = s.p_offset
  BY DEF SegmentRequest
<1>8. ph' # 0 /\ ph' - 1 = ph /\ image' = image
  BY <1>1, <1>4
<1>9. Request' = r
  BY <1>8 DEF Request, SegmentRequest
<1>10. CallReadseg(r.p, r.count, r.o)
  BY <1>5, <1>7
<1>11. ReadInv' /\ DiskInv' /\ pc' = "readseg"
  <2> HIDE DEF r
  <2> QED
    BY <1>1, <1>2, <1>4, <1>6, <1>8, <1>9, <1>10, CallStep
<1>12. LoaderTypes'
  BY <1>1, <1>4, <1>11, LoaderFrame DEF disk, Rest, LoaderTypes, InBootS
<1>13. A20Inv' /\ PageInv'
  BY <1>1, <1>2, <1>11 DEF Rest, A20Inv, PageInv, controller
<1>14. Loaded' = ph - 1 /\ Loaded = ph - 1
  BY <1>1, <1>4, <1>11 DEF Loaded, Reading
<1>15. SegmentsInv'
  BY <1>1, <1>11, <1>14, LoaderFrame DEF Rest, SegmentsInv
<1> QED
  BY <1>1, <1>11, <1>12, <1>13, <1>15, LoaderFrame DEF Rest

\* The entry point that is found in memory is the image's.
LEMMA EntryFound ==
  ASSUME Modes, Rest, pc = "segments"
  PROVE  e_entry = image._start
<1>1. a20 /\ ds = Data
  BY DEF Rest, A20Inv, Modes, InBootmain
<1>2. ELFHDR \in Page /\ ELFHDR \in Nat /\ ELFHDR <= LIMIT
  BY Sizes DEF Page
<1>3. Linear(ds, "R", ELFHDR) = {ELFHDR}
  BY <1>1, <1>2 DEF Linear, Data, Bus
<1>4. memory[ELFHDR] = 0
  BY <1>2 DEF Rest, PageInv, Page
<1>5. Byte(ELFHDR) = 0
  BY <1>3, <1>4 DEF Byte
<1> QED
  BY <1>5 DEF e_entry

LEMMA CallEntryStep ==
  ASSUME Modes, Rest, Loading, CallEntry
  PROVE  Rest'
<1>1. pc = "segments" /\ ph > Len(image.ph) /\ pc' = "entry" /\ eip' = image._start
      /\ UNCHANGED <<image, memory, disk, readseg_vars, ph, controller, paging>>
  BY EntryFound DEF CallEntry, Loading
<1>2. image.magic /\ ph \in 1 .. Len(image.ph) + 1 /\ a20 /\ image \in Images
      /\ memory \in [0 .. MEMSIZE - 1 -> Int] /\ BSY \in BOOLEAN /\ RDY \in BOOLEAN
  BY <1>1 DEF Rest, SegmentsInv, A20Inv, LoaderTypes
<1>3. Len(image.ph) \in Nat
  BY <1>2, Files
<1>4. ph = Len(image.ph) + 1 /\ ph \in Nat
  BY <1>1, <1>2, <1>3
<1>5. image._start \in Nat \ {0} /\ {image.relocated, image.i386_init} \subseteq Nat
      /\ image.relocated > image._start + 2 /\ image.i386_init > image.relocated + 1
  BY <1>2, Symbols
<1>6. eip' \notin InInit' /\ ~Cleared' /\ eip' # image.relocated + 1 /\ ~paging
  <2>1. eip' \notin {image.i386_init, image.i386_init + 1} /\ eip' # image.relocated + 1
    BY <1>1, <1>5
  <2>2. ~paging
    BY <1>1 DEF Rest, EntryInv
  <2> QED
    BY <1>1, <2>1, <2>2 DEF InInit, Cleared
<1>7. LoaderTypes' /\ ReadInv' /\ DiskInv' /\ A20Inv' /\ PageInv'
  BY <1>1, <1>2, <1>4 DEF disk, Rest, LoaderTypes, ReadInv, DiskInv, A20Inv, PageInv, Reading, InBootS, controller
<1>8. EntryInv'
  BY <1>1, <1>6 DEF EntryInv
<1>9. Loaded' = Loaded /\ \A a : ~Overwritten(a) /\ ~Overwritten(a)'
  BY <1>1, <1>6 DEF Loaded, Overwritten
<1>10. SegmentsInv'
  BY <1>1, <1>2, <1>4, <1>9 DEF Rest, SegmentsInv
<1>11. RestOfMemoryKept'
  BY <1>1, <1>2, KeptStep
<1> QED
  BY <1>7, <1>8, <1>10, <1>11 DEF Rest

-----------------------------------------------------------------------------
(* The kernel's steps. *)

LEMMA AtEntry ==
  ASSUME Rest, pc = "entry"
  PROVE  /\ image.magic /\ image \in Images /\ a20 /\ ph = Len(image.ph) + 1
         /\ Len(image.ph) \in Nat /\ DOMAIN image.ph = 1 .. Len(image.ph)
         /\ memory \in [0 .. MEMSIZE - 1 -> Int]
<1>1. image.magic /\ image \in Images /\ a20 /\ ph = Len(image.ph) + 1
      /\ memory \in [0 .. MEMSIZE - 1 -> Int]
  BY DEF Rest, LoaderTypes, SegmentsInv, A20Inv
<1> QED
  BY <1>1, Files

\* A step that writes nothing but the firmware's word, a word of its stack and its BSS.
LEMMA KernelFrame ==
  ASSUME Rest, pc = "entry", Stays, EntryInv', memory' \in [0 .. MEMSIZE - 1 -> Int],
         \A a \in 0 .. MEMSIZE - 1 :
            \/ memory'[a] = memory[a]
            \/ a = WARMBOOT /\ memory'[a] = Warm
            \/ Overwritten(a)' /\ memory'[a] \in {Zero, Spin},
         \A a : Overwritten(a) => Overwritten(a)'
  PROVE  Rest'
<1>1. UNCHANGED <<pc, a20, input, image, disk, readseg_vars, ph>>
  BY DEF Stays, sectorVars, controller
<1>2. image.magic /\ image \in Images /\ a20 /\ ph = Len(image.ph) + 1
      /\ Len(image.ph) \in Nat /\ DOMAIN image.ph = 1 .. Len(image.ph)
  BY AtEntry
<1>3. ASSUME NEW a, Overwritten(a)' PROVE a \in Written
  BY <1>1, <1>3 DEF Overwritten, Written, Slot, LowBss
<1>4. LoaderTypes'
  BY <1>1 DEF disk, Rest, LoaderTypes, InBootS
<1>5. ReadInv' /\ DiskInv' /\ A20Inv'
  BY <1>1, <1>2 DEF ReadInv, DiskInv, A20Inv, Reading
<1>6. PageInv'
  <2> SUFFICES ASSUME NEW a \in Page PROVE memory'[a] = a - ELFHDR
    BY DEF PageInv, Page
  <2>1. a \in 0 .. MEMSIZE - 1
    BY Sizes DEF Page
  <2>2. a # WARMBOOT
    BY <1>2, Symbols
  <2>3. ~Overwritten(a)'
    BY <1>2, <1>3, WhereWritten
  <2>4. memory[a] = a - ELFHDR
    BY DEF Rest, PageInv, Page
  <2> QED
    BY <2>1, <2>2, <2>3, <2>4
<1>7. SegmentsInv'
  <2>1. Loaded = ph - 1 /\ Loaded' = ph - 1
    BY <1>1 DEF Loaded
  <2>2. ASSUME NEW k \in 1 .. ph - 1, NEW a \in SectorsOf(image.ph[k])
        PROVE  memory'[a] = a - image.ph[k].p_pa + image.ph[k].p_offset \/ Overwritten(a)'
    <3>1. k \in DOMAIN image.ph
      BY <1>2
    <3>2. a \in 0 .. MEMSIZE - 1 /\ a # WARMBOOT
      BY <1>2, <3>1, Segments, InSegment
    <3>3. memory[a] = a - image.ph[k].p_pa + image.ph[k].p_offset \/ Overwritten(a)
      BY <2>1 DEF Rest, SegmentsInv, SectorsOf
    <3> QED
      BY <3>2, <3>3
  <2> QED
    BY <1>1, <1>2, <2>1, <2>2 DEF SegmentsInv, SectorsOf
<1>8. RestOfMemoryKept'
  <2>1. ASSUME NEW a \in Written
        PROVE  Asked(a) /\ \E k \in DOMAIN image.ph : a \in Of(image.ph[k])
    BY <1>2, <2>1, WhereWritten
  <2>2. \A a \in 0 .. MEMSIZE - 1 :
          \/ memory'[a] = memory[a]
          \/ memory'[a] = Warm /\ a = WARMBOOT /\ pc' = "entry"
          \/ memory'[a] \in {Zero, Spin} /\ Asked(a) /\ \E k \in DOMAIN image.ph : a \in Of(image.ph[k])
    BY <1>1, <1>3, <2>1
  <2>3. DOMAIN memory = 0 .. MEMSIZE - 1 /\ DOMAIN memory' = 0 .. MEMSIZE - 1
    BY AtEntry
  <2> QED
    BY <1>1, <2>2, <2>3, AtEntry, KeptStep
<1> QED
  BY <1>4, <1>5, <1>6, <1>7, <1>8 DEF Rest

LEMMA KernelStep ==
  ASSUME Rest, Kernel
  PROVE  Rest'
<1>1. pc = "entry" /\ pc' = "entry" /\ Stays /\ image' = image
  BY DEF Kernel, LoadCr3, TurnOnPaging, JumpToRelocated, SetUpStack, CallInit, ClearBss, Stays, sectorVars
<1>2. image.magic /\ image \in Images /\ a20 /\ memory \in [0 .. MEMSIZE - 1 -> Int]
  BY <1>1, AtEntry
<1> DEFINE start_ == image._start
           relocated_ == image.relocated
           init_ == image.i386_init
<1>3. start_ \in Nat \ {0} /\ relocated_ \in Nat /\ init_ \in Nat /\ image.bootstacktop \in Nat
      /\ relocated_ > start_ + 2 /\ init_ > relocated_ + 1
      /\ WARMBOOT \in 0 .. MEMSIZE - 1
  BY <1>2, Symbols
<1>4. InInit = {init_, init_ + 1} /\ InInit' = InInit /\ (Cleared <=> eip = init_ + 1)
      /\ (Cleared' <=> eip' = init_ + 1) /\ Slot' = Slot /\ LowBss' = LowBss
  BY <1>1 DEF InInit, Cleared, Slot, LowBss
<1>5. /\ eip \in {start_, start_ + 1, start_ + 2, relocated_, relocated_ + 1} \cup InInit
      /\ paging <=> eip \notin {start_, start_ + 1}
      /\ eip # start_ => cr3 = RELOC(image.entry_pgdir)
      /\ eip = relocated_ + 1 => ebp = 0 /\ esp = image.bootstacktop
      /\ eip \in InInit => ebp = 0 /\ esp = image.bootstacktop - 1 /\ memory[Slot] = Spin
      /\ Cleared => \A a \in LowBss : memory[a] = Zero
  BY <1>1 DEF Rest, EntryInv
<1>6. ASSUME
        /\ eip' \in {start_, start_ + 1, start_ + 2, relocated_, relocated_ + 1} \cup InInit
        /\ paging' <=> eip' \notin {start_, start_ + 1}
        /\ eip' # start_ => cr3' = RELOC(image.entry_pgdir)
        /\ eip' = relocated_ + 1 => ebp' = 0 /\ esp' = image.bootstacktop
        /\ eip' \in InInit => ebp' = 0 /\ esp' = image.bootstacktop - 1 /\ memory'[Slot] = Spin
        /\ Cleared' => \A a \in LowBss : memory'[a] = Zero
      PROVE  EntryInv'
  BY <1>1, <1>4, <1>6 DEF EntryInv
<1>7. \A a : (Overwritten(a) <=> (eip \in InInit /\ a = Slot) \/ (Cleared /\ a \in LowBss))
      /\ (Overwritten(a)' <=> ((eip' \in InInit /\ a = Slot) \/ (Cleared' /\ a \in LowBss)))
  BY <1>1, <1>4 DEF Overwritten
<1>8. Spin \in Int /\ Zero \in Int /\ Warm \in Int
  BY Marks
<1> HIDE DEF start_, relocated_, init_
<1>9. CASE LoadCr3
  <2>1. eip = start_ /\ eip' = start_ + 1 /\ cr3' = RELOC(image.entry_pgdir) /\ paging' = paging
        /\ memory' = [memory EXCEPT ![WARMBOOT] = Warm]
    BY <1>9 DEF LoadCr3, start_
  <2>2. eip \notin InInit /\ eip' \notin InInit /\ ~Cleared /\ ~Cleared'
    BY <1>3, <1>4, <2>1
  <2>3. EntryInv'
    BY <1>3, <1>5, <1>6, <2>1, <2>2
  <2>4. \A a \in 0 .. MEMSIZE - 1 : memory'[a] = memory[a] \/ (a = WARMBOOT /\ memory'[a] = Warm)
    BY <1>2, <2>1
  <2>5. memory' \in [0 .. MEMSIZE - 1 -> Int]
    BY <1>2, <1>8, <2>1
  <2> QED
    BY <1>1, <1>7, <2>2, <2>3, <2>4, <2>5, KernelFrame
<1>10. CASE TurnOnPaging \/ JumpToRelocated \/ SetUpStack
  <2>1. memory' = memory /\ cr3' = cr3
        /\ \/ eip = start_ + 1 /\ eip' = start_ + 2 /\ paging' = TRUE
           \/ eip = start_ + 2 /\ eip' = relocated_ /\ paging' = paging
           \/ eip = relocated_ /\ eip' = relocated_ + 1 /\ paging' = paging
              /\ ebp' = 0 /\ esp' = image.bootstacktop
    BY <1>3, <1>10 DEF TurnOnPaging, JumpToRelocated, SetUpStack, start_, relocated_
  <2>2. eip \notin InInit /\ eip' \notin InInit /\ ~Cleared /\ ~Cleared'
    BY <1>3, <1>4, <2>1
  <2>3. EntryInv'
    BY <1>3, <1>5, <1>6, <2>1, <2>2
  <2> QED
    BY <1>1, <1>2, <1>7, <2>1, <2>2, <2>3, KernelFrame
<1>11. CASE CallInit
  <2>1. PICK a \in Writes(esp - 1) : memory' = [memory EXCEPT ![a] = Spin]
    BY <1>11 DEF CallInit
  <2>2. eip = relocated_ + 1 /\ eip' = init_ /\ UNCHANGED <<paging, cr3, ebp>> /\ esp' = esp - 1
    BY <1>11 DEF CallInit, init_, relocated_
  <2>3. esp = image.bootstacktop /\ ebp = 0 /\ paging /\ cr3 = RELOC(image.entry_pgdir)
    BY <1>3, <1>5, <2>2
  <2>4. Slot \in 0 .. PTSIZE - 1 /\ Slot \in 0 .. MEMSIZE - 1
    BY <1>2, WhereWritten DEF Written
  <2>5. esp - 1 \in Int /\ esp - 1 = KERNBASE + Slot
    <3>1. KERNBASE \in Int
      BY KernelAssumption DEF PTSIZE
    <3> QED
      BY <1>3, <2>3, <3>1 DEF Slot, RELOC
  <2>6. a = Slot
    <3>1. Writes(esp - 1) \subseteq {Slot}
      BY <1>2, <2>3, <2>4, <2>5, KernelAddress
    <3> QED
      BY <2>1, <3>1
  <2>7. eip \notin InInit /\ eip' \in InInit /\ ~Cleared /\ ~Cleared'
    BY <1>3, <1>4, <2>2
  <2>8. memory' = [memory EXCEPT ![Slot] = Spin]
    BY <2>1, <2>6
  <2>9. memory' \in [0 .. MEMSIZE - 1 -> Int] /\ memory'[Slot] = Spin
        /\ \A b \in 0 .. MEMSIZE - 1 : memory'[b] = memory[b] \/ (b = Slot /\ memory'[b] = Spin)
    BY <1>2, <1>8, <2>4, <2>8
  <2>10. eip' # start_ /\ eip' # start_ + 1 /\ eip' # relocated_ + 1
    BY <1>3, <2>2
  <2>11. EntryInv'
    BY <1>6, <2>2, <2>3, <2>7, <2>9, <2>10
  <2> QED
    BY <1>1, <1>7, <2>7, <2>9, <2>11, KernelFrame
<1>12. CASE ClearBss
  <2>1. eip = init_ /\ eip' = init_ + 1 /\ UNCHANGED <<paging, cr3, ebp, esp>>
        /\ (\A va \in Bss : Writes(va) # {})
        /\ memory' = [a \in DOMAIN memory |-> IF \E va \in Bss : a \in Writes(va) THEN Zero ELSE memory[a]]
    BY <1>12 DEF ClearBss, init_
  <2>2. eip \in InInit /\ eip' \in InInit /\ ~Cleared /\ Cleared'
    BY <1>3, <1>4, <2>1
  <2>3. paging /\ ebp = 0 /\ esp = image.bootstacktop - 1 /\ memory[Slot] = Spin /\ cr3 = RELOC(image.entry_pgdir)
    BY <1>3, <1>5, <2>1, <2>2
  <2>4. LowBss \subseteq 0 .. PTSIZE - 1 /\ LowBss \subseteq 0 .. MEMSIZE - 1
        /\ Slot \notin LowBss /\ Slot \in 0 .. MEMSIZE - 1
    BY <1>2, WhereWritten, WrittenInSegments DEF Written
  <2>5. KERNBASE \in Int /\ image.edata \in Int /\ image.end \in Int
    BY <1>2, Symbols, KernelAssumption DEF PTSIZE
  <2>6. ASSUME NEW va \in Bss
        PROVE  RELOC(va) \in LowBss /\ Writes(va) = {RELOC(va)}
    <3>1. va \in Int /\ RELOC(va) \in LowBss
      BY <2>5 DEF Bss, LowBss, RELOC
    <3>2. RELOC(va) \in 0 .. PTSIZE - 1 /\ va = KERNBASE + RELOC(va)
      BY <2>4, <3>1, Low
    <3>3. Writes(va) \subseteq {RELOC(va)}
      <4> DEFINE x == RELOC(va)
      <4>1. x \in 0 .. PTSIZE - 1 /\ va = KERNBASE + x
        BY <3>2
      <4> HIDE DEF x
      <4>2. Reads(va) \subseteq {x} /\ Writes(va) = Reads(va)
        BY <1>2, <2>3, <3>1, <4>1, KernelAddress
      <4> QED
        BY <4>2 DEF x
    <3> QED
      BY <2>1, <3>1, <3>3
  <2>7. ASSUME NEW a
        PROVE  (\E va \in Bss : a \in Writes(va)) <=> a \in LowBss
    <3>1. ASSUME a \in LowBss PROVE KERNBASE + a \in Bss /\ RELOC(KERNBASE + a) = a
      BY <2>5, <3>1 DEF Bss, LowBss, RELOC
    <3> QED
      BY <2>6, <3>1
  <2>8. memory' = [a \in 0 .. MEMSIZE - 1 |-> IF a \in LowBss THEN Zero ELSE memory[a]]
    BY <1>2, <2>1, <2>7
  <2>9. memory' \in [0 .. MEMSIZE - 1 -> Int]
    BY <1>2, <1>8, <2>8
  <2>10. \A a \in 0 .. MEMSIZE - 1 : memory'[a] = memory[a] \/ (a \in LowBss /\ memory'[a] = Zero)
    BY <2>8
  <2>11. memory'[Slot] = Spin /\ \A a \in LowBss : memory'[a] = Zero
    BY <2>3, <2>4, <2>8
  <2>12. eip' # start_ /\ eip' # start_ + 1 /\ eip' # relocated_ + 1
    BY <1>3, <2>1
  <2>13. EntryInv'
    BY <1>6, <2>1, <2>2, <2>3, <2>11, <2>12
  <2> QED
    BY <1>1, <1>7, <2>2, <2>9, <2>10, <2>13, KernelFrame
<1> QED
  BY <1>9, <1>10, <1>11, <1>12 DEF Kernel

-----------------------------------------------------------------------------
(* The invariant is inductive, and what follows from it. *)

LEMMA RestStep == Modes /\ Rest /\ [KernelNext]_kernel_vars => Rest'
<1> SUFFICES ASSUME Modes, Rest, [KernelNext]_kernel_vars PROVE Rest'
  OBVIOUS
<1>1. CASE Loading
  <2>1. UNCHANGED <<paging, cr3, ebp, esp>>
    BY <1>1 DEF Loading
  <2>2. ASSUME ~(pc # "entry" /\ pc' = "entry") PROVE UNCHANGED cpu
    BY <1>1, <2>1, <2>2 DEF Loading, cpu
  <2>3. CASE InSector
    <3>1. pc' # "entry" \/ pc' = pc
      BY <2>3 DEF InSector, boot_S, start, seta20_1, out_d1, seta20_2, out_df, lgdt, set_pe, ljmp, protcseg,
         Goes, Firmware, Controller, Interrupt
    <3> QED
      BY <2>2, <2>3, <3>1, SectorStep
  <2>4. CASE DiskReady \/ DiskDone
    <3>1. pc' = pc
      BY <2>4 DEF DiskReady, DiskDone, sectorVars
    <3> QED
      BY <2>2, <2>4, <3>1, DriveStep
  <2>5. CASE Processor
    BY <1>1, <2>5, StartBootStep, CheckMagicStep, LoadSegmentStep, CallEntryStep, MoreToReadStep,
       AskForSectorStep, ReadSectorStep, ReadsegReturnsStep DEF Processor
  <2> QED
    BY <1>1, <2>3, <2>4, <2>5 DEF Loading, Next
<1>2. CASE Kernel
  BY <1>2, KernelStep
<1>3. CASE UNCHANGED kernel_vars
  BY <1>3, StutterStep
<1> QED
  BY <1>1, <1>2, <1>3 DEF KernelNext

\* The invariant from which the rest follows: what the segment registers, line 20 and the
\* disk are like at each point of the program, and what memory holds after each read.
THEOREM LoadingInvariant == KernelSpec => [](Modes /\ Rest)
<1>1. KernelInit => Modes /\ Rest
  BY ModesInit, RestInit
<1>2. Modes /\ Rest /\ [KernelNext]_kernel_vars => (Modes /\ Rest)'
  BY ModesStep, RestStep
<1> QED
  BY <1>1, <1>2, PTL DEF KernelSpec

\* Whole sectors are read, so more than was asked for is written, but less than a sector on
\* either side; bootmain never overwrites the boot loader or the rest of memory.  entry.S and
\* the clearing of the BSS write inside the segments, and one word outside: at 0x472
\* (entry.S:44), and nothing else ever gets its value.
THEOREM MemoryKept == KernelSpec => []RestOfMemoryKept
<1>1. Modes /\ Rest => RestOfMemoryKept
  BY DEF Rest
<1> QED
  BY <1>1, LoadingInvariant, PTL

\* The loop over the program headers reads what the image has, however many segments it
\* has loaded by then, and so does whoever looks at them, or at the entry point, after.
THEOREM HeadersKept == KernelSpec => []HeaderIntact
<1>1. ASSUME Modes /\ Rest PROVE HeaderIntact
  <2>0. pc \in {"segments", "entry"} => memory[ELFHDR] = 0
    <3>1. ELFHDR \in Page /\ ELFHDR \in Nat
      BY Sizes DEF Page
    <3> QED
      BY <1>1, <3>1 DEF Rest, PageInv, Page
  <2> SUFFICES ASSUME pc \in {"segments", "entry"}, NEW k \in DOMAIN image.ph
               PROVE  memory[ELFHDR + image.phoff + k - 1] = image.phoff + k - 1
    BY <2>0 DEF HeaderIntact
  <2> DEFINE a == ELFHDR + image.phoff + k - 1
  <2>1. image.magic /\ image \in Images
    BY <1>1 DEF Rest, SegmentsInv, LoaderTypes
  <2>2. image.phoff \in Nat /\ Len(image.ph) \in Nat /\ DOMAIN image.ph = 1 .. Len(image.ph)
        /\ image.phoff + Len(image.ph) <= 8 * SECTSIZE
    BY <2>1, Files, Segments
  <2>3. SECTSIZE \in Nat /\ ELFHDR \in Nat
    BY Sizes
  <2>4. a \in Page /\ a - ELFHDR = image.phoff + k - 1
    BY <2>2, <2>3 DEF Page
  <2>5. memory[a] = a - ELFHDR
    BY <1>1, <2>4 DEF Rest, PageInv, Page
  <2> QED
    BY <2>4, <2>5
<1> QED
  BY <1>1, LoadingInvariant, PTL

\* When i386_init has cleared the BSS, every segment is where it was linked and the BSS is
\* zero, seen through the page tables; the stack has kept the return address.
THEOREM LinkedMemory == KernelSpec => []MemoryAsLinked
<1>1. ASSUME Modes /\ Rest, Cleared
      PROVE  SegmentsLoaded /\ StackSurvives
  <2> USE DEF Cleared
  <2>1. image.magic /\ image \in Images /\ a20 /\ ph = Len(image.ph) + 1
        /\ Len(image.ph) \in Nat /\ DOMAIN image.ph = 1 .. Len(image.ph)
        /\ memory \in [0 .. MEMSIZE - 1 -> Int]
    BY <1>1, AtEntry
  <2>2. image._start \in Nat \ {0} /\ image.relocated > image._start + 2 /\ image.i386_init > image.relocated + 1
        /\ {image.relocated, image.i386_init, image.bootstacktop, image.edata, image.end} \subseteq Nat
    BY <1>1, <2>1, Symbols
  <2>3. eip = image.i386_init + 1
    BY <1>1 DEF Cleared
  <2>4. eip \in InInit /\ eip # image._start /\ eip # image._start + 1
    BY <2>2, <2>3 DEF InInit
  <2>5. paging /\ cr3 = RELOC(image.entry_pgdir) /\ ebp = 0 /\ esp = image.bootstacktop - 1
        /\ memory[Slot] = Spin /\ \A a \in LowBss : memory[a] = Zero
    BY <1>1, <2>4 DEF Rest, EntryInv
  <2>6. ASSUME NEW k \in DOMAIN image.ph, NEW a \in Of(image.ph[k])
        PROVE  /\ memory[a] = a - image.ph[k].p_pa + image.ph[k].p_offset \/ a = Slot \/ a \in LowBss
               /\ a \in 0 .. PTSIZE - 1 /\ a \in 0 .. MEMSIZE - 1
    <3>1. Loaded = ph - 1
      BY <1>1 DEF Loaded
    <3>2. a \in SectorsOf(image.ph[k]) /\ a \in 0 .. PTSIZE - 1 /\ a \in 0 .. MEMSIZE - 1
      BY <1>1, <2>1, InSegment
    <3>3. k \in 1 .. Loaded
      BY <2>1, <3>1
    <3> QED
      BY <1>1, <3>2, <3>3 DEF Rest, SegmentsInv, SectorsOf, Overwritten
  <2>7. memory[cr3] \in FileOffsets(image.entry_pgdir)
    <3> DEFINE d == RELOC(image.entry_pgdir)
    <3>1. PICK k \in DOMAIN image.ph :
            /\ d \in image.ph[k].p_pa .. image.ph[k].p_pa + image.ph[k].p_filesz - 1
            /\ d \notin LowBss \cup {Slot}
      BY <1>1, <2>1, WrittenInSegments
    <3>2. Header(image.ph[k]) /\ image.ph[k].p_filesz <= image.ph[k].p_memsz
      BY <1>1, <2>1, Files, Segments
    <3> DEFINE p_pa == image.ph[k].p_pa
               p_filesz == image.ph[k].p_filesz
               p_memsz == image.ph[k].p_memsz
               p_offset == image.ph[k].p_offset
    <3>3. p_pa \in Nat /\ p_filesz \in Nat /\ p_memsz \in Nat /\ p_offset \in Nat /\ p_filesz <= p_memsz
      BY <3>2 DEF Header
    <3>4. d \in p_pa .. p_pa + p_filesz - 1 /\ d \notin LowBss /\ d # Slot
      BY <3>1
    <3>5. FileOffsets(image.entry_pgdir) =
            {image.ph[l].p_offset + d - image.ph[l].p_pa :
               l \in {l \in DOMAIN image.ph : d - image.ph[l].p_pa \in 0 .. image.ph[l].p_filesz - 1}}
      BY DEF FileOffsets
    <3>6. d \in Of(image.ph[k]) => memory[d] = d - p_pa + p_offset
      BY <2>6, <3>4
    <3>7. d \in p_pa .. p_pa + p_memsz - 1 => d \in Of(image.ph[k])
      BY DEF Of
    <3>8. p_offset + d - p_pa \in FileOffsets(image.entry_pgdir)
          \/ d - p_pa \notin 0 .. p_filesz - 1
      BY <3>5
    <3> HIDE DEF d, p_pa, p_filesz, p_memsz, p_offset
    <3>9. d \in p_pa .. p_pa + p_memsz - 1 /\ d - p_pa \in 0 .. p_filesz - 1 /\ d \in Int
      BY <3>3, <3>4
    <3>10. memory[d] = p_offset + d - p_pa
      BY <3>3, <3>6, <3>7, <3>9
    <3>11. memory[d] \in FileOffsets(image.entry_pgdir)
      BY <3>8, <3>9, <3>10
    <3> QED
      BY <2>5, <3>11 DEF d
  <2>8. KERNBASE \in Int
    BY KernelAssumption DEF PTSIZE
  <2>9. ASSUME NEW x \in 0 .. PTSIZE - 1, x \in 0 .. MEMSIZE - 1
        PROVE  Reads(KERNBASE + x) = {x}
    <3>1. KERNBASE + x \in Int
      BY <2>8
    <3> DEFINE va == KERNBASE + x
    <3>2. va \in Int /\ va = KERNBASE + x
      BY <3>1
    <3> HIDE DEF va
    <3>3. Reads(va) = {x}
      BY <2>1, <2>5, <2>7, <2>9, <3>2, KernelAddress
    <3> QED
      BY <3>3 DEF va
  <2>10. SegmentsLoaded
    <3> SUFFICES ASSUME NEW k \in DOMAIN image.ph, NEW b \in 0 .. image.ph[k].p_memsz - 1
                 PROVE  \E a \in Reads(KERNBASE + image.ph[k].p_pa + b) :
                          IF KERNBASE + image.ph[k].p_pa + b \in image.edata .. image.end - 1 THEN memory[a] = Zero
                          ELSE \/ memory[a] = image.ph[k].p_offset + b
                               \/ KERNBASE + image.ph[k].p_pa + b \in esp .. image.bootstacktop - 1
      BY DEF SegmentsLoaded
    <3>1. Header(image.ph[k])
      BY <2>1, Files
    <3> DEFINE p_pa == image.ph[k].p_pa
               p_offset == image.ph[k].p_offset
               a == p_pa + b
               va == KERNBASE + p_pa + b
    <3>2. p_pa \in Nat /\ p_offset \in Nat /\ a \in Of(image.ph[k])
      BY <3>1 DEF Header, Of
    <3>3. memory[a] = a - p_pa + p_offset \/ a = Slot \/ a \in LowBss
      BY <2>6, <3>2
    <3>4. a \in 0 .. PTSIZE - 1 /\ a \in 0 .. MEMSIZE - 1
      BY <2>6, <3>2
    <3>5. va = KERNBASE + a /\ va \in Int /\ a \in Int /\ a - p_pa + p_offset = p_offset + b
      BY <2>8, <3>2
    <3>6. Reads(va) = {a}
      BY <2>9, <3>4, <3>5
    <3> HIDE DEF a, va, p_pa, p_offset
    <3>7. va \in image.edata .. image.end - 1 => a \in LowBss
      BY <2>2, <2>8, <3>5 DEF LowBss, RELOC
    <3>8. a \in LowBss => va \in image.edata .. image.end - 1
      BY <2>2, <2>8, <3>5 DEF LowBss, RELOC
    <3>9. a = Slot => va \in esp .. image.bootstacktop - 1
      BY <2>2, <2>5, <2>8, <3>5 DEF Slot, RELOC
    <3>10. IF va \in image.edata .. image.end - 1 THEN memory[a] = Zero
           ELSE memory[a] = p_offset + b \/ va \in esp .. image.bootstacktop - 1
      BY <2>5, <3>3, <3>5, <3>7, <3>8, <3>9
    <3>11. \E c \in Reads(va) :
             IF va \in image.edata .. image.end - 1 THEN memory[c] = Zero
             ELSE memory[c] = p_offset + b \/ va \in esp .. image.bootstacktop - 1
      BY <3>6, <3>10
    <3> QED
      BY <3>11 DEF va, p_pa, p_offset
  <2>11. StackSurvives
    <3>1. Slot \in 0 .. PTSIZE - 1 /\ Slot \in 0 .. MEMSIZE - 1
      BY <1>1, <2>1, WhereWritten DEF Written
    <3>2. Reads(KERNBASE + Slot) = {Slot}
      BY <2>9, <3>1
    <3>3. esp = KERNBASE + Slot
      BY <2>2, <2>5, <2>8 DEF Slot, RELOC
    <3> QED
      BY <2>5, <3>2, <3>3 DEF StackSurvives
  <2> QED
    BY <2>10, <2>11
<1>2. Modes /\ Rest => MemoryAsLinked
  BY <1>1 DEF MemoryAsLinked
<1> QED
  BY <1>2, LoadingInvariant, PTL
=============================================================================
