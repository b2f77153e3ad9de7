----------------------------- MODULE BootLoader -----------------------------
(***************************************************************************)
(* boot/main.c: bootmain loads the segments of the kernel's ELF image from *)
(* the disk, whole sectors at a time, with the processor polling the disk. *)
(*                                                                         *)
(* A byte is known by where in the image it comes from: memory holds the   *)
(* offsets of the bytes loaded.  A program header takes one byte.          *)
(***************************************************************************)
EXTENDS BootSector, Sequences

CONSTANTS
  SECTSIZE,   \* bytes in a sector
  BYTE,       \* values of a register of the disk (256)
  TOP,        \* values of the bits of the last one that count as the sector's (16)
  ELFHDR,     \* where in memory the first page of the image goes
  MEMSIZE,    \* size of physical memory
  Images      \* ELF files: [magic, phoff, ph], ph a sequence of program headers

ASSUME BootAssumption ==
  /\ SECTSIZE \in Nat \ {0} /\ BYTE \in Nat \ {0} /\ MEMSIZE \in Nat
  /\ ELFHDR \in Nat /\ ELFHDR % SECTSIZE = 0
  /\ ELFHDR + 8 * SECTSIZE <= MEMSIZE /\ MEMSIZE <= LIMIT
  /\ TOP \in 1 .. BYTE /\ BYTE * BYTE * BYTE * TOP > 8

RoundDown(a) == a - (a % SECTSIZE)

\* The addresses of the sectors that count bytes at p lie in.
Sectors(p, count) == RoundDown(p) .. RoundDown(p + count + SECTSIZE - 1) - 1

\* A file as kernel.ld lays it out: the program headers are in its first page, each
\* segment begins as far into a sector of the file as of memory, and no sector of memory
\* holds bytes of two segments, or of one and of the page read first.
FileLaidOut(file) ==
  /\ file.magic \in BOOLEAN /\ file.phoff \in Nat
  /\ file.ph \in Seq([p_pa : Nat, p_filesz : Nat, p_memsz : Nat, p_offset : Nat])
  /\ file.magic =>
       /\ file.phoff + Len(file.ph) <= 8 * SECTSIZE
       /\ \A k \in DOMAIN file.ph :
            LET s == file.ph[k] IN
            /\ s.p_offset % SECTSIZE = s.p_pa % SECTSIZE /\ s.p_filesz <= s.p_memsz
            /\ s.p_offset + s.p_memsz <= (BYTE * BYTE * BYTE * TOP - 1) * SECTSIZE
            /\ Sectors(s.p_pa, s.p_memsz) \subseteq
                 0 .. MEMSIZE - 1 \ ELFHDR .. ELFHDR + 8 * SECTSIZE - 1
            /\ \A l \in DOMAIN file.ph \ {k} :
                 Sectors(s.p_pa, s.p_memsz) \cap Sectors(file.ph[l].p_pa, file.ph[l].p_memsz) = {}

ASSUME ImagesAssumption == \A file \in Images : FileLaidOut(file)

\* What memory holds that nobody has loaded, and what a drive sends that has nothing
\* to send.
Junk == -(SECTSIZE + 1)

VARIABLES
  image,               \* the image on the disk
  memory,
  BSY, RDY,            \* the bits of the disk's status register that are tested
  sector,              \* the sector the disk has been asked for
  data,                \* the bytes the disk has ready, if any
  pa, end_pa, offset,  \* of readseg
  ph                   \* the number of program headers dealt with

disk == <<BSY, RDY, sector, data>>
readseg_vars == <<pa, end_pa, offset>>
loaderVars == <<image, memory, disk, readseg_vars, ph>>
vars == <<sectorVars, loaderVars>>

-----------------------------------------------------------------------------
(* The disk. *)

\* The drive comes up.
DiskReady ==
  /\ ~RDY
  /\ RDY' = TRUE
  /\ UNCHANGED <<image, memory, BSY, sector, data, sectorVars, readseg_vars, ph>>

\* The drive finishes what it was busy with.  The image begins in sector 1.  boot.S does
\* not wait for the keyboard controller to act on its last byte; what makes that right is
\* that a sector takes milliseconds and the controller less than one.
DiskDone ==
  /\ BSY /\ input = "empty"
  /\ BSY' = FALSE
  /\ data' = [k \in 0 .. SECTSIZE - 1 |->
                IF sector = 0 THEN Junk ELSE (sector - 1) * SECTSIZE + k]
  /\ UNCHANGED <<image, memory, RDY, sector, sectorVars, readseg_vars, ph>>

NoData == [k \in 0 .. SECTSIZE - 1 |-> Junk]

-----------------------------------------------------------------------------
(* readsect: the processor waits, asks for a sector, waits again, and reads it. *)

\* Mutant: a drive that is not busy is taken to be ready.
waitdisk_busy == ~BSY
waitdisk == ~BSY /\ RDY

BYTE2 == BYTE * BYTE
BYTE3 == BYTE2 * BYTE

\* The registers a sector number goes into, and the number the disk makes of them.
Registers(o) == <<o % BYTE, (o \div BYTE) % BYTE, (o \div BYTE2) % BYTE, (o \div BYTE3) % BYTE>>
LBA(r) == r[1] + (r[2] * BYTE) + (r[3] * BYTE2) + ((r[4] % TOP) * BYTE3)

\* A drive that is not ready ignores the command.
AskForSector ==
  /\ pc = "command" /\ waitdisk
  /\ IF RDY THEN BSY' = TRUE /\ sector' = LBA(Registers(offset)) /\ data' = NoData
            ELSE UNCHANGED <<BSY, sector, data>>
  /\ pc' = "insl"
  /\ UNCHANGED <<image, memory, RDY, readseg_vars, ph, modes, controller>>

\* Memory with the bytes d stored from p on, through %es; line 20 may not be let through.
CanStore(d, p) == \A k \in DOMAIN d : Linear(es, "W", p + k) # {}
Stored(d, p) ==
  [a \in DOMAIN memory |->
     LET ks == {k \in DOMAIN d : a \in Linear(es, "W", p + k)}
     IN  IF ks = {} THEN memory[a] ELSE d[CHOOSE k \in ks : TRUE]]

\* insl, and the rest of the body of readseg's loop.
\* Mutant: the disk is not waited for again.
ReadSector_at_once ==
  /\ pc = "insl" /\ CanStore(data, pa)
  /\ memory' = Stored(data, pa)
  /\ pa' = pa + SECTSIZE /\ offset' = offset + 1
  /\ pc' = "readseg"
  /\ UNCHANGED <<image, disk, end_pa, ph, modes, controller>>
ReadSector ==
  /\ pc = "insl" /\ waitdisk /\ CanStore(data, pa)
  /\ memory' = Stored(data, pa)
  /\ pa' = pa + SECTSIZE /\ offset' = offset + 1
  /\ pc' = "readseg"
  /\ UNCHANGED <<image, disk, end_pa, ph, modes, controller>>

-----------------------------------------------------------------------------
(* readseg. *)

\* Mutant: the end is counted from the sector's beginning.
CallReadseg_rounded(p, count, o) ==
  /\ end_pa' = RoundDown(p) + count
  /\ pa' = RoundDown(p)
  /\ offset' = (o \div SECTSIZE) + 1
  /\ pc' = "readseg"
CallReadseg(p, count, o) ==
  /\ end_pa' = p + count
  /\ pa' = RoundDown(p)
  /\ offset' = (o \div SECTSIZE) + 1
  /\ pc' = "readseg"

\* Mutant: a sector too many.
MoreToRead_equal ==
  /\ pc = "readseg" /\ pa <= end_pa
  /\ pc' = "command"
  /\ UNCHANGED <<image, memory, disk, readseg_vars, ph, modes, controller>>
MoreToRead ==
  /\ pc = "readseg" /\ pa < end_pa
  /\ pc' = "command"
  /\ UNCHANGED <<image, memory, disk, readseg_vars, ph, modes, controller>>

ReadsegReturns ==
  /\ pc = "readseg" /\ pa >= end_pa
  /\ pc' = IF ph = 0 THEN "header" ELSE "segments"
  /\ UNCHANGED <<image, memory, disk, readseg_vars, ph, modes, controller>>

-----------------------------------------------------------------------------
(* bootmain. *)

StartBoot ==
  /\ pc = "bootmain"
  /\ CallReadseg(ELFHDR, SECTSIZE * 8, 0)
  /\ UNCHANGED <<image, memory, disk, ph, modes, controller>>

\* The byte bootmain reads at an address.
Byte(p) == memory[CHOOSE a \in Linear(ds, "R", p) : TRUE]

\* The header in memory is the image's if its first byte has been loaded.
CheckMagic ==
  /\ pc = "header"
  /\ IF Byte(ELFHDR) = 0 /\ image.magic THEN pc' = "segments" /\ ph' = 1
                                          ELSE pc' = "bad" /\ ph' = ph
  /\ UNCHANGED <<image, memory, disk, readseg_vars, modes, controller>>

\* The program header that is at ELFHDR + e_phoff, for what memory holds there.
ProgramHeader(k) ==
  LET byte == Byte(ELFHDR + image.phoff + k - 1) IN
  IF byte - image.phoff + 1 \in DOMAIN image.ph THEN image.ph[byte - image.phoff + 1]
  ELSE [p_pa |-> 0, p_filesz |-> 0, p_memsz |-> 0, p_offset |-> 0]

LoadSegment ==
  /\ pc = "segments" /\ ph <= Len(image.ph)
  /\ LET p == ProgramHeader(ph) IN CallReadseg(p.p_pa, p.p_memsz, p.p_offset)
  /\ ph' = ph + 1
  /\ UNCHANGED <<image, memory, disk, modes, controller>>

CallEntry ==
  /\ pc = "segments" /\ ph > Len(image.ph)
  /\ pc' = "entry"
  /\ UNCHANGED <<image, memory, disk, readseg_vars, ph, modes, controller>>

-----------------------------------------------------------------------------
\* boot.S will call bootmain; the drive may still be coming up or have been left busy.
Init ==
  /\ SectorInit
  /\ image \in Images
  /\ memory = [a \in 0 .. MEMSIZE - 1 |-> Junk]
  /\ BSY \in BOOLEAN /\ RDY \in BOOLEAN /\ sector = 0 /\ data = NoData
  /\ pa = 0 /\ end_pa = 0 /\ offset = 0 /\ ph = 0

Processor ==
  \/ StartBoot \/ CheckMagic \/ LoadSegment \/ CallEntry
  \/ MoreToRead \/ AskForSector \/ ReadSector \/ ReadsegReturns

InSector == (boot_S \/ Firmware) /\ UNCHANGED loaderVars

Next == InSector \/ Processor \/ DiskReady \/ DiskDone


-----------------------------------------------------------------------------
(* Properties. *)

\* The program headers are still to be found where the first page was read, as long
\* as the loop over them lasts, and so is the ELF header, whose entry point is used last.
HeaderIntact ==
  pc \in {"segments", "entry"} =>
    /\ memory[ELFHDR] = 0
    /\ \A k \in DOMAIN image.ph : memory[ELFHDR + image.phoff + k - 1] = image.phoff + k - 1

\* What readseg may write: less than a sector on either side of what it is asked for.
Asked(a) ==
  \/ a \in ELFHDR .. ELFHDR + 8 * SECTSIZE - 1
  \/ \E k \in DOMAIN image.ph :
       a \in image.ph[k].p_pa - SECTSIZE + 1 ..
             image.ph[k].p_pa + image.ph[k].p_memsz + SECTSIZE - 2
=============================================================================
