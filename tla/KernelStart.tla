---------------------------- MODULE KernelStart -----------------------------
(***************************************************************************)
(* From the boot loader to the kernel's C code: kern/entry.S, the page     *)
(* directory and page table of kern/entrypgdir.c that it turns on, and the *)
(* first thing i386_init does, clearing the BSS.                           *)
(*                                                                         *)
(* The kernel runs at the addresses it was linked at, from memory that the *)
(* boot loader has filled at the addresses it was loaded at.  Code is a    *)
(* byte per instruction, or group of instructions, modelled; a word on the *)
(* stack is a byte.  An image has the symbols of the link besides.         *)
(***************************************************************************)
EXTENDS BootLoader

CONSTANTS
  KERNBASE,             \* where the memory from 0 is mapped for the kernel
  PGSIZE, NPTENTRIES,   \* bytes of a page, entries of a page table
  NPDENTRIES,           \* entries of a page directory
  WARMBOOT              \* 0x472

PTSIZE == PGSIZE * NPTENTRIES

ASSUME KernelAssumption ==
  /\ PGSIZE \in Nat \ {0} /\ NPTENTRIES \in Nat \ {0} /\ NPDENTRIES \in Nat \ {0}
  /\ KERNBASE \in PTSIZE .. (NPDENTRIES - 1) * PTSIZE /\ KERNBASE % PTSIZE = 0
  /\ WARMBOOT \in 0 .. MEMSIZE - 1
  /\ SECTSIZE > 1

RELOC(va) == va - KERNBASE

\* A kernel as it is linked: all of it in the 4MB that are mapped, none of it where the
\* boot loader's page or the firmware's word is; the page directory, the stack and the
\* BSS apart from each other in its segments, the code at addresses of its own.
Linked(file) ==
  LET Of(s) == s.p_pa .. s.p_pa + s.p_memsz - 1
      slot == RELOC(file.bootstacktop) - 1
      bss == RELOC(file.edata) .. RELOC(file.end) - 1
      directory == RELOC(file.entry_pgdir)
  IN
  /\ \A k \in DOMAIN file.ph :
       /\ file.ph[k].p_pa + file.ph[k].p_memsz <= PTSIZE
       /\ WARMBOOT \notin Sectors(file.ph[k].p_pa, file.ph[k].p_memsz)
  /\ WARMBOOT \notin ELFHDR .. ELFHDR + 8 * SECTSIZE - 1
  /\ \E k \in DOMAIN file.ph : bss \subseteq Of(file.ph[k])
  /\ \E k \in DOMAIN file.ph : slot \in Of(file.ph[k]) \ bss
  /\ \E k \in DOMAIN file.ph :
       directory \in file.ph[k].p_pa .. file.ph[k].p_pa + file.ph[k].p_filesz - 1
  /\ directory \notin bss \cup {slot}
  /\ {file.relocated, file.i386_init, file.bootstacktop, file.entry_pgdir, file.edata, file.end} \subseteq Nat
  /\ file._start \in Nat \ {0} /\ file.relocated > file._start + 2
  /\ file.i386_init > file.relocated + 1

ASSUME LinkAssumption == \A file \in Images : file.magic => Linked(file)

VARIABLES
  eip,          \* the address of the next instruction, 0 while the boot loader runs
  paging,       \* CR0_PG, set together with CR0_WP
  cr3, ebp, esp

cpu == <<eip, paging, cr3, ebp, esp>>
kernel_vars == <<vars, cpu>>

Zero == -1
Spin == -2      \* the address of the loop after the call of i386_init
Warm == Junk - 1    \* 0x1234, for the firmware: "warm boot"

-----------------------------------------------------------------------------
(* The page tables. *)

\* Mutant: the first 4MB are not mapped where they are.
entry_pgdir_high ==
  [i \in 0 .. NPDENTRIES - 1 |->
     CASE i = KERNBASE \div PTSIZE -> [P |-> TRUE, W |-> TRUE]
       [] OTHER -> [P |-> FALSE, W |-> FALSE]]
\* Mutant: the kernel's mapping is read-only.
entry_pgdir_read_only ==
  [i \in 0 .. NPDENTRIES - 1 |->
     CASE i \in {0, KERNBASE \div PTSIZE} -> [P |-> TRUE, W |-> FALSE]
       [] OTHER -> [P |-> FALSE, W |-> FALSE]]
entry_pgdir ==
  [i \in 0 .. NPDENTRIES - 1 |->
     CASE i = 0 -> [P |-> TRUE, W |-> FALSE]
       [] i = KERNBASE \div PTSIZE -> [P |-> TRUE, W |-> TRUE]
       [] OTHER -> [P |-> FALSE, W |-> FALSE]]
entry_pgtable == [i \in 0 .. NPTENTRIES - 1 |-> [page |-> i * PGSIZE, P |-> TRUE, W |-> TRUE]]

\* Where in the file the byte linked at va is, if it is from the file.
FileOffsets(va) ==
  {image.ph[k].p_offset + RELOC(va) - image.ph[k].p_pa :
     k \in {k \in DOMAIN image.ph : RELOC(va) - image.ph[k].p_pa \in 0 .. image.ph[k].p_filesz - 1}}

\* The physical addresses that va can be read and be written at: one or none.  The
\* directory must be where cr3 says.
Reads(va) ==
  IF ~paging THEN Linear(cs, "R", va) \cap DOMAIN memory
  ELSE LET pde == entry_pgdir[va \div PTSIZE]
           pte == entry_pgtable[(va \div PGSIZE) % NPTENTRIES]
       IN  {a \in DOMAIN memory :
              /\ memory[cr3] \in FileOffsets(image.entry_pgdir)
              /\ pde.P /\ pte.P /\ a = Bus(pte.page + (va % PGSIZE))}
Writes(va) ==
  IF ~paging THEN Reads(va)
  ELSE {a \in Reads(va) : entry_pgdir[va \div PTSIZE].W /\ entry_pgtable[(va \div PGSIZE) % NPTENTRIES].W}

\* The processor finds the instruction linked at va where it looks for the next one.
Fetches(va) == \E a \in Reads(eip) : memory[a] \in FileOffsets(va)

-----------------------------------------------------------------------------
(* entry.S *)

\* The entry point in the ELF header, for what memory holds there.
e_entry == IF Byte(ELFHDR) = 0 THEN image._start ELSE Junk

Loading ==
  /\ Next
  /\ eip' = IF pc # "entry" /\ pc' = "entry" THEN e_entry ELSE eip
  /\ UNCHANGED <<paging, cr3, ebp, esp>>

Stays == UNCHANGED <<sectorVars, image, disk, readseg_vars, ph>>

LoadCr3 ==
  /\ eip = image._start /\ Fetches(image.entry)
  /\ memory' = [memory EXCEPT ![WARMBOOT] = Warm]
  /\ cr3' = RELOC(image.entry_pgdir)
  /\ eip' = eip + 1
  /\ Stays /\ UNCHANGED <<paging, ebp, esp>>

TurnOnPaging ==
  /\ eip = image._start + 1 /\ Fetches(image.entry + 1)
  /\ paging' = TRUE
  /\ eip' = eip + 1
  /\ Stays /\ UNCHANGED <<memory, cr3, ebp, esp>>

\* Still at a low address, with paging on.
JumpToRelocated ==
  /\ eip = image._start + 2 /\ Fetches(image.entry + 2)
  /\ eip' = image.relocated
  /\ Stays /\ UNCHANGED <<memory, paging, cr3, ebp, esp>>

\* Mutant: the stack is at the end of the kernel.
SetUpStack_end ==
  /\ eip = image.relocated /\ Fetches(image.relocated)
  /\ ebp' = 0 /\ esp' = image.end
  /\ eip' = eip + 1
  /\ Stays /\ UNCHANGED <<memory, paging, cr3>>
SetUpStack ==
  /\ eip = image.relocated /\ Fetches(image.relocated)
  /\ ebp' = 0 /\ esp' = image.bootstacktop
  /\ eip' = eip + 1
  /\ Stays /\ UNCHANGED <<memory, paging, cr3>>

CallInit ==
  /\ eip = image.relocated + 1 /\ Fetches(image.relocated + 1)
  /\ \E a \in Writes(esp - 1) : memory' = [memory EXCEPT ![a] = Spin]
  /\ esp' = esp - 1
  /\ eip' = image.i386_init
  /\ Stays /\ UNCHANGED <<paging, cr3, ebp>>

-----------------------------------------------------------------------------
(* i386_init: memset(edata, 0, end - edata). *)

\* Mutant: the last byte is left.
Bss_short == image.edata .. image.end - 2
\* Mutant: a byte too many is cleared.
Bss_past == image.edata .. image.end
Bss == image.edata .. image.end - 1

ClearBss ==
  /\ eip = image.i386_init /\ Fetches(image.i386_init)
  /\ \A va \in Bss : Writes(va) # {}
  /\ memory' = [a \in DOMAIN memory |-> IF \E va \in Bss : a \in Writes(va) THEN Zero ELSE memory[a]]
  /\ eip' = eip + 1
  /\ Stays /\ UNCHANGED <<paging, cr3, ebp, esp>>

-----------------------------------------------------------------------------
KernelInit ==
  /\ Init
  /\ eip = 0 /\ paging = FALSE /\ cr3 = 0 /\ ebp \in {0, ELFHDR} /\ esp = 0

Kernel ==
  /\ pc = "entry"
  /\ LoadCr3 \/ TurnOnPaging \/ JumpToRelocated \/ SetUpStack \/ CallInit \/ ClearBss

KernelNext == Loading \/ Kernel

KernelSpec == KernelInit /\ [][KernelNext]_kernel_vars
\* The processor goes on, and the controller and the disk answer in the end.
KernelFairSpec ==
  /\ KernelSpec
  /\ WF_kernel_vars(Loading /\ (boot_S \/ Processor)) /\ WF_kernel_vars(Loading /\ Controller)
  /\ WF_kernel_vars(Loading /\ DiskReady) /\ WF_kernel_vars(Loading /\ DiskDone)
  /\ WF_kernel_vars(Kernel)

-----------------------------------------------------------------------------
(* Properties. *)

\* Loading writes more to memory than was asked, but less than a sector on either side of
\* what was.  entry.S and i386_init write inside the segments, but for the one word at
\* 0x472 that entry.S leaves to the firmware (entry.S:44).  Nothing else in memory, like
\* the boot loader itself, is disturbed.
RestOfMemoryKept ==
  \A a \in DOMAIN memory :
    /\ memory[a] \notin {Junk, Warm} => Asked(a)
    /\ memory[a] = Warm => a = WARMBOOT /\ pc = "entry"
    /\ memory[a] \in {Zero, Spin} =>
         \E k \in DOMAIN image.ph :
           a \in image.ph[k].p_pa .. image.ph[k].p_pa + image.ph[k].p_memsz - 1

Cleared == pc = "entry" /\ eip = image.i386_init + 1

\* Every segment is whole, however it lies in its first and last sector and whatever was
\* loaded before and after it; from edata to end, where the boot loader has put what came
\* next in the file, there are zeros.
SegmentsLoaded ==
  \A k \in DOMAIN image.ph : \A b \in 0 .. image.ph[k].p_memsz - 1 :
    LET va == KERNBASE + image.ph[k].p_pa + b IN
    \E a \in Reads(va) :
      IF va \in image.edata .. image.end - 1 THEN memory[a] = Zero
      ELSE memory[a] = image.ph[k].p_offset + b \/ va \in esp .. image.bootstacktop - 1

\* Clearing the BSS has not cleared the stack it runs on, and the chain of frame
\* pointers begins with 0, whatever %ebp was before.
StackSurvives == ebp = 0 /\ \E a \in Reads(esp) : memory[a] = Spin

\* When the C code starts using its variables and its stack, memory is as the link has it.
MemoryAsLinked == Cleared => SegmentsLoaded /\ StackSurvives

\* The processor and the disk do not end up waiting for each other: what is not an ELF
\* file is rejected, and a kernel does get to its C code: every instruction is found
\* where it is fetched, before and after paging is turned on under its feet, and no
\* access faults.
KernelStarts == <>(IF image.magic THEN Cleared ELSE pc = "bad")
=============================================================================
