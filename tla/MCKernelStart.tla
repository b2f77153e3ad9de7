--------------------------- MODULE MCKernelStart ----------------------------
(* KernelStart on kernels as kernel.ld lays them out: text, and on a page of *)
(* its own data with a BSS after it.  The last image is not of an ELF file.  *)
EXTENDS KernelStart

Segment(p_pa, filesz, memsz, off) ==
  [p_pa |-> p_pa, p_filesz |-> filesz, p_memsz |-> memsz, p_offset |-> off]

\* The text need not begin or end with a sector; a segment may be empty.
KernelImage(from, textsz, datasz, bss, empty, at) ==
  [magic |-> TRUE, phoff |-> at,
   ph |-> <<Segment(24 + from, textsz, textsz, 16 + from)>>
          \o (IF empty THEN <<Segment(36, 0, 0, 28)>> ELSE <<>>)
          \o <<Segment(40, datasz, datasz + bss, 32)>>,
   _start |-> 24 + from, entry |-> KERNBASE + 24 + from, relocated |-> KERNBASE + 27 + from,
   i386_init |-> KERNBASE + 29 + from, entry_pgdir |-> KERNBASE + 40,
   bootstacktop |-> KERNBASE + 43,
   edata |-> KERNBASE + 40 + datasz, end |-> KERNBASE + 40 + datasz + bss]

MCImages ==
  {KernelImage(from, textsz, datasz, bss, empty, at) :
     from \in {0, 1}, textsz \in {7, 8}, datasz \in {3, 4}, bss \in {1, 6},
     empty \in BOOLEAN, at \in {2, 13}}
  \cup {[KernelImage(0, 8, 3, 1, FALSE, 2) EXCEPT !.magic = FALSE]}
=============================================================================
