----------------------------- MODULE BootSector -----------------------------
(***************************************************************************)
(* boot/boot.S: from the firmware's real mode to the protected mode that   *)
(* bootmain runs in.  Address line 20 has to be let through by asking the  *)
(* keyboard controller, which takes its time over every byte it is given;  *)
(* the segment registers, the descriptor table and the mode bit have to    *)
(* change in an order in which the processor always finds the next         *)
(* instruction, and with no interrupt left to the firmware.                *)
(***************************************************************************)
EXTENDS Integers

CONSTANTS
  A20LINE,     \* what address line 20 counts (2^20)
  REALLIMIT,   \* the last offset in a segment in real mode (0xffff)
  LIMIT        \* the last offset in a segment of the table (0xffffffff)

ASSUME SectorAssumption ==
  /\ A20LINE \in Nat \ {0} /\ REALLIMIT \in Nat /\ LIMIT \in Nat
  /\ REALLIMIT <= LIMIT

VARIABLES
  pc,                   \* where the one thread is, in boot.S and after
  interrupts,           \* the processor's interrupt flag
  CR0_PE, gdtr, cs,     \* protected mode; the table loaded; the code segment
  ds, es, ss,           \* the segment registers, each with the segment it has loaded
  a20,                  \* whether address line 20 is let through
  input,                \* the byte in the controller's input buffer, or "empty"
  expects               \* whether the controller's next data byte is its output port's

controller == <<a20, input, expects>>
segments == <<ds, es, ss>>
modes == <<interrupts, CR0_PE, gdtr, cs, segments>>
sectorVars == <<pc, modes, controller>>

-----------------------------------------------------------------------------
(* The keyboard controller and the firmware. *)

\* The controller gets to the byte in its buffer.  0xdf is a command for the keyboard
\* unless 0xd1 came before it.
Controller ==
  /\ input # "empty"
  /\ input' = "empty"
  /\ expects' = (input = "0xd1")
  /\ a20' = IF expects /\ input = "0xdf" THEN TRUE ELSE a20
  /\ UNCHANGED <<pc, modes>>

\* An interrupt, say for a key.  The firmware's handler sends the keyboard a command;
\* in protected mode there is none, and the machine is reset.
Interrupt ==
  /\ interrupts
  /\ IF CR0_PE THEN pc' = "reset" /\ input' = input ELSE pc' = pc /\ input' = "0xed"
  /\ UNCHANGED <<modes, a20, expects>>

-----------------------------------------------------------------------------
(* Segments. *)

RealSegment(base) == [base |-> base, limit |-> REALLIMIT, type |-> {"R", "W", "X"}]
NullSegment == [base |-> 0, limit |-> -1, type |-> {}]

\* Mutant: the code segment is given twice.
gdt_code_twice ==
  <<NullSegment, [base |-> 0, limit |-> LIMIT, type |-> {"X", "R"}],
    [base |-> 0, limit |-> LIMIT, type |-> {"X", "R"}]>>
gdt ==
  <<NullSegment, [base |-> 0, limit |-> LIMIT, type |-> {"X", "R"}],
    [base |-> 0, limit |-> LIMIT, type |-> {"W", "R"}]>>

PROT_MODE_CSEG == 8
PROT_MODE_DSEG == 16
Descriptor(table, selector) == table[(selector \div 8) + 1]

\* What an offset in a segment is on the address bus: one address, or none if the
\* processor does not allow the access.
Bus(a) == IF a20 THEN a ELSE a - A20LINE * ((a \div A20LINE) % 2)
Linear(segment, access, offset) ==
  IF offset <= segment.limit /\ access \in segment.type THEN {Bus(segment.base + offset)} ELSE {}

-----------------------------------------------------------------------------
(* boot.S. *)

Goes(from, to) == pc = from /\ pc' = to

\* cli; the data segments become segment 0.
\* Mutant: interrupts stay enabled.
start_sti ==
  /\ Goes("start", "seta20.1")
  /\ ds' = RealSegment(0) /\ es' = RealSegment(0) /\ ss' = RealSegment(0)
  /\ UNCHANGED <<interrupts, CR0_PE, gdtr, cs, controller>>
start ==
  /\ Goes("start", "seta20.1")
  /\ interrupts' = FALSE
  /\ ds' = RealSegment(0) /\ es' = RealSegment(0) /\ ss' = RealSegment(0)
  /\ UNCHANGED <<CR0_PE, gdtr, cs, controller>>

\* A poll of the status register that finds the buffer empty; the others go round.
NotBusy == input = "empty"

seta20_1 ==
  /\ Goes("seta20.1", "0xd1") /\ NotBusy
  /\ UNCHANGED <<modes, controller>>

out_d1 ==
  /\ Goes("0xd1", "seta20.2")
  /\ input' = "0xd1"
  /\ UNCHANGED <<modes, a20, expects>>

\* Mutant: the second byte is not held back.
seta20_2_at_once ==
  /\ Goes("seta20.2", "0xdf")
  /\ UNCHANGED <<modes, controller>>
seta20_2 ==
  /\ Goes("seta20.2", "0xdf") /\ NotBusy
  /\ UNCHANGED <<modes, controller>>

out_df ==
  /\ Goes("0xdf", "lgdt")
  /\ input' = "0xdf"
  /\ UNCHANGED <<modes, a20, expects>>

\* The table is found through %ds.
lgdt ==
  /\ Goes("lgdt", "pe")
  /\ gdtr' = IF ds.base = 0 THEN gdt ELSE <<>>
  /\ UNCHANGED <<interrupts, CR0_PE, cs, segments, controller>>

set_pe ==
  /\ Goes("pe", "ljmp")
  /\ CR0_PE' = TRUE
  /\ UNCHANGED <<interrupts, gdtr, cs, segments, controller>>

\* Without a table, or to a segment not for code, the processor would not go on.
ljmp ==
  /\ Goes("ljmp", "protcseg") /\ CR0_PE
  /\ gdtr # <<>> /\ "X" \in Descriptor(gdtr, PROT_MODE_CSEG).type
  /\ cs' = Descriptor(gdtr, PROT_MODE_CSEG)
  /\ UNCHANGED <<interrupts, CR0_PE, gdtr, segments, controller>>

\* Mutant: %es keeps the segment of real mode.
protcseg_not_es ==
  /\ Goes("protcseg", "bootmain")
  /\ ds' = Descriptor(gdtr, PROT_MODE_DSEG) /\ ss' = Descriptor(gdtr, PROT_MODE_DSEG)
  /\ UNCHANGED <<interrupts, CR0_PE, gdtr, cs, es, controller>>
\* The data segments, the stack, and the call of bootmain.
protcseg ==
  /\ Goes("protcseg", "bootmain")
  /\ ds' = Descriptor(gdtr, PROT_MODE_DSEG) /\ es' = Descriptor(gdtr, PROT_MODE_DSEG)
  /\ ss' = Descriptor(gdtr, PROT_MODE_DSEG)
  /\ UNCHANGED <<interrupts, CR0_PE, gdtr, cs, controller>>

-----------------------------------------------------------------------------
\* The firmware jumps to the sector it has loaded, with what it likes in the data
\* segment registers; it may have let line 20 through already, or have the controller
\* busy with a byte of its own.
SectorInit ==
  /\ pc = "start"
  /\ interrupts \in BOOLEAN
  /\ CR0_PE = FALSE /\ gdtr = <<>> /\ cs = RealSegment(0)
  /\ ds \in {RealSegment(0), RealSegment(16)} /\ es = ds /\ ss = ds
  /\ a20 \in BOOLEAN /\ input \in {"empty", "0xed"} /\ expects = FALSE

boot_S ==
  \/ start \/ seta20_1 \/ out_d1 \/ seta20_2 \/ out_df
  \/ lgdt \/ set_pe \/ ljmp \/ protcseg

Firmware == Controller \/ Interrupt
=============================================================================
