---------------------------- MODULE ConsoleInput ----------------------------
(***************************************************************************)
(* The input half of kern/console.c: serial_intr and kbd_intr, which drain *)
(* their device into the circular buffer through cons_intr, cons_getc,     *)
(* which polls both and then reads the buffer, and getchar, which calls    *)
(* cons_getc until it returns a character.                                 *)
(*                                                                         *)
(* The kernel is one thread with interrupts off (boot.S executes cli and   *)
(* nothing enables them again), so both routines run only from cons_getc.  *)
(* The devices are not: a byte or a key event can arrive between any two   *)
(* polls, and one step here is one turn of cons_intr's loop: a call of the  *)
(* device's routine and what the loop does with the result.                *)
(***************************************************************************)
EXTENDS Integers, Sequences, FiniteSets

CONSTANTS
  CONSBUFSIZE,  \* slots in the circular buffer (512 in the source)
  SerialBytes,  \* bytes the other end of the serial line may send
  Burst,        \* arrivals (bytes and key events) per call of cons_getc
  Keys,
  KbdQSize

ASSUME ConsoleInputAssumption ==
  /\ CONSBUFSIZE \in Nat /\ CONSBUFSIZE > 1
  /\ SerialBytes \subseteq 0 .. 255
  /\ Burst \in Nat

VARIABLES
  rx,             \* the UART's receive register; -1: no byte (LSR_DATA clear)
  events, half, shift, down, rebooted,  \* the keyboard, see module Keyboard
  serial_exists,  \* set once, by serial_init
  buf, rpos, wpos,  \* struct cons
  pc,             \* where the kernel is
  got,            \* what cons_getc returned last
  arrivals        \* arrivals since cons_getc was called

K == INSTANCE Keyboard

ASSUME KeyboardAssumption == K!KeysAssumption

kbdVars == <<events, half, shift, down, rebooted>>
consVars == <<buf, rpos, wpos>>
vars == <<rx, kbdVars, serial_exists, consVars, pc, got, arrivals>>

Slots == 0 .. CONSBUFSIZE - 1
NoByte == -1

-----------------------------------------------------------------------------
(* The devices.  Burst bounds how much arrives while one cons_getc runs: a  *)
(* serial line carries about one byte per millisecond and a person types    *)
(* slower, while a turn of the polling loop is a few port reads.            *)

\* With its FIFO off the UART keeps one byte; the next one overwrites it.
UartReceive ==
  /\ serial_exists
  /\ arrivals < Burst
  /\ arrivals' = arrivals + 1
  /\ \E b \in SerialBytes : rx' = b
  /\ UNCHANGED <<kbdVars, serial_exists, consVars, pc, got>>

KeyTyped ==
  /\ arrivals < Burst
  /\ arrivals' = arrivals + 1
  /\ K!Typing
  /\ UNCHANGED <<rx, serial_exists, consVars, pc, got>>

-----------------------------------------------------------------------------
(* cons_intr. *)

\* Mutant: the index is reset one slot late, after running off the array.
NextPos_late(p) == IF p = CONSBUFSIZE THEN 0 ELSE p + 1
NextPos(p) == IF p + 1 = CONSBUFSIZE THEN 0 ELSE p + 1

\* One turn of the loop with the character c that the device's routine returned.
\* Mutant: bytes that finish no character are stored as well.
Stash_zeros(c) ==
  /\ buf' = [buf EXCEPT ![wpos] = c]
  /\ wpos' = NextPos(wpos)
  /\ UNCHANGED rpos
Stash(c) ==
  /\ IF c = 0
     THEN UNCHANGED <<buf, wpos>>
     ELSE /\ buf' = [buf EXCEPT ![wpos] = c]
          /\ wpos' = NextPos(wpos)
  /\ UNCHANGED rpos

-----------------------------------------------------------------------------
(* getchar, cons_getc, serial_intr and kbd_intr. *)

getchar ==
  /\ pc = "caller"
  /\ pc' = "serial"
  /\ arrivals' = 0
  /\ UNCHANGED <<rx, kbdVars, serial_exists, consVars, got>>

\* serial_intr's loop reads a byte ...
\* Mutant: reading the byte does not empty the receive register.
SerialByte_again ==
  /\ pc = "serial"
  /\ serial_exists /\ rx # NoByte
  /\ Stash(rx)
  /\ UNCHANGED <<rx, kbdVars, serial_exists, pc, got, arrivals>>
SerialByte ==
  /\ pc = "serial"
  /\ serial_exists /\ rx # NoByte
  /\ Stash(rx)
  /\ rx' = NoByte
  /\ UNCHANGED <<kbdVars, serial_exists, pc, got, arrivals>>

\* ... or finds none and returns (at once if there is no serial port).
SerialDone ==
  /\ pc = "serial"
  /\ ~serial_exists \/ rx = NoByte
  /\ pc' = "kbd"
  /\ UNCHANGED <<rx, kbdVars, serial_exists, consVars, got, arrivals>>

KbdByte ==
  /\ pc = "kbd"
  /\ K!kbd_proc_data
  /\ Stash(K!KbdReturn)
  /\ UNCHANGED <<rx, serial_exists, pc, got, arrivals>>

KbdDone ==
  /\ pc = "kbd"
  /\ events = <<>>
  /\ pc' = "grab"
  /\ UNCHANGED <<rx, kbdVars, serial_exists, consVars, got, arrivals>>

\* cons_getc takes a character, and getchar returns it to its caller.
\* Mutant: the character stays in the buffer.
GetcChar_keep ==
  /\ pc = "grab"
  /\ rpos # wpos
  /\ got' = buf[rpos]
  /\ pc' = "caller"
  /\ UNCHANGED <<rx, kbdVars, serial_exists, consVars, arrivals>>
GetcChar ==
  /\ pc = "grab"
  /\ rpos # wpos
  /\ got' = buf[rpos]
  /\ rpos' = NextPos(rpos)
  /\ pc' = "caller"
  /\ UNCHANGED <<rx, kbdVars, serial_exists, buf, wpos, arrivals>>

\* cons_getc returns 0, and getchar calls it again.
GetcNone ==
  /\ pc = "grab"
  /\ rpos = wpos
  /\ got' = 0
  /\ pc' = "serial"
  /\ arrivals' = 0
  /\ UNCHANGED <<rx, kbdVars, serial_exists, consVars>>

-----------------------------------------------------------------------------
\* After cons_init: everything in .bss is zero, the receive register has been
\* emptied, and serial_exists tells whether the port answered.
Init ==
  /\ rx = NoByte
  /\ K!Init
  /\ serial_exists \in BOOLEAN
  /\ buf = [i \in Slots |-> 0] /\ rpos = 0 /\ wpos = 0
  /\ pc = "caller"
  /\ got = 0
  /\ arrivals = 0

Devices == UartReceive \/ KeyTyped

Kernel ==
  \/ getchar \/ SerialByte \/ SerialDone \/ KbdByte \/ KbdDone
  \/ GetcChar \/ GetcNone

Next == Devices \/ Kernel

Spec == Init /\ [][Next]_vars

\* The processor keeps executing; nothing is assumed of the devices.
FairSpec == Spec /\ WF_vars(Kernel)

-----------------------------------------------------------------------------
(* Properties. *)

\* Every variable has its type: both indices stay inside the array, only bytes
\* are stored, the devices' rate is respected.
TypeOK ==
  /\ rx \in SerialBytes \cup {NoByte}
  /\ K!TypeOK
  /\ serial_exists \in BOOLEAN
  /\ buf \in [Slots -> 0 .. 255]
  /\ rpos \in Slots /\ wpos \in Slots
  /\ pc \in {"caller", "serial", "kbd", "grab"}
  /\ got \in 0 .. 255
  /\ arrivals \in 0 .. Burst

\* The unread characters, oldest first, of an array b with the indices r and w.
UnreadOf(r, w) == IF w >= r THEN w - r ELSE w + CONSBUFSIZE - r
SlotFrom(r, k) == IF r + k - 1 < CONSBUFSIZE THEN r + k - 1 ELSE r + k - 1 - CONSBUFSIZE
Contents(b, r, w) == [k \in 1 .. UnreadOf(r, w) |-> b[SlotFrom(r, k)]]

Unread == UnreadOf(rpos, wpos)
Pending == Contents(buf, rpos, wpos)

Queue == INSTANCE CharQueue WITH queue <- Pending, Chars <- 1 .. 255

\* The circular buffer, whatever the positions of its indices and however the
\* devices interleave with the polling, is the queue of module CharQueue: what
\* cons_getc returns is the oldest character not yet returned, and 0 only when
\* the indices are equal.
ImplementsQueue == Queue!Spec

\* getchar never hands 0 to its caller: NUL bytes from the line and scan codes
\* that finish no character never reach readline.
GetcharReturnsCharacter == [][pc = "grab" /\ pc' = "caller" => got' # 0]_vars

\* Neither device starves the other: a key event is always read in the end,
\* even if the serial line always has a byte for each turn of its own loop.
KeyboardIsServed == events # <<>> ~> events = <<>>
=============================================================================
