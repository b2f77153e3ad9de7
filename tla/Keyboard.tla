------------------------------ MODULE Keyboard ------------------------------
(***************************************************************************)
(* The keyboard half of kern/console.c: the PC keyboard, the controller's  *)
(* output buffer behind ports 0x60 and 0x64, and kbd_proc_data, the        *)
(* routine that decodes one scan code byte per call.                       *)
(*                                                                         *)
(* A physical key is named by its index in the tables of console.c: a      *)
(* number below 128 is a plain key, a number k >= 128 is the extended key  *)
(* whose bytes are 0xE0 followed by k - 128 (pressed) or k (released).     *)
(***************************************************************************)
EXTENDS Integers, Sequences, FiniteSets

CONSTANTS
  Keys,     \* the physical keys somebody may touch
  KbdQSize  \* key events the keyboard and its controller can hold

\* 0x60 and 0xE0 would put the escape byte itself on the wire; no key of scan
\* code set 1 has them.
ASSUME KeysAssumption ==
  /\ Keys \subseteq (1 .. 255) \ {96, 128, 224}
  /\ KbdQSize \in Nat \ {0}

VARIABLES
  events,   \* the controller's buffer: key events not read yet, oldest first
  half,     \* the 0xE0 prefix of the oldest event has been read
  shift,    \* kbd_proc_data's static "shift" word, as the set of its bits
  down,     \* history: keys held, according to the events read so far
  rebooted  \* history: the reset request has been written to port 0x92

kbdVars == <<events, half, shift, down, rebooted>>

E0 == 224
KEY_DEL == 233
Modifiers == {"SHIFT", "CTL", "ALT"}
Toggles == {"CAPSLOCK", "NUMLOCK", "SCROLLLOCK"}
ShiftBits == Modifiers \cup Toggles \cup {"E0ESC"}

-----------------------------------------------------------------------------
(* The tables. *)

\* Which modifier a key holds: both control, both shift and both alt keys.
shiftcode == [k \in 0 .. 255 |->
  CASE k \in {29, 157} -> {"CTL"}
    [] k \in {42, 54}  -> {"SHIFT"}
    [] k \in {56, 184} -> {"ALT"}
    [] OTHER           -> {}]

togglecode == [k \in 0 .. 255 |->
  CASE k = 58 -> {"CAPSLOCK"}
    [] k = 69 -> {"NUMLOCK"}
    [] k = 70 -> {"SCROLLLOCK"}
    [] OTHER  -> {}]

\* KEY_HOME .. KEY_DEL, the codes of the extended navigation keys.
NavRow == <<224, 226, 230, 0, 228, 0, 229, 0, 225, 227, 231, 232, KEY_DEL>>
NavKeys == [k \in 199 .. 211 |-> NavRow[k - 198]]

\* The maps' rows for scan codes 0x00 .. 0x53, as ASCII codes (0 is NO).
NormalRow == <<
  0, 27, 49, 50, 51, 52, 53, 54, 55, 56, 57, 48, 45, 61, 8, 9,
  113, 119, 101, 114, 116, 121, 117, 105, 111, 112, 91, 93, 10, 0, 97, 115,
  100, 102, 103, 104, 106, 107, 108, 59, 39, 96, 0, 92, 122, 120, 99, 118,
  98, 110, 109, 44, 46, 47, 0, 42, 0, 32, 0, 0, 0, 0, 0, 0,
  0, 0, 0, 0, 0, 0, 0, 55, 56, 57, 45, 52, 53, 54, 43, 49, 50, 51, 48, 46>>

ShiftRow == <<
  0, 27, 33, 64, 35, 36, 37, 94, 38, 42, 40, 41, 95, 43, 8, 9,
  81, 87, 69, 82, 84, 89, 85, 73, 79, 80, 123, 125, 10, 0, 65, 83,
  68, 70, 71, 72, 74, 75, 76, 58, 34, 126, 0, 124, 90, 88, 67, 86,
  66, 78, 77, 60, 62, 63, 0, 42, 0, 32, 0, 0, 0, 0, 0, 0,
  0, 0, 0, 0, 0, 0, 0, 55, 56, 57, 45, 52, 53, 54, 43, 49, 50, 51, 48, 46>>

\* C(x) is x - '@' stored in a byte: C('/') is 239.
CtlRow == <<
  0, 0, 0, 0, 0, 0, 0, 0, 0, 0, 0, 0, 0, 0, 0, 0,
  17, 23, 5, 18, 20, 25, 21, 9, 15, 16, 0, 0, 13, 0, 1, 19,
  4, 6, 7, 8, 10, 11, 12, 0, 0, 0, 0, 28, 26, 24, 3, 22,
  2, 14, 13, 0, 0, 239>>

MapOf(row, extended) == [k \in 0 .. 255 |->
  IF k < Len(row) THEN row[k + 1]
  ELSE IF k \in DOMAIN extended THEN extended[k]
  ELSE IF k \in DOMAIN NavKeys THEN NavKeys[k] ELSE 0]

normalmap == MapOf(NormalRow, [k \in {156, 181} |-> IF k = 156 THEN 10 ELSE 47])
shiftmap == MapOf(ShiftRow, [k \in {156, 181} |-> IF k = 156 THEN 10 ELSE 47])
\* Its KEY_HOME sits at 0x97, so 0xC7 (Home) decodes to NO under control.
ctlmap == MapOf(CtlRow,
  [k \in {151, 181, 199} |-> CASE k = 151 -> 224 [] k = 181 -> 239 [] OTHER -> 0])

charcode(sh) ==
  IF "CTL" \in sh THEN ctlmap ELSE IF "SHIFT" \in sh THEN shiftmap ELSE normalmap

CapsLock(sh, c) ==
  IF "CAPSLOCK" \notin sh THEN c
  ELSE IF c \in 97 .. 122 THEN c - 32
  ELSE IF c \in 65 .. 90 THEN c + 32 ELSE c

-----------------------------------------------------------------------------
(* The keyboard and its controller. *)

ExtendedKey(k) == k >= 128
Code(k) == IF ExtendedKey(k) THEN k - 128 ELSE k

\* The byte port 0x60 shows while there is an event in the buffer.
KBDATAP ==
  LET e == Head(events) IN
  IF ExtendedKey(e.key) /\ ~half THEN E0
  ELSE IF e.make THEN Code(e.key) ELSE Code(e.key) + 128

\* Somebody presses, holds (the keyboard repeats the press) or lets go of a key.
KeyEvent(k, make) ==
  /\ Len(events) < KbdQSize
  /\ events' = Append(events, [key |-> k, make |-> make])
  /\ UNCHANGED <<half, shift, down, rebooted>>

\* Reading the last byte of an event takes it out of the buffer.
FinishEvent ==
  LET e == Head(events) IN
  /\ events' = Tail(events)
  /\ half' = FALSE
  /\ down' = IF e.make THEN down \cup {e.key} ELSE down \ {e.key}

-----------------------------------------------------------------------------
(* kbd_proc_data, by the kind of byte it reads.                             *)

EscapeByte ==
  /\ events # <<>>
  /\ KBDATAP = E0
  /\ half' = TRUE
  /\ shift' = shift \cup {"E0ESC"}
  /\ UNCHANGED <<events, down, rebooted>>

\* Mutant: the release of a plain key is looked up with its high bit still set.
ReleaseIndex_unmasked == KBDATAP
ReleaseIndex == IF "E0ESC" \in shift THEN KBDATAP ELSE KBDATAP - 128

\* Mutant: a release leaves the escape bit set.
ReleaseShift_keeps_escape == shift \ shiftcode[ReleaseIndex]
ReleaseShift == shift \ (shiftcode[ReleaseIndex] \cup {"E0ESC"})

KeyReleased ==
  /\ events # <<>>
  /\ KBDATAP >= 128 /\ KBDATAP # E0
  /\ shift' = ReleaseShift
  /\ FinishEvent
  /\ UNCHANGED rebooted

\* Mutant: the escape prefix does not select the extended half of the tables.
PressIndex_plain == KBDATAP
PressIndex == IF "E0ESC" \in shift THEN KBDATAP + 128 ELSE KBDATAP

Xor(S, T) == (S \ T) \cup (T \ S)

\* The shift word a key press leaves: its modifier set, its lock toggled.
\* Mutant: modifiers are toggled like locks, so a repeated press drops them.
PressShift_toggles ==
  Xor(Xor(shift \ {"E0ESC"}, shiftcode[PressIndex]), togglecode[PressIndex])
PressShift ==
  Xor((shift \ {"E0ESC"}) \cup shiftcode[PressIndex], togglecode[PressIndex])

PressChar == CapsLock(PressShift, charcode(PressShift)[PressIndex])

\* Mutant: control or alt is enough, as if the test were shift & (CTL | ALT).
CtrlAltDel_either == {"CTL", "ALT"} \cap PressShift # {} /\ PressChar = KEY_DEL
CtrlAltDel == {"CTL", "ALT"} \subseteq PressShift /\ PressChar = KEY_DEL

KeyPressed ==
  /\ events # <<>>
  /\ KBDATAP < 128
  /\ shift' = PressShift
  /\ rebooted' = (rebooted \/ CtrlAltDel)
  /\ FinishEvent

kbd_proc_data == EscapeByte \/ KeyReleased \/ KeyPressed

\* What kbd_proc_data returns in this state: -1 when there is no byte, 0 when
\* the byte does not finish a character.
KbdReturn ==
  IF events = <<>> THEN -1 ELSE IF KBDATAP >= 128 THEN 0 ELSE PressChar

-----------------------------------------------------------------------------
Init ==
  /\ events = <<>>
  /\ half = FALSE
  /\ shift = {}
  /\ down = {}
  /\ rebooted = FALSE

Typing == \E k \in Keys, make \in BOOLEAN : KeyEvent(k, make)

Next == Typing \/ kbd_proc_data

Spec == Init /\ [][Next]_kbdVars

-----------------------------------------------------------------------------
(* Properties. *)

Events == [key : Keys, make : BOOLEAN]

\* Every variable has its type; the shift word holds only the bits console.c
\* defines.
TypeOK ==
  /\ events \in Seq(Events)
  /\ half \in BOOLEAN
  /\ shift \in SUBSET ShiftBits
  /\ down \in SUBSET Keys
  /\ rebooted \in BOOLEAN

\* The decoder stays in step with the wire: the E0 escape bit is set exactly
\* while the next byte is the second byte of an extended key's sequence, so no
\* byte is ever looked up in the wrong half of the tables.
EscapeInStep ==
  "E0ESC" \in shift <=>
    /\ half
    /\ events # <<>>
    /\ ExtendedKey(Head(events).key)

\* A modifier never sticks: while kbd_proc_data believes shift, control or alt
\* is held, some key of that modifier has been pressed and not yet released in
\* the events it has read.
NoStuckModifier ==
  \A m \in Modifiers : m \in shift => \E k \in down : m \in shiftcode[k]

\* A modifier is dropped only on reading the release of a key that carries it:
\* neither an unrelated release, nor an escape prefix, nor a lock key clears it.
ModifierDroppedByItsKey ==
  [][\A m \in Modifiers : m \in shift /\ m \notin shift' =>
        \E k \in Keys : m \in shiftcode[k] /\ Head(events) = [key |-> k, make |-> FALSE]
    ]_kbdVars

\* The machine is reset only when a control key, an alt key and the extended
\* Delete key are all down; keypad "." (the same scan code without its prefix)
\* does not do it.
RebootNeedsCtrlAltDel ==
  [][rebooted # rebooted' =>
        /\ \E k \in down : "CTL" \in shiftcode[k]
        /\ \E k \in down : "ALT" \in shiftcode[k]
        /\ 211 \in down']_kbdVars

\* A key returns one character whatever else happens: reading a press yields
\* either NO or a code from the tables for that very key, possibly with its case
\* swapped by caps lock.
CharOfItsKey ==
  KbdReturn > 0 =>
    LET k == Head(events).key
        codes == {normalmap[k], shiftmap[k], ctlmap[k]}
    IN  /\ Head(events).make
        /\ KbdReturn \in codes \cup {CapsLock({"CAPSLOCK"}, c) : c \in codes}
=============================================================================
