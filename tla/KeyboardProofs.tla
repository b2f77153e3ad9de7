--------------------------- MODULE KeyboardProofs ---------------------------
(***************************************************************************)
(* For every set of keys and every size of the controller's buffer:        *)
(* kbd_proc_data stays in step with the bytes on the wire, and no modifier *)
(* ever sticks or is dropped by another key.                               *)
(*                                                                         *)
(* The argument turns on one fact, ByteIsKey: because the escape bit is    *)
(* set exactly between the two bytes of an extended key, the index that    *)
(* kbd_proc_data looks up is the key that was touched.                     *)
(***************************************************************************)
EXTENDS Keyboard, TLAPS

\* The prefix has been read only if the rest of an extended key follows.
PrefixOfExtended == half => events # <<>> /\ ExtendedKey(Head(events).key)

IInv == TypeOK /\ EscapeInStep /\ PrefixOfExtended /\ NoStuckModifier

\* What the oldest event is, spelled out for the steps that use it.
LEMMA HeadEvent ==
  ASSUME TypeOK, events # <<>>
  PROVE  /\ Head(events) \in Events
         /\ Head(events).key \in Keys
         /\ Head(events).key \in 1 .. 255
         /\ Head(events).key \notin {96, 128, 224}
         /\ Head(events).make \in BOOLEAN
         /\ Tail(events) \in Seq(Events)
<1>1. events \in Seq(Events) /\ events # <<>>
  BY DEF TypeOK
<1>2. Head(events) \in Events /\ Tail(events) \in Seq(Events)
  BY <1>1
<1>3. Head(events).key \in Keys /\ Head(events).make \in BOOLEAN
  BY <1>2 DEF Events
<1> QED
  BY <1>2, <1>3, KeysAssumption

\* Every byte is looked up under the key it belongs to.
LEMMA ByteIsKey ==
  ASSUME TypeOK, EscapeInStep, PrefixOfExtended, events # <<>>
  PROVE  /\ KBDATAP \in 0 .. 255
         /\ KBDATAP = E0 <=> ExtendedKey(Head(events).key) /\ ~half
         /\ KBDATAP # E0 =>
              /\ (KBDATAP >= 128) <=> ~Head(events).make
              /\ KBDATAP >= 128 => ReleaseIndex = Head(events).key
              /\ KBDATAP < 128 => PressIndex = Head(events).key
<1>1. PICK k \in Keys, m \in BOOLEAN : Head(events).key = k /\ Head(events).make = m
  BY HeadEvent
<1>2. k \in 1 .. 255 /\ k \notin {96, 128, 224} /\ half \in BOOLEAN
  BY HeadEvent, <1>1 DEF TypeOK
<1>3. ExtendedKey(k) <=> k >= 128
  BY DEF ExtendedKey
<1>4. Code(k) = IF k >= 128 THEN k - 128 ELSE k
  BY <1>3 DEF Code
<1>5. KBDATAP = IF k >= 128 /\ ~half THEN 224 ELSE IF m THEN Code(k) ELSE Code(k) + 128
  BY <1>1, <1>3 DEF KBDATAP, E0
<1>6. ("E0ESC" \in shift) <=> half /\ k >= 128
  BY <1>1, <1>3 DEF EscapeInStep
<1>7. (KBDATAP = 224) <=> (k >= 128 /\ ~half)
  BY <1>2, <1>4, <1>5
<1>8. ASSUME KBDATAP # 224
      PROVE  /\ KBDATAP >= 128 <=> ~m
             /\ KBDATAP >= 128 => ReleaseIndex = k
             /\ KBDATAP < 128 => PressIndex = k
  <2>1. k >= 128 => half
    BY <1>7, <1>8, <1>2
  <2>2. ("E0ESC" \in shift) <=> k >= 128
    BY <1>6, <2>1
  <2>3. KBDATAP = IF m THEN Code(k) ELSE Code(k) + 128
    BY <1>5, <2>1
  <2> QED
    BY <1>2, <1>4, <2>2, <2>3 DEF ReleaseIndex, PressIndex
<1>9. KBDATAP \in 0 .. 255
  BY <1>2, <1>4, <1>5
<1> QED
  BY <1>1, <1>3, <1>7, <1>8, <1>9 DEF E0

\* The tables hold modifiers and locks and nothing else.
LEMMA TableTypes ==
  ASSUME NEW k \in 0 .. 255
  PROVE  /\ shiftcode[k] \subseteq Modifiers
         /\ togglecode[k] \subseteq Toggles
<1>1. shiftcode[k] \subseteq Modifiers
  BY DEF shiftcode, Modifiers
<1>2. togglecode[k] \subseteq Toggles
  BY DEF togglecode, Toggles
<1> QED
  BY <1>1, <1>2

\* A key press leaves the modifiers it found, and its own.
LEMMA PressKeepsModifiers ==
  ASSUME TypeOK, PressIndex \in 0 .. 255
  PROVE  /\ PressShift \subseteq ShiftBits \ {"E0ESC"}
         /\ \A m \in Modifiers :
              m \in PressShift <=> m \in shift \/ m \in shiftcode[PressIndex]
<1>1. shiftcode[PressIndex] \subseteq Modifiers /\ togglecode[PressIndex] \subseteq Toggles
  BY TableTypes
<1>2. Modifiers \cap Toggles = {} /\ "E0ESC" \notin Modifiers /\ "E0ESC" \notin Toggles
  BY DEF Modifiers, Toggles
<1> QED
  BY <1>1, <1>2 DEF PressShift, Xor, TypeOK, ShiftBits

\* The codes of all keys but Delete.
Plain == (0 .. 255) \ {KEY_DEL}

\* The maps hold bytes, and the code of Delete only among the extended navigation keys.
LEMMA RowTypes ==
  /\ Len(NormalRow) \in Nat /\ \A j \in 1 .. Len(NormalRow) : NormalRow[j] \in Plain
  /\ Len(ShiftRow) \in Nat /\ \A j \in 1 .. Len(ShiftRow) : ShiftRow[j] \in Plain
  /\ Len(CtlRow) \in Nat /\ \A j \in 1 .. Len(CtlRow) : CtlRow[j] \in Plain
<1>1. Len(NormalRow) \in Nat /\ \A j \in 1 .. Len(NormalRow) : NormalRow[j] \in Plain
  <2>1. Len(NormalRow) = 84
    BY DEF NormalRow
  <2>2. \A j \in 1 .. 84 : NormalRow[j] \in Plain
    BY DEF NormalRow, Plain, KEY_DEL
  <2> QED
    BY <2>1, <2>2
<1>2. Len(ShiftRow) \in Nat /\ \A j \in 1 .. Len(ShiftRow) : ShiftRow[j] \in Plain
  <2>1. Len(ShiftRow) = 84
    BY DEF ShiftRow
  <2>2. \A j \in 1 .. 84 : ShiftRow[j] \in Plain
    BY DEF ShiftRow, Plain, KEY_DEL
  <2> QED
    BY <2>1, <2>2
<1>3. Len(CtlRow) \in Nat /\ \A j \in 1 .. Len(CtlRow) : CtlRow[j] \in Plain
  <2>1. Len(CtlRow) = 54
    BY DEF CtlRow
  <2>2. \A j \in 1 .. 54 : CtlRow[j] \in Plain
    BY DEF CtlRow, Plain, KEY_DEL
  <2> QED
    BY <2>1, <2>2
<1> QED
  BY <1>1, <1>2, <1>3, Zenon

LEMMA NavTypes ==
  \A j \in DOMAIN NavKeys : NavKeys[j] \in 0 .. 255 /\ (NavKeys[j] = KEY_DEL => j = 211)
<1>1. \A n \in 1 .. 13 : NavRow[n] \in 0 .. 255 /\ (NavRow[n] = KEY_DEL => n = 13)
  BY DEF NavRow, KEY_DEL
<1> QED
  BY <1>1 DEF NavKeys

LEMMA MapOfTypes ==
  ASSUME NEW k \in 0 .. 255, NEW row, NEW extended,
         Len(row) \in Nat, \A j \in 1 .. Len(row) : row[j] \in Plain,
         \A j \in DOMAIN extended : extended[j] \in Plain
  PROVE  /\ MapOf(row, extended)[k] \in 0 .. 255
         /\ MapOf(row, extended)[k] = KEY_DEL => k = 211
<1>1. k < Len(row) => row[k + 1] \in Plain
  OBVIOUS
<1>2. MapOf(row, extended)[k] =
        IF k < Len(row) THEN row[k + 1]
        ELSE IF k \in DOMAIN extended THEN extended[k]
        ELSE IF k \in DOMAIN NavKeys THEN NavKeys[k] ELSE 0
  BY DEF MapOf
<1> QED
  BY <1>1, <1>2, NavTypes DEF Plain, KEY_DEL

LEMMA MapTypes ==
  ASSUME NEW k \in 0 .. 255, NEW sh
  PROVE  /\ charcode(sh)[k] \in 0 .. 255
         /\ charcode(sh)[k] = KEY_DEL => k = 211
<1>1. DEFINE x1 == [j \in {156, 181} |-> IF j = 156 THEN 10 ELSE 47]
<1>2. DEFINE x2 == [j \in {151, 181, 199} |-> CASE j = 151 -> 224 [] j = 181 -> 239 [] OTHER -> 0]
<1>3. \A j \in DOMAIN x1 : x1[j] \in Plain
  BY DEF Plain, KEY_DEL
<1>4. \A j \in DOMAIN x2 : x2[j] \in Plain
  BY DEF Plain, KEY_DEL
<1> HIDE DEF x1, x2
<1>5. MapOf(NormalRow, x1)[k] \in 0 .. 255 /\ (MapOf(NormalRow, x1)[k] = KEY_DEL => k = 211)
  BY <1>3, RowTypes, MapOfTypes
<1>7. MapOf(ShiftRow, x1)[k] \in 0 .. 255 /\ (MapOf(ShiftRow, x1)[k] = KEY_DEL => k = 211)
  BY <1>3, RowTypes, MapOfTypes
<1>6. MapOf(CtlRow, x2)[k] \in 0 .. 255 /\ (MapOf(CtlRow, x2)[k] = KEY_DEL => k = 211)
  BY <1>4, RowTypes, MapOfTypes
<1> QED
  BY <1>5, <1>6, <1>7 DEF charcode, normalmap, shiftmap, ctlmap, x1, x2

\* kbd_proc_data returns -1 when the controller has no byte and a byte otherwise.
LEMMA ReturnTypes ==
  ASSUME TypeOK, EscapeInStep, PrefixOfExtended
  PROVE  /\ KbdReturn \in -1 .. 255
         /\ KbdReturn = -1 <=> events = <<>>
<1>1. CASE events = <<>>
  BY <1>1 DEF KbdReturn
<1>2. CASE events # <<>> /\ KBDATAP >= 128
  BY <1>2 DEF KbdReturn
<1>3. CASE events # <<>> /\ ~(KBDATAP >= 128)
  <2>0. KBDATAP \in 0 .. 255
    BY <1>3, ByteIsKey
  <2>1. KBDATAP # E0 /\ KBDATAP < 128
    BY <1>3, <2>0 DEF E0
  <2>2. PressIndex = Head(events).key
    BY <1>3, <2>1, ByteIsKey
  <2>3. PressIndex \in 0 .. 255
    BY <1>3, <2>2, HeadEvent
  <2>4. charcode(PressShift)[PressIndex] \in 0 .. 255
    BY <2>3, MapTypes
  <2>5. PressChar \in 0 .. 255
    BY <2>4 DEF PressChar, CapsLock
  <2> QED
    BY <1>3, <2>5 DEF KbdReturn
<1> QED
  BY <1>1, <1>2, <1>3

LEMMA InitIInv == Init => IInv
<1> SUFFICES ASSUME Init PROVE IInv
  OBVIOUS
<1>1. events \in Seq(Events) /\ down \in SUBSET Keys /\ shift \in SUBSET ShiftBits
  BY DEF Init
<1> QED
  BY <1>1 DEF Init, IInv, TypeOK, EscapeInStep, PrefixOfExtended, NoStuckModifier, Modifiers

LEMMA StepIInv == IInv /\ [Next]_kbdVars => IInv'
<1> SUFFICES ASSUME IInv, [Next]_kbdVars PROVE IInv'
  OBVIOUS
<1> USE DEF IInv
<1>1. ASSUME NEW k \in Keys, NEW make \in BOOLEAN, KeyEvent(k, make)
      PROVE  IInv'
  <2>1. events' = Append(events, [key |-> k, make |-> make]) /\ UNCHANGED <<half, shift, down, rebooted>>
    BY <1>1 DEF KeyEvent
  <2>2. events' \in Seq(Events) /\ events' # <<>>
    BY <2>1 DEF TypeOK, Events
  <2>3. events # <<>> => Head(events') = Head(events)
    BY <2>1 DEF TypeOK
  <2>4. EscapeInStep' /\ PrefixOfExtended'
    BY <2>1, <2>2, <2>3 DEF EscapeInStep, PrefixOfExtended, ExtendedKey
  <2> QED
    BY <2>1, <2>2, <2>4 DEF TypeOK, NoStuckModifier
<1>2. ASSUME EscapeByte
      PROVE  IInv'
  <2>1. events # <<>> /\ ExtendedKey(Head(events).key) /\ UNCHANGED <<events, down, rebooted>>
        /\ half' = TRUE /\ shift' = shift \cup {"E0ESC"}
    BY <1>2, ByteIsKey DEF EscapeByte
  <2>2. EscapeInStep' /\ PrefixOfExtended'
    BY <2>1 DEF EscapeInStep, PrefixOfExtended, ExtendedKey
  <2>3. NoStuckModifier'
    BY <2>1 DEF NoStuckModifier, Modifiers
  <2> QED
    BY <2>1, <2>2, <2>3 DEF TypeOK, ShiftBits
<1>3. ASSUME KeyReleased
      PROVE  IInv'
  <2> DEFINE k == Head(events).key
  <2>1. events # <<>> /\ KBDATAP # E0 /\ KBDATAP >= 128
    BY <1>3 DEF KeyReleased
  <2>2. ReleaseIndex = k /\ ~Head(events).make
    BY <2>1, ByteIsKey
  <2>3. /\ shift' = shift \ (shiftcode[k] \cup {"E0ESC"})
        /\ events' = Tail(events) /\ half' = FALSE
        /\ down' = down \ {k} /\ rebooted' = rebooted
    BY <1>3, <2>2 DEF KeyReleased, ReleaseShift, FinishEvent
  <2>4. TypeOK'
    BY <2>1, <2>3, HeadEvent DEF TypeOK
  <2>5. EscapeInStep' /\ PrefixOfExtended'
    BY <2>3 DEF EscapeInStep, PrefixOfExtended
  <2>6. NoStuckModifier'
    BY <2>3 DEF NoStuckModifier
  <2> QED
    BY <2>4, <2>5, <2>6
<1>4. ASSUME KeyPressed
      PROVE  IInv'
  <2> DEFINE k == Head(events).key
  <2>0. events # <<>> /\ KBDATAP < 128
    BY <1>4 DEF KeyPressed
  <2>1. KBDATAP # E0 /\ k \in Keys /\ k \in 0 .. 255
    BY <2>0, HeadEvent DEF E0
  <2>2. PressIndex = k /\ Head(events).make
    <3>1. KBDATAP # E0 => (KBDATAP >= 128 <=> ~Head(events).make) /\ (KBDATAP < 128 => PressIndex = k)
      BY <2>0, ByteIsKey
    <3>2. Head(events).make \in BOOLEAN
      BY <2>0, HeadEvent
    <3>3. KBDATAP \in 0 .. 255
      BY <2>0, ByteIsKey
    <3> QED
      BY <2>0, <2>1, <3>1, <3>2, <3>3
  <2>3. /\ shift' = PressShift
        /\ events' = Tail(events) /\ half' = FALSE
        /\ down' = down \cup {k} /\ rebooted' \in BOOLEAN
    BY <1>4, <2>2 DEF KeyPressed, FinishEvent, CtrlAltDel, TypeOK
  <2>4. /\ shift' \subseteq ShiftBits \ {"E0ESC"}
        /\ \A m \in Modifiers : m \in shift' => m \in shift \/ m \in shiftcode[k]
    BY <2>1, <2>2, <2>3, PressKeepsModifiers
  <2>5. TypeOK'
    BY <2>0, <2>1, <2>3, <2>4, HeadEvent DEF TypeOK
  <2>6. EscapeInStep' /\ PrefixOfExtended'
    BY <2>3, <2>4 DEF EscapeInStep, PrefixOfExtended
  <2>7. NoStuckModifier'
    BY <2>3, <2>4 DEF NoStuckModifier
  <2> QED
    BY <2>5, <2>6, <2>7
<1>5. CASE UNCHANGED kbdVars
  BY <1>5 DEF kbdVars, TypeOK, EscapeInStep, PrefixOfExtended, NoStuckModifier
<1> QED
  BY <1>1, <1>2, <1>3, <1>4, <1>5 DEF Next, Typing, kbd_proc_data

LEMMA Invariance == Spec => []IInv
<1> QED
  BY InitIInv, StepIInv, PTL DEF Spec

\* The action form of the same fact: what may clear a modifier.
LEMMA StepDropsByKey ==
  IInv /\ [Next]_kbdVars =>
    [\A m \in Modifiers : m \in shift /\ m \notin shift' =>
       \E k \in Keys : m \in shiftcode[k] /\ Head(events) = [key |-> k, make |-> FALSE]]_kbdVars
<1> SUFFICES ASSUME IInv, Next, NEW m \in Modifiers, m \in shift, m \notin shift'
             PROVE  \E k \in Keys : m \in shiftcode[k] /\ Head(events) = [key |-> k, make |-> FALSE]
  OBVIOUS
<1> USE DEF IInv
<1>1. ~Typing
  BY DEF Typing, KeyEvent
<1>2. ~EscapeByte
  BY DEF EscapeByte
<1>3. ~KeyPressed
  <2> SUFFICES ASSUME KeyPressed PROVE FALSE
    OBVIOUS
  <2>1. events # <<>> /\ KBDATAP < 128 /\ shift' = PressShift
    BY DEF KeyPressed
  <2>2. KBDATAP # E0
    BY <2>1, ByteIsKey DEF E0
  <2>3. KBDATAP # E0 => (KBDATAP < 128 => PressIndex = Head(events).key)
    BY <2>1, ByteIsKey
  <2>4. PressIndex = Head(events).key
    BY <2>1, <2>2, <2>3
  <2>5. Head(events).key \in 1 .. 255
    BY <2>1, HeadEvent
  <2> QED
    BY <2>1, <2>4, <2>5, PressKeepsModifiers
<1>4. KeyReleased
  BY <1>1, <1>2, <1>3 DEF Next, kbd_proc_data
<1>5. events # <<>> /\ KBDATAP # E0 /\ KBDATAP >= 128 /\ shift' = ReleaseShift
  BY <1>4 DEF KeyReleased
<1>6. ReleaseIndex = Head(events).key /\ ~Head(events).make
  BY <1>5, ByteIsKey
<1>7. m \in shiftcode[Head(events).key]
  BY <1>5, <1>6 DEF ReleaseShift, Modifiers
<1>8. PICK k \in Keys, b \in BOOLEAN : Head(events) = [key |-> k, make |-> b]
  BY <1>5, HeadEvent DEF Events
<1> QED
  BY <1>6, <1>7, <1>8

\* The byte of a press, if it is not an escape byte, comes from the table row of its key.
LEMMA PressOfKey ==
  ASSUME IInv, events # <<>>, KBDATAP < 128
  PROVE  /\ PressIndex = Head(events).key /\ Head(events).make
         /\ PressIndex \in 0 .. 255 /\ PressIndex \in Keys
<1>1. KBDATAP \in 0 .. 255 /\ KBDATAP # E0
  BY ByteIsKey DEF IInv, E0
<1>2. PressIndex = Head(events).key /\ (KBDATAP >= 128 <=> ~Head(events).make)
  BY <1>1, ByteIsKey DEF IInv
<1>3. Head(events).make \in BOOLEAN /\ Head(events).key \in 1 .. 255 /\ Head(events).key \in Keys
  BY HeadEvent DEF IInv
<1> QED  BY <1>1, <1>2, <1>3

\* A character that is returned is the pressed key's.
LEMMA ReturnsOwnChar == IInv => CharOfItsKey
<1> SUFFICES ASSUME IInv, KbdReturn > 0 PROVE CharOfItsKey
  BY DEF CharOfItsKey
<1> DEFINE k == Head(events).key
           c == charcode(PressShift)[k]
<1>1. events # <<>> /\ KbdReturn = PressChar /\ ~(KBDATAP >= 128)
  BY DEF KbdReturn
<1>2. KBDATAP < 128
  <2>1. KBDATAP \in 0 .. 255
    BY <1>1, ByteIsKey DEF IInv
  <2> QED  BY <1>1, <2>1
<1>3. PressIndex = k /\ Head(events).make
  BY <1>1, <1>2, PressOfKey
<1>4. c \in {normalmap[k], shiftmap[k], ctlmap[k]}
  BY DEF charcode
<1>5. PressChar \in {c, CapsLock({"CAPSLOCK"}, c)}
  BY <1>3 DEF PressChar, CapsLock
<1> QED
  <2> HIDE DEF c
  <2> QED  BY <1>1, <1>3, <1>4, <1>5 DEF CharOfItsKey

\* The reset is asked for by the press of the extended Delete key; the modifiers were
\* there before, so keys that carry them are held.
LEMMA StepReboots ==
  IInv /\ [Next]_kbdVars =>
    [rebooted # rebooted' =>
       /\ \E k \in down : "CTL" \in shiftcode[k]
       /\ \E k \in down : "ALT" \in shiftcode[k]
       /\ 211 \in down']_kbdVars
<1> SUFFICES ASSUME IInv, Next, rebooted # rebooted'
             PROVE  /\ \E k \in down : "CTL" \in shiftcode[k]
                    /\ \E k \in down : "ALT" \in shiftcode[k]
                    /\ 211 \in down'
  OBVIOUS
<1>1. KeyPressed
  BY DEF Next, Typing, KeyEvent, kbd_proc_data, EscapeByte, KeyReleased
<1>2. events # <<>> /\ KBDATAP < 128 /\ CtrlAltDel
  BY <1>1 DEF KeyPressed, IInv, TypeOK
<1>3. PressIndex = Head(events).key /\ Head(events).make /\ PressIndex \in 0 .. 255
  BY <1>2, PressOfKey
<1>4. PressIndex = 211
  <2>1. PressChar = KEY_DEL
    BY <1>2 DEF CtrlAltDel
  <2>0. PressIndex \in 0 .. 255
    BY <1>3
  <2>2. charcode(PressShift)[PressIndex] \in 0 .. 255
    BY <2>0, MapTypes
  <2>3. charcode(PressShift)[PressIndex] = KEY_DEL
    BY <2>1, <2>2 DEF PressChar, CapsLock, KEY_DEL
  <2> QED  BY <2>0, <2>3, MapTypes
<1>5. 211 \in down'
  BY <1>1, <1>3, <1>4 DEF KeyPressed, FinishEvent
<1>6. "CTL" \in shift /\ "ALT" \in shift
  <2>1. shiftcode[211] = {}
    BY DEF shiftcode
  <2>2. "CTL" \in PressShift /\ "ALT" \in PressShift
    BY <1>2 DEF CtrlAltDel
  <2> QED  BY <1>3, <1>4, <2>1, <2>2, PressKeepsModifiers DEF IInv, Modifiers
<1> QED  BY <1>5, <1>6 DEF IInv, NoStuckModifier, Modifiers

\* Every variable of the decoder keeps its type.
THEOREM TypeCorrect == Spec => []TypeOK
<1> QED
  BY Invariance, PTL DEF IInv

\* The escape bit always tells whether the next byte follows an E0 prefix.
THEOREM EscapeCorrect == Spec => []EscapeInStep
<1> QED
  BY Invariance, PTL DEF IInv

\* While the decoder takes a modifier as held, a key that carries it is held.
THEOREM ModifiersCorrect == Spec => []NoStuckModifier
<1> QED
  BY Invariance, PTL DEF IInv

\* Only the release of a key that carries a modifier ever clears it.
THEOREM ModifierDropCorrect == Spec => ModifierDroppedByItsKey
<1> QED
  BY Invariance, StepDropsByKey, PTL DEF Spec, ModifierDroppedByItsKey

\* The character returned is one of the pressed key's own.
THEOREM CharCorrect == Spec => []CharOfItsKey
<1> QED
  BY Invariance, ReturnsOwnChar, PTL

\* The machine is reset only with a control key, an alt key and Delete held.
THEOREM RebootCorrect == Spec => RebootNeedsCtrlAltDel
<1> QED
  BY Invariance, StepReboots, PTL DEF Spec, RebootNeedsCtrlAltDel
=============================================================================
