------------------------ MODULE ConsoleSessionProofs ------------------------
(***************************************************************************)
(* For every size of the circular buffer and of the line, and every        *)
(* behaviour of the two devices: the indices stay in the array; buf, rpos  *)
(* and wpos are the queue of module CharQueue; and with readline on top of *)
(* them the lines are those of module LineInput.                           *)
(***************************************************************************)
EXTENDS ConsoleSession, SequenceTheorems, TLAPS

KP == INSTANCE KeyboardProofs

-----------------------------------------------------------------------------
(* The keyboard of ConsoleInput is the one KeyboardProofs is about. *)

LEMMA SameBytes ==
  /\ K!KBDATAP = KP!KBDATAP
  /\ K!KbdReturn = KP!KbdReturn
  /\ K!kbd_proc_data <=> KP!kbd_proc_data
<1>1. K!KBDATAP = KP!KBDATAP
  BY DEF K!KBDATAP, KP!KBDATAP, K!ExtendedKey, KP!ExtendedKey, K!Code, KP!Code, K!E0, KP!E0
<1>2. \A sh : K!charcode(sh) = KP!charcode(sh)
  BY DEF K!charcode, KP!charcode, K!normalmap, KP!normalmap, K!shiftmap, KP!shiftmap,
         K!ctlmap, KP!ctlmap, K!MapOf, KP!MapOf, K!NormalRow, KP!NormalRow, K!ShiftRow, KP!ShiftRow,
         K!CtlRow, KP!CtlRow, K!NavKeys, KP!NavKeys, K!NavRow, KP!NavRow, K!KEY_DEL, KP!KEY_DEL
<1>3. K!shiftcode = KP!shiftcode /\ K!togglecode = KP!togglecode
  BY DEF K!shiftcode, KP!shiftcode, K!togglecode, KP!togglecode
<1>4. K!PressIndex = KP!PressIndex /\ K!ReleaseIndex = KP!ReleaseIndex
  BY <1>1 DEF K!PressIndex, KP!PressIndex, K!ReleaseIndex, KP!ReleaseIndex
<1>5. K!PressShift = KP!PressShift /\ K!ReleaseShift = KP!ReleaseShift
  BY <1>3, <1>4 DEF K!PressShift, KP!PressShift, K!ReleaseShift, KP!ReleaseShift, K!Xor, KP!Xor
<1>6. \A sh, x : K!CapsLock(sh, x) = KP!CapsLock(sh, x)
  BY DEF K!CapsLock, KP!CapsLock
<1>7. K!PressChar = KP!PressChar
  BY <1>2, <1>4, <1>5, <1>6 DEF K!PressChar, KP!PressChar
<1>8. K!CtrlAltDel <=> KP!CtrlAltDel
  BY <1>5, <1>7 DEF K!CtrlAltDel, KP!CtrlAltDel, K!KEY_DEL, KP!KEY_DEL
<1>9. K!FinishEvent <=> KP!FinishEvent
  BY DEF K!FinishEvent, KP!FinishEvent
<1> QED
  BY <1>1, <1>5, <1>7, <1>8, <1>9
  DEF K!KbdReturn, KP!KbdReturn, K!kbd_proc_data, KP!kbd_proc_data, K!EscapeByte, KP!EscapeByte,
      K!KeyReleased, KP!KeyReleased, K!KeyPressed, KP!KeyPressed, K!E0, KP!E0

LEMMA SameInterface ==
  /\ K!Init <=> KP!Init
  /\ K!Typing <=> KP!Typing
  /\ K!TypeOK <=> KP!TypeOK
<1> QED
  BY DEF K!Init, KP!Init, K!Typing, KP!Typing, K!KeyEvent, KP!KeyEvent, K!TypeOK, KP!TypeOK,
         K!Events, KP!Events, K!ShiftBits, KP!ShiftBits, K!Modifiers, KP!Modifiers, K!Toggles, KP!Toggles

LEMMA KeyboardParameters == KP!KeysAssumption
<1> QED
  BY KeyboardAssumption DEF K!KeysAssumption, KP!KeysAssumption

\* What the keyboard's own proof gives to each step made here.
LEMMA KeyboardStep ==
  ASSUME KP!IInv, K!Typing \/ K!kbd_proc_data \/ UNCHANGED kbdVars
  PROVE  KP!IInv'
<1>1. [KP!Next]_(KP!kbdVars)
  BY SameBytes, SameInterface DEF KP!Next, KP!kbdVars, kbdVars
<1> QED
  BY <1>1, KP!StepIInv, KeyboardParameters

LEMMA KeyboardReturn ==
  ASSUME KP!IInv, K!kbd_proc_data
  PROVE  K!KbdReturn \in 0 .. 255
<1>1. events # <<>>
  BY DEF K!kbd_proc_data, K!EscapeByte, K!KeyReleased, K!KeyPressed
<1>2. KP!KbdReturn \in -1 .. 255 /\ (KP!KbdReturn = -1 <=> events = <<>>)
  BY KP!ReturnTypes, KeyboardParameters DEF KP!IInv
<1> QED
  BY <1>1, <1>2, SameBytes

-----------------------------------------------------------------------------
(* The circular buffer. *)

Ring(b, r, w) == b \in [Slots -> 0 .. 255] /\ r \in Slots /\ w \in Slots

\* Where the unread characters are.
LEMMA RingGeometry ==
  ASSUME NEW r \in Slots, NEW w \in Slots
  PROVE  /\ UnreadOf(r, w) \in 0 .. CONSBUFSIZE - 1
         /\ UnreadOf(r, w) = 0 <=> r = w
         /\ \A k \in 1 .. UnreadOf(r, w) : SlotFrom(r, k) \in Slots /\ SlotFrom(r, k) # w
         /\ SlotFrom(r, 1) = r
         /\ SlotFrom(r, UnreadOf(r, w) + 1) = w
<1> QED
  BY ConsoleInputAssumption DEF Slots, UnreadOf, SlotFrom

LEMMA ContentsIsSeq ==
  ASSUME NEW b, NEW r, NEW w, Ring(b, r, w)
  PROVE  /\ Contents(b, r, w) \in Seq(0 .. 255)
         /\ Len(Contents(b, r, w)) = UnreadOf(r, w)
         /\ \A k \in 1 .. UnreadOf(r, w) : Contents(b, r, w)[k] = b[SlotFrom(r, k)]
<1>1. UnreadOf(r, w) \in Nat /\ \A k \in 1 .. UnreadOf(r, w) : b[SlotFrom(r, k)] \in 0 .. 255
  BY RingGeometry, ConsoleInputAssumption DEF Ring
<1>2. Contents(b, r, w) \in [1 .. UnreadOf(r, w) -> 0 .. 255]
  BY <1>1 DEF Contents
<1>3. Contents(b, r, w) \in Seq(0 .. 255)
  <2>1. Seq(0 .. 255) = UNION {[1 .. n -> 0 .. 255] : n \in Nat}
    BY SeqDef
  <2>2. PICK n \in Nat : n = UnreadOf(r, w)
    BY <1>1
  <2> QED
    BY <1>2, <2>1, <2>2, Zenon
<1> QED
  BY <1>1, <1>2, <1>3 DEF Contents

LEMMA Characters == \A x \in 1 .. 255 : x \in 0 .. 255 /\ x # 0
<1> QED
  OBVIOUS

LEMMA HeadIsFirst ==
  ASSUME NEW S, NEW s \in Seq(S), s # <<>>
  PROVE  Head(s) = s[1]
<1> QED
  OBVIOUS

LEMMA NextSlot ==
  ASSUME NEW p \in Slots
  PROVE  NextPos(p) \in Slots
<1> QED
  BY ConsoleInputAssumption DEF NextPos, Slots

\* The queue q after CharQueue's Put(ch).
AfterPut(q, ch) == IF Len(q) + 1 = CONSBUFSIZE THEN <<>> ELSE Append(q, ch)

\* Storing a character appends it to the queue, or empties the queue.
LEMMA StoreIsPut ==
  ASSUME NEW b, NEW r, NEW w, Ring(b, r, w), NEW ch \in 1 .. 255,
         NEW b2, Ring(b2, r, w), b2[w] = ch, \A k \in Slots \ {w} : b2[k] = b[k]
  PROVE  /\ Ring(b2, r, NextPos(w))
         /\ Contents(b2, r, NextPos(w)) = AfterPut(Contents(b, r, w), ch)
<1> DEFINE q == Contents(b, r, w)
           q2 == Contents(b2, r, NextPos(w))
           n == UnreadOf(r, w)
<1>1. Ring(b2, r, NextPos(w))
  BY NextSlot DEF Ring
<1>2. q \in Seq(0 .. 255) /\ Len(q) = n /\ \A k \in 1 .. n : q[k] = b[SlotFrom(r, k)]
  BY ContentsIsSeq
<1>3. /\ q2 \in Seq(0 .. 255) /\ Len(q2) = UnreadOf(r, NextPos(w))
      /\ \A k \in 1 .. UnreadOf(r, NextPos(w)) : q2[k] = b2[SlotFrom(r, k)]
  BY <1>1, ContentsIsSeq
<1>4. n \in 0 .. CONSBUFSIZE - 1
  BY RingGeometry DEF Ring
<1>5. UnreadOf(r, NextPos(w)) = IF n + 1 = CONSBUFSIZE THEN 0 ELSE n + 1
  BY ConsoleInputAssumption DEF Ring, Slots, UnreadOf, NextPos
<1>6. CASE n + 1 = CONSBUFSIZE
  <2>1. Len(q2) = 0
    BY <1>3, <1>5, <1>6
  <2>2. q2 = <<>>
    BY <1>3, <2>1
  <2> QED
    BY <1>1, <1>2, <1>6, <2>2 DEF AfterPut
<1>7. CASE n + 1 # CONSBUFSIZE
  <2>1. \A k \in 1 .. n : b2[SlotFrom(r, k)] = b[SlotFrom(r, k)]
    BY RingGeometry DEF Ring
  <2>2. b2[SlotFrom(r, n + 1)] = ch
    BY RingGeometry DEF Ring
  <2>3. /\ Append(q, ch) \in Seq(0 .. 255) /\ Len(Append(q, ch)) = n + 1
        /\ \A k \in 1 .. n : Append(q, ch)[k] = q[k]
        /\ Append(q, ch)[n + 1] = ch
    BY <1>2, AppendProperties
  <2>4. ASSUME NEW k \in 1 .. n + 1
        PROVE  q2[k] = Append(q, ch)[k]
    <3>1. q2[k] = b2[SlotFrom(r, k)]
      BY <1>3, <1>5, <1>7
    <3>2. CASE k = n + 1
      BY <2>2, <2>3, <3>1, <3>2
    <3>3. CASE k # n + 1
      <4>1. k \in 1 .. n
        BY <1>4, <3>3
      <4> QED
        BY <1>2, <2>1, <2>3, <3>1, <4>1
    <3> QED
      BY <3>2, <3>3
  <2>5. Len(q2) = Len(Append(q, ch))
    BY <1>3, <1>5, <1>7, <2>3
  <2>6. \A k \in 1 .. Len(q2) : q2[k] = Append(q, ch)[k]
    BY <1>3, <1>5, <1>7, <2>4
  <2> HIDE DEF q, q2
  <2>7. q2 = Append(q, ch)
    BY <1>3, <2>3, <2>5, <2>6, SeqEqual
  <2> USE DEF q, q2
  <2> QED
    BY <1>1, <1>2, <1>7, <2>7 DEF AfterPut
<1> QED
  BY <1>6, <1>7

\* Reading a character takes the head of the queue.
LEMMA ReadIsTake ==
  ASSUME NEW b, NEW r, NEW w, Ring(b, r, w), r # w
  PROVE  /\ Ring(b, NextPos(r), w)
         /\ Contents(b, r, w) # <<>>
         /\ Head(Contents(b, r, w)) = b[r]
         /\ Contents(b, NextPos(r), w) = Tail(Contents(b, r, w))
<1> DEFINE q == Contents(b, r, w)
           q2 == Contents(b, NextPos(r), w)
           n == UnreadOf(r, w)
<1>1. Ring(b, NextPos(r), w)
  BY NextSlot DEF Ring
<1>2. q \in Seq(0 .. 255) /\ Len(q) = n /\ \A k \in 1 .. n : q[k] = b[SlotFrom(r, k)]
  BY ContentsIsSeq
<1>3. n \in Nat \ {0} /\ SlotFrom(r, 1) = r
  BY RingGeometry DEF Ring
<1>4. UnreadOf(NextPos(r), w) = n - 1
  BY ConsoleInputAssumption DEF Ring, Slots, UnreadOf, NextPos
<1>5. /\ q2 \in Seq(0 .. 255) /\ Len(q2) = n - 1
      /\ \A k \in 1 .. n - 1 : q2[k] = b[SlotFrom(NextPos(r), k)]
  BY <1>1, <1>4, ContentsIsSeq
<1>6. q # <<>> /\ Head(q) = b[r]
  BY <1>2, <1>3
<1>7. ASSUME NEW k \in 1 .. n - 1
      PROVE  SlotFrom(NextPos(r), k) = SlotFrom(r, k + 1)
  <2>1. r \in Slots /\ w \in Slots /\ k \in Int /\ n < CONSBUFSIZE
    <3>1. r \in Slots /\ w \in Slots
      BY DEF Ring
    <3>2. n \in 0 .. CONSBUFSIZE - 1
      BY <3>1, RingGeometry
    <3> HIDE DEF n
    <3> QED
      BY <3>1, <3>2, <1>7, ConsoleInputAssumption
  <2> HIDE DEF n
  <2> QED
    BY <2>1, <1>7, <1>3, ConsoleInputAssumption DEF Slots, SlotFrom, NextPos
<1>8. /\ Tail(q) \in Seq(0 .. 255) /\ Len(Tail(q)) = n - 1
      /\ \A k \in 1 .. n - 1 : Tail(q)[k] = q[k + 1]
  BY <1>2, <1>3, <1>6, HeadTailProperties
<1>9. ASSUME NEW k \in 1 .. n - 1
      PROVE  q2[k] = Tail(q)[k]
  <2>1. k + 1 \in 1 .. n
    BY <1>3, <1>9
  <2> QED
    BY <1>2, <1>5, <1>7, <1>8, <2>1
<1> HIDE DEF q, q2
<1>10. q2 = Tail(q)
  BY <1>5, <1>8, <1>9, SeqEqual
<1> USE DEF q, q2
<1> QED
  BY <1>1, <1>6, <1>10

-----------------------------------------------------------------------------
(* The invariant: the types, the keyboard's own invariant, and no NUL among *)
(* the unread characters.                                                   *)

NoNulPending == \A k \in 1 .. Unread : Pending[k] # 0

IInv ==
  /\ TypeOK
  /\ KP!IInv
  /\ NoNulPending

LEMMA TypeRing == TypeOK => Ring(buf, rpos, wpos)
<1> QED
  BY DEF TypeOK, Ring

LEMMA InitIInv == Init => IInv
<1> SUFFICES ASSUME Init PROVE IInv
  OBVIOUS
<1>1. KP!IInv
  BY SameInterface, KP!InitIInv, KeyboardParameters DEF Init
<1>2. K!TypeOK
  BY <1>1, SameInterface DEF KP!IInv
<1>3. 0 \in Slots
  BY ConsoleInputAssumption DEF Slots
<1>4. TypeOK
  BY <1>2, <1>3, ConsoleInputAssumption DEF Init, TypeOK, NoByte
<1>5. Unread = 0
  BY DEF Init, Unread, UnreadOf
<1> QED
  BY <1>1, <1>4, <1>5 DEF IInv, NoNulPending

\* The devices leave the buffer alone.
LEMMA DeviceStep == IInv /\ Devices => IInv'
<1> SUFFICES ASSUME IInv, Devices PROVE IInv'
  OBVIOUS
<1>1. KP!IInv'
  BY KeyboardStep DEF IInv, Devices, UartReceive, KeyTyped
<1>2. K!TypeOK'
  BY <1>1, SameInterface, PTL DEF KP!IInv
<1>3. UNCHANGED <<serial_exists, consVars, pc, got>>
  BY DEF Devices, UartReceive, KeyTyped
<1>4. TypeOK'
  BY <1>2, <1>3, ConsoleInputAssumption DEF IInv, TypeOK, Devices, UartReceive, KeyTyped, consVars
<1>5. NoNulPending'
  BY <1>3 DEF IInv, NoNulPending, Unread, Pending, consVars
<1> QED
  BY <1>1, <1>4, <1>5 DEF IInv

\* One turn of cons_intr's loop.
LEMMA StashStep ==
  ASSUME Ring(buf, rpos, wpos), NoNulPending, NEW ch \in 0 .. 255, Stash(ch)
  PROVE  /\ Ring(buf', rpos', wpos')
         /\ NoNulPending'
         /\ \/ UNCHANGED Pending
            \/ ch \in 1 .. 255 /\ Pending' = AfterPut(Pending, ch)
<1>1. CASE ch = 0
  <2>1. UNCHANGED <<buf, rpos, wpos>>
    BY <1>1 DEF Stash
  <2> QED
    BY <2>1 DEF NoNulPending, Pending, Unread
<1>2. CASE ch # 0
  <2>1. ch \in 1 .. 255
    BY <1>2
  <2>2. buf' = [buf EXCEPT ![wpos] = ch] /\ wpos' = NextPos(wpos) /\ rpos' = rpos
    BY <1>2 DEF Stash
  <2>3. Ring(buf', rpos', wpos')
    BY <2>1, <2>2, NextSlot DEF Ring
  <2>4. Pending' = AfterPut(Pending, ch)
    <3>1. Ring(buf', rpos, wpos) /\ buf'[wpos] = ch /\ \A k \in Slots \ {wpos} : buf'[k] = buf[k]
      BY <2>1, <2>2 DEF Ring
    <3>2. Contents(buf', rpos, NextPos(wpos)) = AfterPut(Contents(buf, rpos, wpos), ch)
      BY <2>1, <3>1, StoreIsPut, SMTT(30)
    <3> QED
      BY <2>2, <3>2 DEF Pending
  <2>5. Pending \in Seq(0 .. 255) /\ Len(Pending) = Unread
    BY ContentsIsSeq DEF Pending, Unread
  <2>6. Len(Pending') = Unread'
    BY <2>3, ContentsIsSeq DEF Pending, Unread
  <2>7. CASE Len(Pending) + 1 = CONSBUFSIZE
    <3>1. Unread' = 0
      BY <2>4, <2>6, <2>7 DEF AfterPut
    <3> QED
      BY <3>1, <2>1, <2>3, <2>4 DEF NoNulPending
  <2>8. CASE Len(Pending) + 1 # CONSBUFSIZE
    <3>1. Pending' = Append(Pending, ch)
      BY <2>4, <2>8 DEF AfterPut
    <3>2. /\ Len(Append(Pending, ch)) = Len(Pending) + 1
          /\ \A k \in 1 .. Len(Pending) : Append(Pending, ch)[k] = Pending[k]
          /\ Append(Pending, ch)[Len(Pending) + 1] = ch
      BY <2>5, AppendProperties
    <3>3. ASSUME NEW k \in 1 .. Unread'
          PROVE  Pending'[k] # 0
      <4>1. Unread' = Unread + 1 /\ Unread \in Nat
        BY <2>5, <2>6, <3>1, <3>2
      <4>2. CASE k = Unread + 1
        BY <4>2, <2>5, <3>1, <3>2, <1>2
      <4>3. CASE k \in 1 .. Unread
        BY <4>3, <2>5, <3>1, <3>2 DEF NoNulPending
      <4> QED
        BY <4>1, <4>2, <4>3
    <3> QED
      BY <3>3, <2>1, <2>3, <2>4 DEF NoNulPending
  <2> QED
    BY <2>7, <2>8
<1> QED
  BY <1>1, <1>2

LEMMA GrabStep ==
  ASSUME Ring(buf, rpos, wpos), NoNulPending, GetcChar
  PROVE  /\ Ring(buf', rpos', wpos')
         /\ NoNulPending'
         /\ got' \in 1 .. 255
         /\ Pending # <<>> /\ got' = Head(Pending) /\ Pending' = Tail(Pending)
<1>1. rpos # wpos /\ got' = buf[rpos] /\ rpos' = NextPos(rpos) /\ UNCHANGED <<buf, wpos>>
  BY DEF GetcChar
<1>2. /\ Ring(buf', rpos', wpos')
      /\ Pending # <<>> /\ Head(Pending) = buf[rpos] /\ Pending' = Tail(Pending)
  BY <1>1, ReadIsTake DEF Pending
<1>3. Pending \in Seq(0 .. 255) /\ Len(Pending) = Unread
  BY ContentsIsSeq DEF Pending, Unread
<1>4. Len(Pending') = Unread'
  BY <1>2, ContentsIsSeq DEF Pending, Unread
<1>5. /\ Len(Tail(Pending)) = Len(Pending) - 1
      /\ \A k \in 1 .. Len(Tail(Pending)) : Tail(Pending)[k] = Pending[k + 1]
  BY <1>2, <1>3, HeadTailProperties
<1>6. Unread \in Nat \ {0}
  BY <1>2, <1>3
<1>7. got' = Pending[1] /\ got' \in 1 .. 255
  <2>1. 1 \in 1 .. Unread /\ Unread = Len(Pending)
    BY <1>3, <1>6
  <2>2. Head(Pending) = Pending[1] /\ Pending[1] \in 0 .. 255
    <3>1. Pending[1] \in 0 .. 255
      BY <1>3, <2>1, ElementOfSeq
    <3> QED
      BY <3>1, <1>2, <1>3, HeadIsFirst
  <2>3. Pending[1] # 0
    BY <2>1 DEF NoNulPending
  <2> QED
    BY <1>1, <1>2, <2>2, <2>3
<1>8. ASSUME NEW k \in 1 .. Unread'
      PROVE  Pending'[k] # 0
  <2>1. k + 1 \in 1 .. Unread /\ Pending'[k] = Pending[k + 1]
    BY <1>2, <1>3, <1>4, <1>5, <1>6
  <2> QED
    BY <2>1 DEF NoNulPending
<1> QED
  BY <1>1, <1>2, <1>7, <1>8 DEF NoNulPending

\* What a step of the kernel does to the buffer, seen as the queue.
LEMMA KernelStep ==
  ASSUME IInv, Kernel
  PROVE  /\ Ring(buf', rpos', wpos')
         /\ NoNulPending'
         /\ got' \in 0 .. 255
         /\ Queue!Next \/ UNCHANGED <<Pending, got>>
         /\ pc = "grab" /\ pc' = "caller" => got' # 0
<1> USE DEF IInv
<1>0. Ring(buf, rpos, wpos) /\ NoNulPending /\ got \in 0 .. 255
  BY TypeRing DEF TypeOK
<1>1. CASE getchar \/ SerialDone \/ KbdDone
  <2>1. UNCHANGED <<buf, rpos, wpos, got>> /\ ~(pc = "grab")
    BY <1>1 DEF getchar, SerialDone, KbdDone, consVars
  <2> QED
    BY <1>0, <2>1 DEF NoNulPending, Pending, Unread
<1>2. ASSUME NEW ch \in 0 .. 255, Stash(ch), UNCHANGED <<pc, got>>
      PROVE  /\ Ring(buf', rpos', wpos')
             /\ NoNulPending'
             /\ Queue!Next \/ UNCHANGED <<Pending, got>>
  <2>1. /\ Ring(buf', rpos', wpos')
        /\ NoNulPending'
        /\ \/ UNCHANGED Pending
           \/ ch \in 1 .. 255 /\ Pending' = AfterPut(Pending, ch)
    BY <1>0, <1>2, StashStep
  <2> QED
    BY <1>2, <2>1 DEF Queue!Next, Queue!Put, AfterPut
<1>3. CASE SerialByte
  <2>1. rx \in 0 .. 255 /\ Stash(rx) /\ UNCHANGED <<pc, got>>
    BY <1>3, ConsoleInputAssumption DEF SerialByte, TypeOK, NoByte
  <2> QED
    BY <1>0, <1>2, <2>1
<1>4. CASE KbdByte
  <2>1. K!KbdReturn \in 0 .. 255 /\ Stash(K!KbdReturn) /\ UNCHANGED <<pc, got>>
    BY <1>4, KeyboardReturn DEF KbdByte
  <2> QED
    BY <1>0, <1>2, <2>1
<1>5. CASE GetcChar
  <2>1. /\ Ring(buf', rpos', wpos')
        /\ NoNulPending'
        /\ got' \in 1 .. 255
        /\ Pending # <<>> /\ got' = Head(Pending) /\ Pending' = Tail(Pending)
    BY <1>0, <1>5, GrabStep
  <2>2. Queue!Next
    BY <2>1, Zenon DEF Queue!Next, Queue!Take
  <2>3. got' \in 0 .. 255 /\ got' # 0
    BY <2>1, Characters, Zenon
  <2> QED
    BY <2>1, <2>2, <2>3
<1>6. CASE GetcNone
  <2>1. rpos = wpos /\ got' = 0 /\ pc' = "serial" /\ UNCHANGED <<buf, rpos, wpos>>
    BY <1>6 DEF GetcNone, consVars
  <2>2. UNCHANGED <<Pending, Unread>>
    BY <2>1 DEF Pending, Unread
  <2>3. Pending = <<>>
    <3>1. Unread = 0
      BY <1>0, <2>1, RingGeometry DEF Ring, Unread
    <3>2. Pending \in Seq(0 .. 255) /\ Len(Pending) = 0
      BY <1>0, <3>1, ContentsIsSeq DEF Pending, Unread
    <3> QED
      BY <3>2
  <2> QED
    BY <1>0, <2>1, <2>2, <2>3 DEF NoNulPending, Queue!Next, Queue!NoneWaiting
<1> QED
  BY <1>1, <1>3, <1>4, <1>5, <1>6 DEF Kernel

LEMMA StepIInv == IInv /\ [Next]_vars => IInv'
<1> SUFFICES ASSUME IInv, [Next]_vars PROVE IInv'
  OBVIOUS
<1>1. CASE Devices
  BY <1>1, DeviceStep
<1>2. CASE Kernel
  <2>1. KP!IInv'
    BY <1>2, KeyboardStep DEF IInv, Kernel, getchar, SerialByte, SerialDone, KbdByte, KbdDone,
       GetcChar, GetcNone
  <2>2. K!TypeOK'
    BY <2>1, SameInterface, PTL DEF KP!IInv
  <2>3. Ring(buf', rpos', wpos') /\ NoNulPending' /\ got' \in 0 .. 255
    BY <1>2, KernelStep
  <2>4. /\ rx' \in SerialBytes \cup {NoByte} /\ serial_exists' \in BOOLEAN
        /\ pc' \in {"caller", "serial", "kbd", "grab"} /\ arrivals' \in 0 .. Burst
    BY <1>2, ConsoleInputAssumption DEF IInv, TypeOK, NoByte, Kernel, getchar, SerialByte, SerialDone,
       KbdByte, KbdDone, GetcChar, GetcNone
  <2>5. TypeOK'
    BY <2>2, <2>3, <2>4 DEF TypeOK, Ring
  <2> QED
    BY <2>1, <2>3, <2>5 DEF IInv
<1>3. CASE UNCHANGED vars
  <2>1. UNCHANGED <<rx, events, half, shift, down, rebooted, serial_exists, buf, rpos, wpos, pc, got, arrivals>>
    BY <1>3 DEF vars, kbdVars, consVars
  <2>2. KP!IInv'
    BY <2>1, KeyboardStep DEF IInv, kbdVars
  <2>3. K!TypeOK'
    BY <2>2, SameInterface, PTL DEF KP!IInv
  <2> QED
    BY <2>1, <2>2, <2>3 DEF IInv, TypeOK, NoNulPending, Pending, Unread
<1> QED
  BY <1>1, <1>2, <1>3 DEF Next

LEMMA Invariance == Spec => []IInv
<1> QED
  BY InitIInv, StepIInv, PTL DEF Spec

\* Every variable keeps its type: no index leaves the buffer.
THEOREM TypeCorrect == Spec => []TypeOK
<1> QED
  BY Invariance, PTL DEF IInv

LEMMA InitIsQueue == Init => Queue!Init
<1> SUFFICES ASSUME Init PROVE Queue!Init
  OBVIOUS
<1>1. Ring(buf, rpos, wpos)
  BY InitIInv, TypeRing DEF IInv
<1>2. Pending \in Seq(0 .. 255) /\ Len(Pending) = Unread
  BY <1>1, ContentsIsSeq DEF Pending, Unread
<1>3. Unread = 0
  BY DEF Init, Unread, UnreadOf
<1> QED
  BY <1>2, <1>3 DEF Init, Queue!Init

\* The circular buffer implements the queue.
THEOREM QueueImplemented == Spec => ImplementsQueue
<1>1. IInv /\ [Next]_vars => [Queue!Next]_(Queue!vars)
  <2> SUFFICES ASSUME IInv, [Next]_vars PROVE Queue!Next \/ UNCHANGED <<Pending, got>>
    BY DEF Queue!vars
  <2>1. CASE Kernel
    BY <2>1, KernelStep
  <2>2. CASE Devices \/ UNCHANGED vars
    <3>1. UNCHANGED <<buf, rpos, wpos, got>>
      BY <2>2 DEF Devices, UartReceive, KeyTyped, vars, consVars
    <3> QED
      BY <3>1 DEF Pending
  <2> QED
    BY <2>1, <2>2 DEF Next
<1> QED
  BY <1>1, InitIsQueue, Invariance, PTL DEF Spec, ImplementsQueue, Queue!Spec

\* getchar returns a character, never 0.
THEOREM GetcharCorrect == Spec => GetcharReturnsCharacter
<1>1. IInv /\ [Next]_vars => [pc = "grab" /\ pc' = "caller" => got' # 0]_vars
  <2> SUFFICES ASSUME IInv, Next, pc = "grab", pc' = "caller" PROVE got' # 0
    OBVIOUS
  <2>1. Kernel
    BY DEF Next, Devices, UartReceive, KeyTyped
  <2> QED
    BY <2>1, KernelStep
<1> QED
  BY <1>1, Invariance, PTL DEF Spec, GetcharReturnsCharacter

-----------------------------------------------------------------------------
(* readline on top of getchar.                                              *)

\* The line is in the array, without a NUL in it; it is empty between two calls.
EditorInv ==
  /\ linebuf \in [0 .. BUFLEN - 1 -> Input \cup {"NUL"}]
  /\ i \in 0 .. BUFLEN - 1
  /\ rl = "caller" => i = 0
  /\ \A k \in 0 .. i - 1 : linebuf[k] # "NUL"

LEMMA EditorConstants ==
  /\ BUFLEN \in Nat /\ BUFLEN > 1
  /\ {"BS", "NL", "CR"} \subseteq Control /\ "NUL" \notin Input
  /\ Name \in [1 .. 255 -> Input]
<1>1. R!ReadlineAssumption /\ Name \in [1 .. 255 -> Input]
  BY SessionAssumption, Zenon
<1> QED
  BY <1>1, Zenon DEF R!ReadlineAssumption

\* The first n characters of the array b, seen as a sequence.
Typed(b, n) == [k \in 1 .. n |-> b[k - 1]]

LEMMA TypedIsSeq ==
  ASSUME NEW S, NEW b \in [0 .. BUFLEN - 1 -> S], NEW n \in 0 .. BUFLEN - 1
  PROVE  /\ Typed(b, n) \in Seq(S) /\ Len(Typed(b, n)) = n
         /\ \A k \in 1 .. n : Typed(b, n)[k] = b[k - 1]
<1>0. BUFLEN \in Nat /\ n \in Nat
  BY EditorConstants
<1>1. ASSUME NEW k \in 1 .. n PROVE b[k - 1] \in S
  <2>1. k - 1 \in 0 .. BUFLEN - 1
    BY <1>0
  <2> QED
    BY <2>1
<1> QED
  BY <1>0, <1>1 DEF Typed

LEMMA LineIsTyped == Line = Typed(linebuf, i)
  BY DEF Line, Typed

\* Two lines of the same characters are equal.
LEMMA SameLine ==
  ASSUME NEW S, NEW s \in Seq(S), NEW t \in Seq(S), Len(s) = Len(t),
         \A k \in 1 .. Len(s) : s[k] = t[k]
  PROVE  s = t
<1> QED
  BY SeqEqual

\* The string that readline's caller finds in the array.
LEMMA ReturnedString ==
  ASSUME NEW b, NEW e \in 0 .. BUFLEN - 1, b[e] = "NUL", \A k \in 0 .. e - 1 : b[k] # "NUL"
  PROVE  R!CString(b, 0) = Typed(b, e)
<1> DEFINE ends == {f \in 0 .. BUFLEN - 1 : b[f] = "NUL"}
           stop == CHOOSE f \in ends : \A g \in ends : f <= g
<1>0. BUFLEN \in Nat
  BY EditorConstants
<1>1. \A g \in ends : e <= g
  BY <1>0
<1>2. e \in ends
  OBVIOUS
<1>3. \A f \in ends : (\A g \in ends : f <= g) => f = e
  <2> SUFFICES ASSUME NEW f \in 0 .. BUFLEN - 1, b[f] = "NUL", f <= e PROVE f = e
    BY <1>2
  <2> QED
    BY <1>0, <1>1
<1>4. stop = e
  BY <1>1, <1>2, <1>3
<1>5. R!CString(b, 0) = [k \in 1 .. stop - 0 |-> b[0 + k - 1]]
  BY DEF R!CString
<1> HIDE DEF stop
<1>6. stop - 0 = e /\ \A k \in 1 .. e : 0 + k - 1 = k - 1
  BY <1>4
<1> QED
  BY <1>5, <1>6 DEF Typed

\* Each branch of readline's loop does to the line what LineInput's Read does.
LEMMA HandleEdits ==
  ASSUME EditorInv, NEW ch \in Input, R!Handle(ch),
         returned' = IF rl' = "caller" THEN R!CString(linebuf', 0) ELSE returned
  PROVE  /\ EditorInv'
         /\ Line' = CASE Lines!Rubout(ch) -> SubSeq(Line, 1, Len(Line) - 1)
                      [] Lines!Glyph(ch) /\ Len(Line) < BUFLEN - 1 -> Append(Line, ch)
                      [] Lines!Enter(ch) -> <<>>
                      [] OTHER -> Line
         /\ returned' = IF Lines!Enter(ch) THEN Line ELSE returned
<1>0. /\ BUFLEN \in Nat /\ BUFLEN > 1 /\ ch # "NUL" /\ i \in 0 .. BUFLEN - 1
      /\ linebuf \in [0 .. BUFLEN - 1 -> Input \cup {"NUL"}]
      /\ \A k \in 0 .. i - 1 : linebuf[k] # "NUL"
      /\ rl = "reading"
  BY EditorConstants DEF EditorInv, R!Handle
<1> DEFINE S == Input \cup {"NUL"}
<1> HIDE DEF S
<1>1. Line \in Seq(S) /\ Len(Line) = i /\ \A k \in 1 .. i : Line[k] = linebuf[k - 1]
  BY <1>0, TypedIsSeq, LineIsTyped DEF S
<1>9. Line' = Typed(linebuf', i')
  BY DEF Line, Typed
<1>2. (Line # <<>>) <=> i > 0
  BY <1>0, <1>1
<1>3. /\ Lines!Rubout(ch) <=> R!Erases(ch)
      /\ (Lines!Glyph(ch) /\ Len(Line) < BUFLEN - 1) <=> R!Stores(ch)
      /\ Lines!Enter(ch) <=> ch \in {"NL", "CR"}
  BY <1>1, <1>2 DEF Lines!Rubout, Lines!Glyph, Lines!Enter, R!Erases, R!Stores
<1>4. /\ R!Stores(ch) => ~R!Erases(ch)
      /\ ch \in {"NL", "CR"} => ~R!Erases(ch) /\ ~R!Stores(ch)
  BY EditorConstants DEF R!Erases, R!Stores
<1>5. CASE R!EraseChar(ch)
  <2>1. R!Erases(ch) /\ i > 0 /\ i' = i - 1 /\ linebuf' = linebuf /\ rl' = rl
    BY <1>5 DEF R!EraseChar, R!Erases
  <2>2. EditorInv'
    BY <1>0, <2>1 DEF EditorInv
  <2>3. Line' \in Seq(S) /\ Len(Line') = i - 1 /\ \A k \in 1 .. i - 1 : Line'[k] = linebuf[k - 1]
    <3>1. i - 1 \in 0 .. BUFLEN - 1
      BY <1>0, <2>1
    <3> QED
      BY <1>0, <1>9, <2>1, <3>1, TypedIsSeq DEF S
  <2>4. Line' = SubSeq(Line, 1, Len(Line) - 1)
    <3> DEFINE t == SubSeq(Line, 1, i - 1)
    <3>1. t \in Seq(S) /\ Len(t) = i - 1 /\ \A k \in 1 .. i - 1 : t[k] = Line[k]
      BY <1>0, <1>1, <2>1
    <3>2. \A k \in 1 .. i - 1 : Line'[k] = t[k]
      BY <1>0, <1>1, <2>3, <3>1
    <3> HIDE DEF t
    <3>3. Line' = t
      BY <2>3, <3>1, <3>2, SameLine
    <3> QED
      BY <1>1, <3>3 DEF t
  <2> QED
    BY <1>0, <1>3, <1>4, <2>1, <2>2, <2>4
<1>6. CASE R!StoreChar(ch)
  <2>1. R!Stores(ch) /\ i < BUFLEN - 1 /\ i' = i + 1 /\ linebuf' = [linebuf EXCEPT ![i] = ch] /\ rl' = rl
    BY <1>6 DEF R!StoreChar, R!Stores
  <2>2. EditorInv'
    BY <1>0, <2>1 DEF EditorInv
  <2>3. Line' \in Seq(S) /\ Len(Line') = i + 1 /\ \A k \in 1 .. i + 1 : Line'[k] = linebuf'[k - 1]
    <3>1. i + 1 \in 0 .. BUFLEN - 1 /\ linebuf' \in [0 .. BUFLEN - 1 -> S]
      BY <1>0, <2>1, <2>2 DEF S, EditorInv
    <3>2. Line' = Typed(linebuf', i + 1)
      BY <1>9, <2>1
    <3> QED
      BY <3>1, <3>2, TypedIsSeq
  <2>4. Line' = Append(Line, ch)
    <3> DEFINE t == Append(Line, ch)
    <3>1. ch \in S
      BY DEF S
    <3>2. t \in Seq(S) /\ Len(t) = i + 1 /\ t[i + 1] = ch /\ \A k \in 1 .. i : t[k] = Line[k]
      BY <1>1, <3>1, AppendProperties
    <3>3. ASSUME NEW k \in 1 .. i + 1 PROVE Line'[k] = t[k]
      <4>1. Line'[k] = linebuf'[k - 1] /\ k - 1 \in 0 .. BUFLEN - 1
        BY <1>0, <2>1, <2>3
      <4>2. CASE k = i + 1
        BY <1>0, <2>1, <3>2, <4>1, <4>2
      <4>3. CASE k # i + 1
        <5>1. k \in 1 .. i /\ k - 1 # i
          BY <1>0, <4>3
        <5> QED
          BY <1>0, <1>1, <2>1, <3>2, <4>1, <5>1
      <4> QED
        BY <4>2, <4>3
    <3> HIDE DEF t
    <3>4. Line' = t
      BY <2>3, <3>2, <3>3, SameLine
    <3> QED
      BY <3>4 DEF t
  <2> QED
    BY <1>0, <1>3, <1>4, <2>1, <2>2, <2>4
<1>7. CASE R!EndLine(ch)
  <2>1. ch \in {"NL", "CR"} /\ i' = 0 /\ linebuf' = [linebuf EXCEPT ![i] = "NUL"] /\ rl' = "caller"
    BY <1>7 DEF R!EndLine
  <2>2. EditorInv'
    BY <1>0, <2>1 DEF EditorInv
  <2>3. Line' = <<>>
    BY <2>1 DEF Line
  <2>4. R!CString(linebuf', 0) = Line
    <3>1. linebuf'[i] = "NUL" /\ \A k \in 0 .. i - 1 : linebuf'[k] = linebuf[k]
      BY <1>0, <2>1
    <3>2. R!CString(linebuf', 0) = Typed(linebuf', i)
      BY <1>0, <3>1, ReturnedString
    <3>3. \A k \in 1 .. i : linebuf'[k - 1] = linebuf[k - 1]
      <4>1. \A k \in 1 .. i : k - 1 \in 0 .. i - 1
        BY <1>0
      <4> QED
        BY <3>1, <4>1
    <3> QED
      BY <3>2, <3>3, LineIsTyped DEF Typed
  <2> QED
    BY <1>3, <1>4, <2>1, <2>2, <2>3, <2>4
<1>8. CASE R!Ignore(ch)
  <2>1. ~R!Erases(ch) /\ ~R!Stores(ch) /\ ch \notin {"NL", "CR"} /\ i' = i /\ linebuf' = linebuf /\ rl' = rl
    BY <1>8 DEF R!Ignore, R!readlineVars
  <2>2. EditorInv'
    BY <2>1 DEF EditorInv
  <2>3. Line' = Line
    BY <2>1 DEF Line
  <2> QED
    BY <1>0, <1>3, <2>1, <2>2, <2>3
<1> QED
  BY <1>5, <1>6, <1>7, <1>8 DEF R!Handle

-----------------------------------------------------------------------------
(* The session. *)

SessionInv == IInv /\ EditorInv

LEMMA SessionStepIsStep == [SessionNext]_sessionVars => [Next]_vars
<1> QED
  BY DEF SessionNext, Thread, Calls, Prints, Asks, Polls, Reads, sessionVars, Next, Kernel

\* A character read by getchar and handled by readline.
LEMMA ReadsEdits ==
  ASSUME SessionInv, Reads
  PROVE  EditorInv' /\ Lines!Read
<1>1. /\ got' \in 1 .. 255
      /\ Pending # <<>> /\ got' = Head(Pending) /\ Pending' = Tail(Pending)
  <2>1. Ring(buf, rpos, wpos) /\ NoNulPending
    BY TypeRing DEF SessionInv, IInv
  <2> QED
    BY <2>1, GrabStep DEF Reads
<1>2. Name[got'] \in Input
  BY <1>1, EditorConstants
<1>3. /\ R!Handle(Name[got'])
      /\ returned' = IF rl' = "caller" THEN R!CString(linebuf', 0) ELSE returned
  BY DEF Reads
<1> DEFINE ch == Name[got']
<1> HIDE DEF ch
<1>4. /\ EditorInv'
      /\ Line' = CASE Lines!Rubout(ch) -> SubSeq(Line, 1, Len(Line) - 1)
                   [] Lines!Glyph(ch) /\ Len(Line) < BUFLEN - 1 -> Append(Line, ch)
                   [] Lines!Enter(ch) -> <<>>
                   [] OTHER -> Line
      /\ returned' = IF Lines!Enter(ch) THEN Line ELSE returned
  <2>1. ch \in Input /\ R!Handle(ch)
    BY <1>2, <1>3 DEF ch
  <2> QED
    BY <2>1, <1>3, HandleEdits DEF SessionInv
<1>5. ch = Name[Head(Pending)]
  BY <1>1 DEF ch
<1> QED
  BY <1>1, <1>4, <1>5, Zenon DEF Lines!Read

\* Every other step leaves the line alone, and does to the queue what StashStep says.
LEMMA OtherSteps ==
  ASSUME SessionInv, SessionNext, ~Reads
  PROVE  /\ EditorInv'
         /\ UNCHANGED <<Line, returned>>
         /\ Lines!Put \/ UNCHANGED Pending
<1>0. Ring(buf, rpos, wpos) /\ NoNulPending
  BY TypeRing DEF SessionInv, IInv
<1>1. UNCHANGED returned /\ EditorInv' /\ UNCHANGED Line
  <2>1. CASE Calls
    <3>1. rl = "caller" /\ i' = 0 /\ rl' = "reading" /\ UNCHANGED <<linebuf, returned>>
      BY <2>1 DEF Calls, R!CallReadline
    <3>2. i = 0 /\ i' = i
      BY <3>1 DEF SessionInv, EditorInv
    <3> QED
      BY <3>1, <3>2 DEF SessionInv, EditorInv, Line
  <2>2. CASE ~Calls
    <3>1. UNCHANGED <<linebuf, i, rl, returned>>
      BY <2>2 DEF SessionNext, Thread, Prints, Asks, Polls, R!PrintChar, editorVars
    <3> QED
      BY <3>1 DEF SessionInv, EditorInv, Line
  <2> QED
    BY <2>1, <2>2
<1>2. ASSUME NEW ch \in 0 .. 255, Stash(ch)
      PROVE  Lines!Put \/ UNCHANGED Pending
  <2>1. UNCHANGED Pending \/ (ch \in 1 .. 255 /\ Pending' = AfterPut(Pending, ch))
    BY <1>0, <1>2, StashStep
  <2>2. DOMAIN Name = 1 .. 255 /\ 1 \in 1 .. 255
    BY EditorConstants
  <2>3. CASE ch \in 1 .. 255 /\ Pending' = AfterPut(Pending, ch)
    BY <2>2, <2>3, <1>1 DEF Lines!Put, AfterPut
  <2> QED
    BY <2>1, <2>3
<1>3. CASE SerialByte
  <2>1. rx \in 0 .. 255 /\ Stash(rx)
    BY <1>3, ConsoleInputAssumption DEF SessionInv, IInv, SerialByte, TypeOK, NoByte
  <2> QED
    BY <1>1, <1>2, <2>1
<1>4. CASE KbdByte
  <2>1. K!KbdReturn \in 0 .. 255 /\ Stash(K!KbdReturn)
    BY <1>4, KeyboardReturn DEF SessionInv, IInv, KbdByte
  <2> QED
    BY <1>1, <1>2, <2>1
<1>5. CASE ~SerialByte /\ ~KbdByte
  <2>1. UNCHANGED <<buf, rpos, wpos>>
    BY <1>5 DEF SessionNext, Thread, Calls, Prints, Asks, Polls, Devices, UartReceive, KeyTyped,
       getchar, SerialDone, KbdDone, GetcNone, vars, consVars
  <2> QED
    BY <1>1, <2>1 DEF Pending
<1> QED
  BY <1>1, <1>3, <1>4, <1>5

LEMMA InitEditor == SessionInit => EditorInv
<1> SUFFICES ASSUME SessionInit PROVE EditorInv
  OBVIOUS
<1>1. linebuf = [k \in 0 .. BUFLEN - 1 |-> "NUL"] /\ i = 0
  BY DEF SessionInit, R!ReadlineInit
<1> QED
  BY <1>1, EditorConstants DEF EditorInv

LEMMA StepSession == SessionInv /\ [SessionNext]_sessionVars => SessionInv'
<1> SUFFICES ASSUME SessionInv, [SessionNext]_sessionVars PROVE SessionInv'
  OBVIOUS
<1>1. IInv'
  BY SessionStepIsStep, StepIInv DEF SessionInv
<1>2. EditorInv'
  <2>1. CASE UNCHANGED sessionVars
    BY <2>1 DEF sessionVars, editorVars, SessionInv, EditorInv
  <2> QED
    BY <2>1, ReadsEdits, OtherSteps
<1> QED
  BY <1>1, <1>2 DEF SessionInv

LEMMA SessionInvariance == SessionSpec => []SessionInv
<1>1. SessionInit => SessionInv
  BY InitIInv, InitEditor DEF SessionInit, SessionInv
<1> QED
  BY <1>1, StepSession, PTL DEF SessionSpec

\* The session is a behaviour of ConsoleInput: TypeCorrect, QueueImplemented and
\* GetcharCorrect hold of it.
THEOREM SessionIsInput == SessionSpec => Spec
<1>1. SessionInit => Init
  BY DEF SessionInit
<1> QED
  BY <1>1, SessionStepIsStep, PTL DEF SessionSpec, Spec

\* However the devices and the thread interleave, and whatever is typed while nobody
\* reads, the lines that readline returns are those of LineInput.
THEOREM SessionLines == SessionSpec => LinesAreTyped
<1>1. SessionInit => Lines!Init
  <2> SUFFICES ASSUME SessionInit PROVE Lines!Init
    OBVIOUS
  <2>1. Queue!Init
    BY InitIsQueue DEF SessionInit
  <2>2. Line = <<>>
    BY DEF SessionInit, R!ReadlineInit, Line
  <2> QED
    BY <2>1, <2>2 DEF SessionInit, Queue!Init, Lines!Init
<1>2. SessionInv /\ [SessionNext]_sessionVars => [Lines!Next]_(Lines!lineVars)
  <2> SUFFICES ASSUME SessionInv, [SessionNext]_sessionVars
               PROVE  Lines!Next \/ UNCHANGED <<Pending, Line, returned>>
    BY DEF Lines!lineVars
  <2>1. CASE UNCHANGED sessionVars
    BY <2>1 DEF sessionVars, editorVars, vars, consVars, Pending, Line
  <2>2. CASE Reads
    BY <2>2, ReadsEdits DEF Lines!Next
  <2>3. CASE SessionNext /\ ~Reads
    BY <2>3, OtherSteps DEF Lines!Next
  <2> QED
    BY <2>1, <2>2, <2>3
<1> QED
  BY <1>1, <1>2, SessionInvariance, PTL DEF SessionSpec, LinesAreTyped, Lines!Spec
=============================================================================
