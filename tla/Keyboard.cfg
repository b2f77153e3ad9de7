\* Two control keys, a shift, an alt, Delete and keypad ".", a letter and caps lock.
CONSTANTS
  Keys = {29, 157, 42, 56, 211, 83, 30, 58}
  KbdQSize = 2
SPECIFICATION Spec
INVARIANTS
  EscapeInStep
  NoStuckModifier
  CharOfItsKey
PROPERTIES
  ModifierDroppedByItsKey
  RebootNeedsCtrlAltDel
