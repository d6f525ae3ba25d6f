SPECIFICATION FairSpec
CONSTANTS
  Keys <- LeftHand
  Calls = {"char", "stroke", "flush"}
  Cap = 3
  MaxHeld = 2
INVARIANTS TypeOK KeysAsTyped ModifiersAgree LocksAgree
PROPERTY CharDelivered
CHECK_DEADLOCK FALSE
