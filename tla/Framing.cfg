SPECIFICATION Spec
CONSTANTS
  Packets = 7
  Size <- MCSize
  Start <- MCStart
  HeaderSize = 2
  MaxData = 3
CHECK_DEADLOCK FALSE
INVARIANTS TypeOK CollectsOnePacket FramingExact HandledInOrder
