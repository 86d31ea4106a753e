CONSTANTS
  s1 = s1
  Slot <- MCSlot
  Capacity <- MCCapacity
  Item = {i1, i2}
  NoItem = NoItem
  Queue = {0, 1, 2}
  Sequence = {1, 2}
  MaxGeneration = 3
  MaxReaders = 2
  Bytes = {0, 1, 3}
SPECIFICATION Spec
INVARIANTS
  NoReuseBeforeReaders
  ReadersSeeFilledContent
  TicketsAreUnique
