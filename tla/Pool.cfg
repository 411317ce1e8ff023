\* Pools of up to one item more than a byte has bits.
SPECIFICATION Spec
CONSTANTS
  Raw = Raw
  Data = Data
  SegmentSize = 3
  Words = 32
  ByteBits = 5
  MaxItems = 6
  MaxMisfrees = 2
  NoOpDeallocs = {TRUE, FALSE}
INVARIANTS TypeOK FreeListExact BitsExact
PROPERTIES HeldUntouched ImplementsAllocator
CHECK_DEADLOCK FALSE
