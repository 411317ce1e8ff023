\* A pool with more items than a byte has bits.
SPECIFICATION Spec
CONSTANTS
  Raw = Raw
  Data = Data
  SegmentSize = 4
  Words = 64
  ByteBits = 8
  MaxItems = 10
  MaxMisfrees = 0
  NoOpDeallocs = {FALSE}
PROPERTY HeldUntouched
CHECK_DEADLOCK FALSE
