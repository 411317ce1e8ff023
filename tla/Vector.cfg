\* Every sequence of operations that keeps to MaxSize elements.
SPECIFICATION Spec
CONSTANTS
  v1 = v1
  v2 = v2
  Raw = Raw
  Values = {v1, v2}
  SegmentSize = 2
  Words = 16
  MaxSize = 5
INVARIANTS TypeOK Packed IteratorsCount
PROPERTIES ElementsStay ImplementsList
CHECK_DEADLOCK FALSE
