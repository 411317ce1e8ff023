\* The objects behind the elements.
SPECIFICATION Spec
CONSTANTS
  v1 = v1
  v2 = v2
  Raw = Raw
  Values = {v1, v2}
  SegmentSize = 2
  Words = 16
  MaxSize = 3
INVARIANT ObjectsAlive
CHECK_DEADLOCK FALSE
