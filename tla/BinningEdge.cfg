\* A key at the maximum of the range.
SPECIFICATION Spec
CONSTANTS
  Precision = 5
  Shapes <- MCShapes
  MaxAdds = 2
INVARIANT KeysHaveBins
