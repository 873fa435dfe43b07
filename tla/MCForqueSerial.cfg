CONSTANTS
  Items = {i1, i2, i3, i4}
  a = a
  b = b
  Tags <- One
SYMMETRY Symmetry
SPECIFICATION Spec
INVARIANT RelatedSerial
