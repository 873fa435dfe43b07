CONSTANTS
  Items = {i1, i2, i3}
  a = a
  b = b
  Tags <- Two
SYMMETRY Symmetry
SPECIFICATION Spec
INVARIANT RemovalTargetExists
