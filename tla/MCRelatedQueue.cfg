CONSTANTS
  Items = {i1, i2, i3}
  a = a
  b = b
  Tags <- Nested
SPECIFICATION Spec
INVARIANT Serial
