CONSTANTS
  Items = {i1, i2, i3}
  a = a
  b = b
  Tags <- Two
SPECIFICATION FairSpec
PROPERTIES Served InterruptCompletes
