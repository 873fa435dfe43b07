CONSTANTS
  Items = {i1, i2, i3, i4}
  a = a
  b = b
  Tags <- Two
SYMMETRY Symmetry
SPECIFICATION Spec
INVARIANTS TypeOK RelatedOrder OfferedOnce InterruptHeard SerialWhileIntact
PROPERTY DestroysOnlyOnReuse
