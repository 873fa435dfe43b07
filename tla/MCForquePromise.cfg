CONSTANTS
  Items = {i1, i2, i3}
  a = a
  b = b
  Tags <- Dynamic
SYMMETRY Symmetry
SPECIFICATION Spec
INVARIANTS NothingForgotten NoLeak ActiveShape
PROPERTIES ImplementsRelatedQueue UsesOfferQueue
