CONSTANTS
  NoGetter = NoGetter
  Getters = {g1, g2, g3}
  Items = {1, 2, 3}
SPECIFICATION FairSpec
INVARIANTS TypeOK NoIdleGetter ResumedOnce
PROPERTIES ImplementsOfferQueue UnlinkedResumed
