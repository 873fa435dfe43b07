CONSTANTS
  Coros = {c1, c2, c3, c4}
  Null = Null
SPECIFICATION FairSpec
INVARIANTS TypeOK MutualExclusion WaitersLinked
PROPERTIES ImplementsFairLock WaiterServed
