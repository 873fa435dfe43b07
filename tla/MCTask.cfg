CONSTANTS
  Coros <- MCCoros
  Outer = 0
  Parent <- MCParent
  Threads = {main, w1, w2}
  Main = main
  Nobody = Nobody
SPECIFICATION FairSpec
INVARIANTS TypeOK OneRunner NoDangling SuspendedLinked ErrorHeard
PROPERTY Completes
