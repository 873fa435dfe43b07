CONSTANTS
  Workers = {w1, w2}
  NConsumers = 2
  NProducers = 2
  NItems = 1
  Tags <- MCTags
SPECIFICATION FairSpec
INVARIANTS TypeOK NoSleeper OnePlace NobodyRefused CleanExit
PROPERTY Returns
