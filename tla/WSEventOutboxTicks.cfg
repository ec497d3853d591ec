\* Two expirers that fail between statements; main-service restarts, marks fail;
\* alice's two connections come, go and die while the poller writes to them.
SPECIFICATION FairSpec
CONSTANTS
  Messages = {m1, m2}
  Expirers = {x1, x2}
  alice = alice
  bob = bob
  UserA <- Alice
  UserB <- Bob
  ExpireBatch = 2
  DeliverBatch = 3
  Conns = {c1, c2}
  UserOf <- OfAlice
  MaxFaults = 2
INVARIANTS
  EachEventOnce
  NothingLost
PROPERTIES
  OpenOnesAreTold
  ImplementsPromise
  QueueDrains
