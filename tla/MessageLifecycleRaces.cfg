\* Two requests that overlap on one message, which its author and an outsider may mark as well; bob's connection comes, goes and dies.
SPECIFICATION Spec
CONSTANTS
  Users = {alice, bob, carol}
  Messages = {m1}
  Requests = {r1, r2}
  alice = alice
  bob = bob
  NoMessage = NoMessage
  NoUser = NoUser
  Clients = {bob}
  Sender <- FromAlice
  Receiver <- ToBob
  TTL = 1
  BatchSize = 1
  MaxTime = 2
  MaxFaults = 0
SYMMETRY RequestSymmetry
INVARIANTS
  FullLifetime
  NewMessageReaches
  TimersTrue
PROPERTIES
  ImplementsLife
