\* Two requests of any users that overlap on one message, one statement that fails or request that is killed, and the expirer's ticks.
SPECIFICATION FairSpec
CONSTANTS
  Users = {alice, bob, carol}
  Messages = {m1}
  Requests = {r1, r2}
  alice = alice
  bob = bob
  NoMessage = NoMessage
  NoUser = NoUser
  Clients = {}
  Sender <- FromAlice
  Receiver <- ToBob
  TTL = 1
  BatchSize = 1
  MaxTime = 2
  MaxFaults = 1
PROPERTIES
  TimedOutIsRemoved
