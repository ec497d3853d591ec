\* Two requests at a time from one address.
SPECIFICATION Spec
CONSTANTS
  Requests = {r1, r2}
  Addresses = {a1}
  Burst = 2
  Cost = 3
  Second = 2
  TTL = 8
  Stall = 2
  MaxTime = 16
SYMMETRY Symmetric
INVARIANTS
  WindowBound
PROPERTIES
  RetryAfterTrue
  ImplementsBucket
