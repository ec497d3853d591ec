\* Two workers that claim one task at a time and finish within its lease: crashes,
\* lost writes, and the order of next_attempt_at.
SPECIFICATION FairSpec
CONSTANTS
  Workers = {w1, w2}
  Tasks = {t1, t2}
  Devices = {phone, laptop}
  NoTask = NoTask
  alice = alice
  bob = bob
  phone = phone
  laptop = laptop
  t1 = t1
  t2 = t2
  Recipient <- SplitRecipient
  Owner <- SplitOwner
  EventType <- MessagesOnly
  BatchSize = 1
  MaxAttempts = 2
  Lease = 2
  BackoffBase = 1
  BackoffCap = 2
  ExhaustedDelay = 3
  Retention = 0
  Prompt = TRUE
  MaxOverdue = 1
  MaxFaults = 1
INVARIANTS
  LeaseExclusive
  RoundComplete
PROPERTIES
  EventuallySettled
  ImplementsDelivery
