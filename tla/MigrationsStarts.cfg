\* Two processes start together on a clean or an old database; two of their
\* statements fail or are cut off.
SPECIFICATION FairMigrateSpec
CONSTANTS
  Processes = {p1, p2}
  Nobody = Nobody
  Last = 12
  Cutoff = 12
  Needs <- MCNeeds
  MaxFaults = 2
INVARIANTS
  UpIsComplete
  RunAgainAfterFault
PROPERTIES
  ComesUp
