\* One start on a clean database that dies, and the next one.
SPECIFICATION MigrateSpec
CONSTANTS
  Processes = {p1}
  Nobody = Nobody
  Last = 12
  Cutoff = 12
  Needs <- MCNeeds
  MaxFaults = 1
INVARIANTS
  RecordedIsApplied
