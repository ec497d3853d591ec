\* Two users open a dialog with each other and one walks its history, one
\* message to a page, while messages are posted and removed.
SPECIFICATION FairSpec
CONSTANTS
  Users = {1, 2}
  DialogIds = {d1, d2}
  Messages = {m1, m2, m3}
  None = None
  Limit = 1
  Second = 2
  MaxTime = 3
INVARIANTS
  OneDialogPerPair
  WalkListsEach
PROPERTIES
  WalkEnds
