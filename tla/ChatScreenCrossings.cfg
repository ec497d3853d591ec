\* One message, two dialogs, two history requests at once, one fault.
SPECIFICATION Spec
CONSTANTS
  Messages = {m1}
  Dialogs = {d1, d2}
  d1 = d1
  d2 = d2
  NoDialog = NoDialog
  DialogOf <- InFirst
  MaxLoads = 2
  MaxFaults = 1
INVARIANTS
  HistoryOfOpenChat
  OneBubble
  RemovedLeaves
  TimersRun
  ShownIsRead
PROPERTY
  LockedMarksNothing
