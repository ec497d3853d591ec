\* The connection breaks while the app is away.
SPECIFICATION FairSpec
CONSTANTS
  Messages = {}
  Dialogs = {d1}
  d1 = d1
  d2 = d2
  NoDialog = NoDialog
  DialogOf <- InFirst
  MaxLoads = 2
  MaxFaults = 1
PROPERTY
  Reconnects
