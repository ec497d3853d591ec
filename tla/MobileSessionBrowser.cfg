\* Two logins or rotations beside the PIN's life; one request may fail.
SPECIFICATION Spec
CONSTANTS
  Pins = {p1, p2}
  NoPin = NoPin
  Salts <- FiveSalts
  MaxAttempts = 2
  MaxTokens = 3
  MaxFaults = 1
INVARIANTS
  OwnTokensOnce
  Readable
  LogoutForgets
SYMMETRY PinSymmetry
CONSTRAINT OneMishap
PROPERTY
  ThrownOutWhenOver
