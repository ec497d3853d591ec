\* Three sessions in at most two families, two requests under way at once.
\* Nothing can happen any more once every bounded id is used and every token
\* is lost.
CHECK_DEADLOCK FALSE
SPECIFICATION Spec
CONSTANTS
  Sessions = {s1, s2, s3}
  Families = {f1, f2}
  Users = {u1}
  DeviceIds = {d1}
  Requests = {r1, r2}
  NoSession = NoSession
  NoFamily = NoFamily
  NoUser = NoUser
  NoDevice = NoDevice
SYMMETRY Symmetric
INVARIANTS
  FamilyBound
  OneLivePerBranch
  ReuseEndsBranches
  LogoutEndsBranch
PROPERTIES
  OverIsFinal
  ImplementsChain
