--------------------------- MODULE MCMobileSession ---------------------------
(* Instances of MobileSession for TLC.                                     *)
EXTENDS MobileSession, TLC

PinSymmetry == Permutations(Pins)

\* A verifier, a stored token, a rotation and a change each hold one, and 0 is none.
FiveSalts == 1..5

\* Mishaps are not combined, nor with a request whose 401 is on its way.
OneMishap == Cardinality(mishaps) <= 1 /\ (sent => mishaps = {})
=============================================================================
