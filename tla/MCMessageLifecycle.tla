-------------------------- MODULE MCMessageLifecycle --------------------------
(* Instances of MessageLifecycle for TLC.                                  *)
EXTENDS MessageLifecycle, TLC

CONSTANTS alice, bob

\* One dialog; alice writes to bob.  Any other user is an outsider.
FromAlice == [m \in Messages |-> alice]
ToBob     == [m \in Messages |-> bob]

RequestSymmetry == Permutations(Requests)
=============================================================================
