--------------------------- MODULE MCWSEventOutbox ---------------------------
(* Instances of WSEventOutbox for TLC.                                     *)
EXTENDS WSEventOutbox, TLC

CONSTANTS alice, bob

\* Every message is in the dialog of alice and bob.
Alice == [m \in Messages |-> alice]
Bob   == [m \in Messages |-> bob]

\* Both connections are alice's; bob is offline.
OfAlice == [c \in Conns |-> alice]
=============================================================================
