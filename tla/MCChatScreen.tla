----------------------------- MODULE MCChatScreen -----------------------------
(* Instances of ChatScreen for TLC.                                        *)
EXTENDS ChatScreen

CONSTANTS d1, d2

\* Every message is in the first dialog.
InFirst == [m \in Messages |-> d1]
=============================================================================
