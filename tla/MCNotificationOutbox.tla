------------------------ MODULE MCNotificationOutbox ------------------------
(* Instances of NotificationOutbox for TLC.                                *)
EXTENDS NotificationOutbox, TLC

CONSTANTS alice, bob, phone, laptop, t1, t2

\* All tasks are storable.
MessagesOnly == [t \in Tasks |-> "message_new"]

\* The phone is alice's, the laptop is bob's, and there is a task for each.
SplitOwner == phone :> alice @@ laptop :> bob
SplitRecipient == [t \in Tasks |-> IF t = t1 THEN alice ELSE bob]
=============================================================================
