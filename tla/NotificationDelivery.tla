------------------------ MODULE NotificationDelivery ------------------------
(***************************************************************************)
(* What the push queue promises for one notification, without workers,     *)
(* leases, attempts or clocks: an accepted notification is owed until it   *)
(* is settled, pushes happen only while it is owed, settling is final, and *)
(* only a settled notification may be forgotten.                           *)
(***************************************************************************)
CONSTANTS Tasks, Devices

VARIABLES
  phase,   \* phase[t]: "absent", "owed", "settled" or "forgotten"
  reached  \* <<t, d>>: device d has been sent notification t

vars == <<phase, reached>>

Init ==
  /\ phase = [t \in Tasks |-> "absent"]
  /\ reached = {}

Move(t, from, to) ==
  /\ phase[t] = from
  /\ phase' = [phase EXCEPT ![t] = to]
  /\ UNCHANGED reached

Accept(t) == Move(t, "absent", "owed")

Settle(t) == Move(t, "owed", "settled")

Push(t, d) ==
  /\ phase[t] = "owed"
  /\ reached' = reached \cup {<<t, d>>}
  /\ UNCHANGED phase

\* Housekeeping forgets any number of settled notifications at once.
Forget(S) ==
  /\ \A t \in S : phase[t] = "settled"
  /\ phase' = [t \in Tasks |-> IF t \in S THEN "forgotten" ELSE phase[t]]
  /\ UNCHANGED reached

Next ==
  \/ \E t \in Tasks : Accept(t) \/ Settle(t)
  \/ \E t \in Tasks, d \in Devices : Push(t, d)
  \/ \E S \in SUBSET Tasks : Forget(S)

Spec == Init /\ [][Next]_vars
=============================================================================
