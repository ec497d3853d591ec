---------------------------- MODULE EventDelivery ----------------------------
(***************************************************************************)
(* What the removal of messages promises their two participants, without   *)
(* ticks, tables, batches or connections: each of them is owed one event   *)
(* for a message that is removed; an event is queued or, with the tick it  *)
(* belongs to, lost; it is handed to the hub while it is queued, UserA's   *)
(* before UserB's; and it is done only after that, once and for all.       *)
(***************************************************************************)
CONSTANTS Messages, UserA, UserB

First(m)  == <<m, UserA[m]>>
Second(m) == <<m, UserB[m]>>
Events    == {First(m) : m \in Messages} \cup {Second(m) : m \in Messages}

VARIABLES
  phase,  \* phase[e]: "none", "owed", "queued", "lost" or "done"
  handed  \* events the hub has been handed

vars == <<phase, handed>>

Init ==
  /\ phase = [e \in Events |-> "none"]
  /\ handed = {}

At(p) == {e \in Events : phase[e] = p}

Move(S, to) ==
  /\ phase' = [e \in Events |-> IF e \in S THEN to ELSE phase[e]]
  /\ UNCHANGED handed

Remove(ms) == Move({First(m) : m \in ms} \cup {Second(m) : m \in ms}, "owed")

InTurn(e, S) == \A m \in Messages : e = Second(m) => First(m) \in S

Queue(e) ==
  /\ InTurn(e, At("queued") \cup At("done"))
  /\ Move({e}, "queued")

Lose(S) == Move(S, "lost")

Hand(e) ==
  /\ InTurn(e, handed)
  /\ handed' = handed \cup {e}
  /\ UNCHANGED phase

Finish(S) == Move(S, "done")

Next ==
  \/ \E ms \in SUBSET {m \in Messages : {First(m), Second(m)} \subseteq At("none")} :
       Remove(ms)
  \/ \E e \in At("owed") : Queue(e)
  \/ \E S \in SUBSET At("owed") : Lose(S)
  \/ \E e \in At("queued") : Hand(e)
  \/ \E S \in SUBSET (At("queued") \cap handed) : Finish(S)

Spec == Init /\ [][Next]_vars
=============================================================================
