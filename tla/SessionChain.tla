----------------------------- MODULE SessionChain -----------------------------
(***************************************************************************)
(* What refresh-token rotation promises, without rows or writes: a login   *)
(* opens a chain with one head; a request takes a turn on a head it finds, *)
(* and its rotation puts a new head in the place of that one, also when    *)
(* another has been there first.  A session that is no head never becomes  *)
(* one again and gives no further turn.                                    *)
(***************************************************************************)
CONSTANTS Sessions, Families, Requests, NoSession

VARIABLES
  heads,  \* heads[f]: the sessions of chain f that may be refreshed
  issued, \* issued[f]: all sessions of chain f
  turn    \* turn[r]: the session request r is about to replace

vars == <<heads, issued, turn>>

Init ==
  /\ heads = [f \in Families |-> {}]
  /\ issued = [f \in Families |-> {}]
  /\ turn = [r \in Requests |-> NoSession]

Issue(f, s) ==
  /\ \A g \in Families : s \notin issued[g]
  /\ issued' = [issued EXCEPT ![f] = @ \cup {s}]

Open(f, s) ==
  /\ issued[f] = {}
  /\ Issue(f, s)
  /\ heads' = [heads EXCEPT ![f] = {s}]
  /\ UNCHANGED turn

Take(r, f, s) ==
  /\ turn[r] = NoSession
  /\ s \in heads[f]
  /\ turn' = [turn EXCEPT ![r] = s]
  /\ UNCHANGED <<heads, issued>>

Advance(r, f, s) ==
  /\ turn[r] \in issued[f]
  /\ Issue(f, s)
  /\ heads' = [heads EXCEPT ![f] = (@ \ {turn[r]}) \cup {s}]
  /\ turn' = [turn EXCEPT ![r] = NoSession]

Drop(r) ==
  /\ turn' = [turn EXCEPT ![r] = NoSession]
  /\ UNCHANGED <<heads, issued>>

\* A logout, a detected reuse, a logout everywhere.
Close(S) ==
  /\ heads' = [f \in Families |-> heads[f] \ S]
  /\ UNCHANGED <<issued, turn>>

Next ==
  \/ \E f \in Families, s \in Sessions : Open(f, s)
  \/ \E r \in Requests, f \in Families, s \in Sessions :
       Take(r, f, s) \/ Advance(r, f, s)
  \/ \E r \in Requests : Drop(r)
  \/ \E S \in SUBSET Sessions : Close(S)

Spec == Init /\ [][Next]_vars
=============================================================================
