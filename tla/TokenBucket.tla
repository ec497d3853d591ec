----------------------------- MODULE TokenBucket -----------------------------
(***************************************************************************)
(* What the login rate limiter promises, without requests, entries or      *)
(* clean-up: each address has a bucket of its own, which is filled one     *)
(* unit a tick up to Full; a login that finds Cost units takes them, and   *)
(* only a login that does not is refused.                                  *)
(***************************************************************************)
EXTENDS Integers

CONSTANTS Addresses, Full, Cost

VARIABLES
  level,   \* level[a]: what a's bucket holds
  logins,  \* logins[a]: how many logins have been let through
  refused  \* refused[a]: the last one was not

vars == <<level, logins, refused>>

Init ==
  /\ level = [a \in Addresses |-> Full]
  /\ logins = [a \in Addresses |-> 0]
  /\ refused = [a \in Addresses |-> FALSE]

Take(a) ==
  /\ level[a] >= Cost
  /\ level' = [level EXCEPT ![a] = @ - Cost]
  /\ logins' = [logins EXCEPT ![a] = @ + 1]
  /\ refused' = [refused EXCEPT ![a] = FALSE]

Refuse(a) ==
  /\ level[a] < Cost
  /\ refused' = [refused EXCEPT ![a] = TRUE]
  /\ UNCHANGED <<level, logins>>

Refill ==
  /\ level' = [a \in Addresses |-> IF level[a] < Full THEN level[a] + 1 ELSE Full]
  /\ UNCHANGED <<logins, refused>>

Next ==
  \/ \E a \in Addresses : Take(a) \/ Refuse(a)
  \/ Refill

Spec == Init /\ [][Next]_vars
=============================================================================
