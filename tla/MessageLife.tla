----------------------------- MODULE MessageLife -----------------------------
(***************************************************************************)
(* What the chat promises about a message, without requests, statements or *)
(* connections: it is kept until its author withdraws it or it expires,    *)
(* and is then gone for good; any user may be recorded as its reader; once *)
(* there is a reader it gets one due date, no sooner than TTL after the    *)
(* first reading and no later than TTL from now, and it expires only when  *)
(* it is due.                                                              *)
(***************************************************************************)
EXTENDS Integers

CONSTANTS Messages, Users, TTL

NoTime == -1

VARIABLES
  life,      \* life[m]: "absent", "kept", "withdrawn" or "expired"
  read,      \* <<m, u>>: u has read m
  firstRead, \* firstRead[m]: when m was read first, NoTime if it was not
  due,       \* due[m]: when m may expire, NoTime for never
  now

vars == <<life, read, firstRead, due, now>>

Init ==
  /\ life = [m \in Messages |-> "absent"]
  /\ read = {}
  /\ firstRead = [m \in Messages |-> NoTime]
  /\ due = [m \in Messages |-> NoTime]
  /\ now = 0

Move(S, from, to) ==
  /\ \A m \in S : life[m] = from
  /\ life' = [m \in Messages |-> IF m \in S THEN to ELSE life[m]]
  /\ UNCHANGED <<read, firstRead, due, now>>

Post(m) == Move({m}, "absent", "kept")

Withdraw(m) == Move({m}, "kept", "withdrawn")

Expire(S) ==
  /\ \A m \in S : due[m] # NoTime /\ due[m] <= now
  /\ Move(S, "kept", "expired")

\* A reading of time t may be recorded after a later one, or after m is gone.
Read(m, u, t) ==
  /\ life[m] # "absent"
  /\ read' = read \cup {<<m, u>>}
  /\ firstRead' = [firstRead EXCEPT ![m] =
                     IF @ = NoTime \/ t < @ THEN t ELSE @]
  /\ UNCHANGED <<life, due, now>>

Date(m, t) ==
  /\ firstRead[m] # NoTime
  /\ due[m] = NoTime
  /\ t \in (firstRead[m] + TTL)..(now + TTL)
  /\ due' = [due EXCEPT ![m] = t]
  /\ UNCHANGED <<life, read, firstRead, now>>

Tick ==
  /\ now' = now + 1
  /\ UNCHANGED <<life, read, firstRead, due>>

Next ==
  \/ \E m \in Messages : Post(m) \/ Withdraw(m)
  \/ \E S \in SUBSET Messages : Expire(S)
  \/ \E m \in Messages, u \in Users, t \in 0..now : Read(m, u, t)
  \/ \E m \in Messages, t \in 0..(now + TTL) : Date(m, t)
  \/ Tick

Spec == Init /\ [][Next]_vars
=============================================================================
