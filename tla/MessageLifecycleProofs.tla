------------------------ MODULE MessageLifecycleProofs ------------------------
(***************************************************************************)
(* Proofs about MessageLifecycle, for any numbers of users, messages and   *)
(* overlapping requests, every TTL and every batch size of the expirer.    *)
(***************************************************************************)
EXTENDS MessageLifecycle, FiniteSetTheorems, TLAPS

\* The numbers a badge can show.
LEMMA UnreadCount ==
  ASSUME stored \subseteq Messages, NEW u
  PROVE  Cardinality(Unread(u)) \in Counts
<1>1. IsFiniteSet(Messages) /\ Unread(u) \subseteq Messages
  BY LifecycleAssumption DEF Unread
<1>2. /\ Cardinality(Unread(u)) \in Nat /\ Cardinality(Messages) \in Nat
      /\ Cardinality(Unread(u)) <= Cardinality(Messages)
  BY <1>1, FS_Subset, FS_CardinalityType
<1>3. QED
  BY <1>2 DEF Counts

\* What a request under way has in hand.
Held(r) ==
  pc[r] # "idle" =>
    /\ msg[r] \in stored
    /\ usr[r] \in Users
    /\ pc[r] \in {"receipt", "timer", "tellSender", "tellReader"} => op[r] = "read"
    /\ pc[r] \in {"find", "count", "badge"} => op[r] \in {"read", "delete"}
    /\ pc[r] = "delete" => op[r] = "delete"
    /\ pc[r] = "badge" => count[r] \in Counts
    /\ op[r] = "read" =>
         /\ at[r] \in Times
         /\ at[r] + TTL <= MaxTime

Handling == \A r \in Requests : Held(r)

LEMMA InitInv == Init => TypeOK /\ Handling
<1> SUFFICES ASSUME Init PROVE TypeOK /\ Handling
  OBVIOUS
<1>1. TypeOK
  <2>1. /\ now \in Times /\ faults \in 0..MaxFaults
    BY LifecycleAssumption DEF Init, Times
  <2>2. timer \in [Users -> [Messages -> {NoTime} \cup Times]]
    BY DEF Init
  <2>3. QED
    BY <2>1, <2>2 DEF Init, TypeOK
<1>2. Handling
  BY DEF Init, Handling, Held
<1>3. QED
  BY <1>1, <1>2

\* The types of a request's variables after its end, or at its next step.
LEMMA FinishType ==
  ASSUME TypeOK, NEW r \in Requests, Finish(r)
  PROVE  /\ pc' \in [Requests -> {"idle", "ensure", "push", "enqueue", "find",
                          "delete", "receipt", "count", "badge", "timer",
                          "tellSender", "tellReader"}]
         /\ op' \in [Requests -> {"none", "send", "read", "delete"}]
         /\ msg' \in [Requests -> Messages \cup {NoMessage}]
         /\ usr' \in [Requests -> Users \cup {NoUser}]
         /\ at' \in [Requests -> {NoTime} \cup Times]
         /\ fresh' \in [Requests -> BOOLEAN]
         /\ count' \in [Requests -> {NoCount} \cup Counts]
BY DEF Finish, TypeOK

LEMMA GoOnType ==
  ASSUME TypeOK, NEW r \in Requests,
         NEW step \in {"push", "enqueue", "delete", "receipt", "count", "badge",
                       "timer", "tellSender", "tellReader"},
         GoOn(r, step)
  PROVE  /\ pc' \in [Requests -> {"idle", "ensure", "push", "enqueue", "find",
                          "delete", "receipt", "count", "badge", "timer",
                          "tellSender", "tellReader"}]
         /\ op' \in [Requests -> {"none", "send", "read", "delete"}]
         /\ msg' \in [Requests -> Messages \cup {NoMessage}]
         /\ usr' \in [Requests -> Users \cup {NoUser}]
         /\ at' \in [Requests -> {NoTime} \cup Times]
BY DEF GoOn, TypeOK

\* The step after the badge, of MarkRead and of DeleteOwnMessage.
LEMMA AfterBadgeType ==
  ASSUME TypeOK, NEW r \in Requests, AfterBadge(r)
  PROVE  /\ pc' \in [Requests -> {"idle", "ensure", "push", "enqueue", "find",
                          "delete", "receipt", "count", "badge", "timer",
                          "tellSender", "tellReader"}]
         /\ op' \in [Requests -> {"none", "send", "read", "delete"}]
         /\ msg' \in [Requests -> Messages \cup {NoMessage}]
         /\ usr' \in [Requests -> Users \cup {NoUser}]
         /\ at' \in [Requests -> {NoTime} \cup Times]
         /\ fresh' \in [Requests -> BOOLEAN]
         /\ count' \in [Requests -> {NoCount} \cup Counts]
<1>1. CASE Finish(r)
  BY <1>1, FinishType
<1>2. CASE ~Finish(r)
  <2>1. /\ GoOn(r, "timer")
        /\ fresh' = [fresh EXCEPT ![r] = FALSE]
        /\ count' = [count EXCEPT ![r] = NoCount]
    BY <1>2 DEF AfterBadge
  <2>2. fresh' \in [Requests -> BOOLEAN] /\ count' \in [Requests -> {NoCount} \cup Counts]
    BY <2>1 DEF TypeOK
  <2>3. QED
    BY <2>1, <2>2, GoOnType
<1>3. QED
  BY <1>1, <1>2

LEMMA DeadlineType ==
  ASSUME TypeOK, Handling, NEW r \in Requests,
         pc[r] \in {"timer", "tellSender", "tellReader"}
  PROVE  msg[r] \in Messages /\ Deadline(r) \in Times
<1>1. Held(r)
  BY DEF Handling
<1>2. msg[r] \in stored /\ at[r] \in Times /\ at[r] + TTL <= MaxTime
  BY <1>1 DEF Held
<1>3. msg[r] \in Messages
  BY <1>2 DEF TypeOK
<1>4. at[r] + TTL \in Times
  BY <1>2, LifecycleAssumption DEF Times
<1>5. QED
  BY <1>3, <1>4 DEF Deadline

LEMMA TypeStep == TypeOK /\ Handling /\ [Next]_vars => TypeOK'
<1> SUFFICES ASSUME TypeOK, Handling, [Next]_vars PROVE TypeOK'
  OBVIOUS
<1> USE DEF rowVars, saidVars, sawVars
<1>1. ASSUME NEW r \in Requests, NEW m \in Messages, Create(r, m) PROVE TypeOK'
  <2>1. Sender[m] \in Users /\ Receiver[m] \in Users
    BY LifecycleAssumption
  <2>2. /\ stored' \subseteq Messages
        /\ stored \subseteq stored'
        /\ badge' \in [Users -> {NoCount} \cup Counts]
    BY <1>1, <2>1 DEF Create, TypeOK
  <2>3. /\ pc' \in [Requests -> {"idle", "ensure", "push", "enqueue", "find",
                          "delete", "receipt", "count", "badge", "timer",
                          "tellSender", "tellReader"}]
        /\ op' \in [Requests -> {"none", "send", "read", "delete"}]
        /\ msg' \in [Requests -> Messages \cup {NoMessage}]
        /\ usr' \in [Requests -> Users \cup {NoUser}]
    BY <1>1, <2>1 DEF Create, Begin, TypeOK
  <2>4. QED
    BY <1>1, <2>2, <2>3 DEF Create, TypeOK
<1>2. ASSUME NEW r \in Requests, NEW m \in Messages,
             CallDelete(r, m) \/ \E u \in Users : CallRead(r, m, u)
      PROVE  TypeOK'
  <2>1. Sender[m] \in Users
    BY LifecycleAssumption
  <2>2. PICK u \in Users, what \in {"read", "delete"} : Begin(r, what, "find", m, u)
    BY <1>2, <2>1 DEF CallDelete, CallRead
  <2>3. /\ pc' \in [Requests -> {"idle", "ensure", "push", "enqueue", "find",
                          "delete", "receipt", "count", "badge", "timer",
                          "tellSender", "tellReader"}]
        /\ op' \in [Requests -> {"none", "send", "read", "delete"}]
        /\ msg' \in [Requests -> Messages \cup {NoMessage}]
        /\ usr' \in [Requests -> Users \cup {NoUser}]
    BY <2>2 DEF Begin, TypeOK
  <2>4. at' \in [Requests -> {NoTime} \cup Times]
    BY <1>2 DEF CallDelete, CallRead, TypeOK
  <2>5. QED
    BY <1>2, <2>3, <2>4 DEF CallDelete, CallRead, TypeOK
<1>3. ASSUME NEW r \in Requests, Ensure(r) PROVE TypeOK'
  BY <1>3, GoOnType DEF Ensure, TypeOK
<1>4. ASSUME NEW r \in Requests, PushNew(r) PROVE TypeOK'
  <2>1. msg[r] \in stored /\ msg[r] \in Messages /\ Receiver[msg[r]] \in Users
    BY <1>4, LifecycleAssumption DEF PushNew, Handling, Held, TypeOK
  <2>2. /\ told' \subseteq stored \X Users
        /\ unheard' \subseteq stored
        /\ notified' \subseteq stored
    BY <1>4, <2>1 DEF PushNew, TypeOK
  <2>3. CASE GoOn(r, "enqueue") /\ UNCHANGED <<fresh, count>>
    BY <1>4, <2>2, <2>3, GoOnType DEF PushNew, TypeOK
  <2>4. CASE Finish(r)
    BY <1>4, <2>2, <2>4, FinishType DEF PushNew, TypeOK
  <2>5. QED
    BY <1>4, <2>3, <2>4 DEF PushNew
<1>5. ASSUME NEW r \in Requests, EnqueueOutbox(r) PROVE TypeOK'
  <2>1. msg[r] \in stored
    BY <1>5 DEF EnqueueOutbox, Handling, Held
  <2>2. QED
    BY <1>5, <2>1, FinishType DEF EnqueueOutbox, TypeOK
<1>6. ASSUME NEW r \in Requests, GetByID(r) PROVE TypeOK'
  <2>1. CASE Finish(r)
    BY <1>6, <2>1, FinishType DEF GetByID, TypeOK
  <2>2. CASE ~Finish(r)
    <3>1. /\ GoOn(r, IF op[r] = "read" THEN "receipt" ELSE "delete")
          /\ fresh' = [fresh EXCEPT ![r] = FirstRead(r)]
          /\ UNCHANGED count
      BY <1>6, <2>2 DEF GetByID
    <3>2. fresh' \in [Requests -> BOOLEAN]
      BY <3>1 DEF FirstRead, TypeOK
    <3>3. (IF op[r] = "read" THEN "receipt" ELSE "delete") \in {"receipt", "delete"}
      OBVIOUS
    <3>4. QED
      BY <1>6, <3>1, <3>2, <3>3, GoOnType DEF GetByID, TypeOK
  <2>3. QED
    BY <2>1, <2>2
<1>7. ASSUME NEW r \in Requests, MarkReceipt(r) PROVE TypeOK'
  <2>1. /\ msg[r] \in stored /\ msg[r] \in Messages /\ usr[r] \in Users
        /\ at[r] \in Times
    BY <1>7 DEF MarkReceipt, Handling, Held, TypeOK
  <2>2. /\ read' \subseteq stored \X Users
        /\ firstRead' \in [Messages -> {NoTime} \cup Times]
    BY <1>7, <2>1 DEF MarkReceipt, TypeOK
  <2>3. QED
    BY <1>7, <2>2, GoOnType DEF MarkReceipt, TypeOK
<1>8. ASSUME NEW r \in Requests, SoftDelete(r) PROVE TypeOK'
  <2>1. msg[r] \in stored
    BY <1>8 DEF SoftDelete, Handling, Held
  <2>2. deleted' \subseteq stored /\ unsent' \subseteq stored
    BY <1>8, <2>1 DEF SoftDelete, TypeOK
  <2>3. CASE GoOn(r, "count") /\ UNCHANGED <<fresh, count>>
    BY <1>8, <2>2, <2>3, GoOnType DEF SoftDelete, TypeOK
  <2>4. CASE Finish(r)
    BY <1>8, <2>2, <2>4, FinishType DEF SoftDelete, TypeOK
  <2>5. QED
    BY <1>8, <2>3, <2>4 DEF SoftDelete
<1>9. ASSUME NEW r \in Requests, CountUnread(r) PROVE TypeOK'
  <2>1. count' \in [Requests -> {NoCount} \cup Counts]
    BY <1>9, UnreadCount DEF CountUnread, TypeOK
  <2>2. QED
    BY <1>9, <2>1, GoOnType DEF CountUnread, TypeOK
<1>10. ASSUME NEW r \in Requests, SendBadge(r) PROVE TypeOK'
  <2>1. BadgeUser(r) \in Users
    BY <1>10, LifecycleAssumption DEF SendBadge, BadgeUser, Handling, Held, TypeOK
  <2>2. badge' \in [Users -> {NoCount} \cup Counts] /\ outdated' \subseteq Users
    BY <1>10, <2>1 DEF SendBadge, TypeOK
  <2>3. QED
    BY <1>10, <2>2, AfterBadgeType DEF SendBadge, TypeOK
<1>11. ASSUME NEW r \in Requests, CountFails(r) PROVE TypeOK'
  <2>1. faults' \in 0..MaxFaults
    BY <1>11, LifecycleAssumption DEF CountFails, TypeOK
  <2>2. QED
    BY <1>11, <2>1, AfterBadgeType DEF CountFails, TypeOK
<1>12. ASSUME NEW r \in Requests, SetExpiresAt(r) PROVE TypeOK'
  <2>1. msg[r] \in Messages /\ Deadline(r) \in Times
    BY <1>12, DeadlineType DEF SetExpiresAt
  <2>2. /\ expiresAt' \in [Messages -> {NoTime} \cup Times]
        /\ raced' \subseteq stored
    BY <1>12, <2>1 DEF SetExpiresAt, Handling, Held, TypeOK
  <2>3. QED
    BY <1>12, <2>2, GoOnType DEF SetExpiresAt, TypeOK
<1>13. ASSUME NEW r \in Requests, NEW u \in Users, TellTimer(r, u),
              pc[r] \in {"tellSender", "tellReader"}
       PROVE  timer' \in [Users -> [Messages -> {NoTime} \cup Times]]
  <2>1. msg[r] \in Messages /\ Deadline(r) \in Times
    BY <1>13, DeadlineType
  <2>2. timer[u] \in [Messages -> {NoTime} \cup Times]
    BY DEF TypeOK
  <2>3. [timer[u] EXCEPT ![msg[r]] = Deadline(r)] \in [Messages -> {NoTime} \cup Times]
    BY <2>1, <2>2
  <2>4. QED
    BY <1>13, <2>3 DEF TellTimer, TypeOK
<1>14. ASSUME NEW r \in Requests, TellSender(r) PROVE TypeOK'
  <2>1. Sender[msg[r]] \in Users
    BY <1>14, LifecycleAssumption DEF TellSender, Handling, Held, TypeOK
  <2>2. timer' \in [Users -> [Messages -> {NoTime} \cup Times]]
    BY <1>13, <1>14, <2>1 DEF TellSender
  <2>3. QED
    BY <1>14, <2>2, GoOnType DEF TellSender, TypeOK
<1>15. ASSUME NEW r \in Requests, TellReader(r) PROVE TypeOK'
  <2>1. usr[r] \in Users
    BY <1>15 DEF TellReader, Handling, Held
  <2>2. timer' \in [Users -> [Messages -> {NoTime} \cup Times]]
    BY <1>13, <1>15, <2>1 DEF TellReader
  <2>3. QED
    BY <1>15, <2>2, FinishType DEF TellReader, TypeOK
<1>16. ASSUME NEW r \in Requests, Abort(r) PROVE TypeOK'
  <2>1. faults' \in 0..MaxFaults
    BY <1>16, LifecycleAssumption DEF Abort, TypeOK
  <2>2. QED
    BY <1>16, <2>1, FinishType DEF Abort, TypeOK
<1>17. CASE ExpireMessages
  BY <1>17 DEF ExpireMessages, DueRows, reqVars, TypeOK
<1>18. ASSUME NEW u \in Clients, Connect(u) PROVE TypeOK'
  BY <1>18 DEF Connect, reqVars, TypeOK
<1>19. ASSUME NEW u \in Clients, LinkDies(u) \/ Unregister(u) PROVE TypeOK'
  BY <1>19 DEF LinkDies, Unregister, reqVars, TypeOK
<1>20. CASE Tick
  BY <1>20, LifecycleAssumption DEF Tick, reqVars, TypeOK, Times
<1>21. CASE UNCHANGED vars
  BY <1>21 DEF vars, reqVars, TypeOK
<1>22. QED
  BY <1>1, <1>2, <1>3, <1>4, <1>5, <1>6, <1>7, <1>8, <1>9, <1>10, <1>11,
     <1>12, <1>14, <1>15, <1>16, <1>17, <1>18, <1>19, <1>20, <1>21
  DEF Next, Call, Step
-----------------------------------------------------------------------------
(* What a step leaves alone.                                               *)

\* A step changes each part of the state by few actions only.
LEMMA Frame ==
  ASSUME TypeOK, [Next]_vars
  PROVE  /\ (\E r \in Requests, m \in Messages : Create(r, m)) \/ UNCHANGED stored
         /\ (\E r \in Requests : SetExpiresAt(r)) \/ UNCHANGED <<expiresAt, raced>>
         /\ \/ \E r \in Requests : SoftDelete(r)
            \/ ExpireMessages
            \/ UNCHANGED <<deleted, unsent, expired>>
         /\ (\E r \in Requests : MarkReceipt(r)) \/ UNCHANGED <<read, firstRead>>
         /\ \/ \E r \in Requests : PushNew(r) \/ EnqueueOutbox(r)
            \/ UNCHANGED <<told, unheard, notified, queued>>
<1> USE DEF rowVars, saidVars, sawVars
<1>1. ASSUME NEW r \in Requests, Call(r)
      PROVE  \/ (\E m \in Messages : Create(r, m)) /\ UNCHANGED
                   <<expiresAt, raced, deleted, unsent, expired, read,
                     firstRead, told, unheard, notified, queued>>
             \/ UNCHANGED <<rowVars, saidVars>>
  BY <1>1 DEF Call, Create, CallRead, CallDelete
<1>2. ASSUME NEW r \in Requests, Ensure(r) \/ GetByID(r) \/ CountUnread(r)
      PROVE  UNCHANGED <<rowVars, saidVars>>
  BY <1>2 DEF Ensure, GetByID, CountUnread
<1>3. ASSUME NEW r \in Requests, CountFails(r) \/ Abort(r)
      PROVE  UNCHANGED <<rowVars, saidVars>>
  BY <1>3 DEF CountFails, Abort
<1>4. ASSUME NEW r \in Requests, PushNew(r) \/ EnqueueOutbox(r)
      PROVE  UNCHANGED <<stored, expiresAt, raced, deleted, unsent, expired,
                         read, firstRead>>
  BY <1>4 DEF PushNew, EnqueueOutbox
<1>5. ASSUME NEW r \in Requests, MarkReceipt(r)
      PROVE  UNCHANGED <<stored, expiresAt, raced, deleted, unsent, expired,
                         told, unheard, notified, queued>>
  BY <1>5 DEF MarkReceipt
<1>6. ASSUME NEW r \in Requests, SoftDelete(r)
      PROVE  UNCHANGED <<stored, expiresAt, raced, read, firstRead,
                         told, unheard, notified, queued>>
  BY <1>6 DEF SoftDelete
<1>7. ASSUME NEW r \in Requests, SetExpiresAt(r)
      PROVE  UNCHANGED <<stored, deleted, unsent, expired, read, firstRead,
                         told, unheard, notified, queued>>
  BY <1>7 DEF SetExpiresAt
<1>8. ASSUME NEW r \in Requests, SendBadge(r) \/ TellSender(r) \/ TellReader(r)
      PROVE  UNCHANGED <<rowVars, raced, unsent, expired, firstRead,
                         told, unheard, notified>>
  BY <1>8 DEF SendBadge, TellSender, TellReader
<1>9. CASE ExpireMessages
  BY <1>9 DEF ExpireMessages
<1>10. ASSUME NEW u \in Clients, Connect(u) \/ LinkDies(u) \/ Unregister(u)
       PROVE  UNCHANGED <<rowVars, raced, unsent, expired, firstRead,
                          told, unheard, notified>>
  BY <1>10 DEF Connect, LinkDies, Unregister
<1>11. CASE Tick \/ UNCHANGED vars
  BY <1>11 DEF Tick, vars
<1>12. QED
  BY <1>1, <1>2, <1>3, <1>4, <1>5, <1>6, <1>7, <1>8, <1>9, <1>10, <1>11
  DEF Next, Step

\* Nothing stored is taken away, and receipts and removals are kept.
LEMMA Growing ==
  ASSUME TypeOK, [Next]_vars
  PROVE  stored \subseteq stored' /\ deleted \subseteq deleted' /\ read \subseteq read'
BY Frame DEF Create, SoftDelete, ExpireMessages, MarkReceipt
-----------------------------------------------------------------------------
(* One request moves at a time.                                            *)

Untouched(r) ==
  /\ pc'[r] = pc[r] /\ op'[r] = op[r] /\ msg'[r] = msg[r] /\ usr'[r] = usr[r]
  /\ at'[r] = at[r] /\ fresh'[r] = fresh[r] /\ count'[r] = count[r]

\* The same handler goes on with its next step, or has ended.
Same(r) ==
  /\ op'[r] = op[r] /\ msg'[r] = msg[r] /\ usr'[r] = usr[r] /\ at'[r] = at[r]

Ended(r) == pc'[r] = "idle" /\ fresh'[r] = FALSE

LEMMA FinishMoves ==
  ASSUME TypeOK, NEW r \in Requests, Finish(r)
  PROVE  Ended(r) /\ \A s \in Requests \ {r} : Untouched(s)
BY DEF Finish, TypeOK, Ended, Untouched

LEMMA GoOnMoves ==
  ASSUME TypeOK, NEW r \in Requests, NEW step, GoOn(r, step)
  PROVE  /\ pc'[r] = step /\ Same(r)
         /\ UNCHANGED <<fresh, count>> => \A s \in Requests \ {r} : Untouched(s)
         /\ \A s \in Requests \ {r} :
              fresh'[s] = fresh[s] /\ count'[s] = count[s] => Untouched(s)
BY DEF GoOn, TypeOK, Same, Untouched

LEMMA AfterBadgeMoves ==
  ASSUME TypeOK, NEW r \in Requests, AfterBadge(r)
  PROVE  /\ \/ Ended(r)
            \/ /\ pc'[r] = "timer" /\ Same(r)
               /\ op[r] = "read" /\ fresh[r] /\ fresh'[r] = FALSE
         /\ \A s \in Requests \ {r} : Untouched(s)
<1>1. CASE Finish(r)
  BY <1>1, FinishMoves
<1>2. CASE ~Finish(r)
  <2>1. /\ GoOn(r, "timer") /\ op[r] = "read" /\ fresh[r]
        /\ fresh' = [fresh EXCEPT ![r] = FALSE]
        /\ count' = [count EXCEPT ![r] = NoCount]
    BY <1>2 DEF AfterBadge
  <2>2. fresh'[r] = FALSE
        /\ \A s \in Requests \ {r} : fresh'[s] = fresh[s] /\ count'[s] = count[s]
    BY <2>1 DEF TypeOK
  <2>3. QED
    BY <2>1, <2>2, GoOnMoves
<1>3. QED
  BY <1>1, <1>2

\* What each step does to the request that takes it.
Moves(r) ==
  \/ Ended(r)
  \/ /\ Same(r)
     /\ \/ pc[r] = "ensure" /\ pc'[r] = "push" /\ UNCHANGED <<fresh, count>>
        \/ pc[r] = "push" /\ pc'[r] = "enqueue" /\ UNCHANGED <<fresh, count>>
        \/ /\ pc[r] = "find" /\ count'[r] = count[r]
           /\ pc'[r] = IF op[r] = "read" THEN "receipt" ELSE "delete"
           /\ fresh'[r] = FirstRead(r)
        \/ /\ pc[r] \in {"receipt", "delete"} /\ pc'[r] = "count"
           /\ UNCHANGED <<fresh, count>>
           /\ IF pc[r] = "receipt" THEN MarkReceipt(r) ELSE SoftDelete(r)
        \/ /\ pc[r] = "count" /\ pc'[r] = "badge" /\ UNCHANGED fresh
           /\ count'[r] = Cardinality(Unread(BadgeUser(r)))
        \/ /\ pc[r] \in {"count", "badge"} /\ pc'[r] = "timer"
           /\ op[r] = "read" /\ fresh[r] /\ fresh'[r] = FALSE
        \/ /\ pc[r] = "timer" /\ pc'[r] = "tellSender" /\ UNCHANGED <<fresh, count>>
           /\ SetExpiresAt(r)
        \/ pc[r] = "tellSender" /\ pc'[r] = "tellReader" /\ UNCHANGED <<fresh, count>>

LEMMA RequestStep ==
  ASSUME TypeOK, NEW r \in Requests, Step(r) \/ CountFails(r) \/ Abort(r)
  PROVE  Moves(r) /\ \A s \in Requests \ {r} : Untouched(s)
<1>1. CASE Ensure(r)
  BY <1>1, GoOnMoves DEF Ensure, Moves
<1>2. CASE PushNew(r)
  <2>1. Finish(r) \/ (GoOn(r, "enqueue") /\ UNCHANGED <<fresh, count>>)
    BY <1>2 DEF PushNew
  <2>2. QED
    BY <1>2, <2>1, FinishMoves, GoOnMoves DEF PushNew, Moves
<1>3. CASE EnqueueOutbox(r) \/ TellReader(r) \/ Abort(r)
  <2>1. Finish(r)
    BY <1>3 DEF EnqueueOutbox, TellReader, Abort
  <2>2. QED
    BY <2>1, FinishMoves DEF Moves
<1>4. CASE GetByID(r)
  <2>1. CASE Finish(r)
    BY <2>1, FinishMoves DEF Moves
  <2>2. CASE ~Finish(r)
    <3>1. /\ GoOn(r, IF op[r] = "read" THEN "receipt" ELSE "delete")
          /\ fresh' = [fresh EXCEPT ![r] = FirstRead(r)]
          /\ UNCHANGED count
          /\ pc[r] = "find"
      BY <1>4, <2>2 DEF GetByID
    <3>2. /\ fresh'[r] = FirstRead(r)
          /\ \A s \in Requests \ {r} : fresh'[s] = fresh[s]
      BY <3>1 DEF TypeOK
    <3>3. QED
      BY <3>1, <3>2, GoOnMoves DEF Moves
  <2>3. QED
    BY <2>1, <2>2
<1>5. CASE MarkReceipt(r)
  BY <1>5, GoOnMoves DEF MarkReceipt, Moves
<1>6. CASE SoftDelete(r)
  <2>1. Finish(r) \/ (GoOn(r, "count") /\ UNCHANGED <<fresh, count>>)
    BY <1>6 DEF SoftDelete
  <2>2. QED
    BY <1>6, <2>1, FinishMoves, GoOnMoves DEF SoftDelete, Moves
<1>7. CASE CountUnread(r)
  <2>1. /\ count'[r] = Cardinality(Unread(BadgeUser(r)))
        /\ \A s \in Requests \ {r} : count'[s] = count[s]
    BY <1>7 DEF CountUnread, TypeOK
  <2>2. QED
    BY <1>7, <2>1, GoOnMoves DEF CountUnread, Moves
<1>8. CASE SendBadge(r) \/ CountFails(r)
  <2>1. pc[r] \in {"count", "badge"} /\ AfterBadge(r)
    BY <1>8 DEF SendBadge, CountFails
  <2>2. QED
    BY <2>1, AfterBadgeMoves DEF Moves
<1>9. CASE SetExpiresAt(r)
  BY <1>9, GoOnMoves DEF SetExpiresAt, Moves
<1>10. CASE TellSender(r)
  BY <1>10, GoOnMoves DEF TellSender, Moves
<1>11. QED
  BY <1>1, <1>2, <1>3, <1>4, <1>5, <1>6, <1>7, <1>8, <1>9, <1>10 DEF Step

\* A call takes a free request and a stored message.
Begun(r) ==
  /\ pc[r] = "idle" /\ fresh'[r] = fresh[r]
  /\ msg'[r] \in stored' /\ usr'[r] \in Users
  /\ \/ pc'[r] = "ensure" /\ op'[r] = "send"
     \/ pc'[r] = "find" /\ op'[r] = "delete"
     \/ /\ pc'[r] = "find" /\ op'[r] = "read"
        /\ at'[r] \in Times /\ at'[r] + TTL <= MaxTime

LEMMA BeginMoves ==
  ASSUME TypeOK, NEW r \in Requests, Call(r)
  PROVE  Begun(r) /\ \A s \in Requests \ {r} : Untouched(s)
<1>1. ASSUME NEW what, NEW step, NEW m, NEW u, Begin(r, what, step, m, u)
      PROVE  /\ pc[r] = "idle" /\ pc'[r] = step /\ op'[r] = what
             /\ msg'[r] = m /\ usr'[r] = u
             /\ \A s \in Requests \ {r} :
                  /\ pc'[s] = pc[s] /\ op'[s] = op[s]
                  /\ msg'[s] = msg[s] /\ usr'[s] = usr[s]
  BY <1>1 DEF Begin, TypeOK
<1>2. ASSUME NEW m \in Messages, Create(r, m)
      PROVE  Begun(r) /\ \A s \in Requests \ {r} : Untouched(s)
  BY <1>1, <1>2, LifecycleAssumption DEF Create, Begun, Untouched
<1>3. ASSUME NEW m \in Messages, CallDelete(r, m)
      PROVE  Begun(r) /\ \A s \in Requests \ {r} : Untouched(s)
  BY <1>1, <1>3, LifecycleAssumption DEF CallDelete, Begun, Untouched, rowVars
<1>4. ASSUME NEW m \in Messages, NEW u \in Users, CallRead(r, m, u)
      PROVE  Begun(r) /\ \A s \in Requests \ {r} : Untouched(s)
  <2>1. at'[r] = now /\ \A s \in Requests \ {r} : at'[s] = at[s]
    BY <1>4 DEF CallRead, TypeOK
  <2>2. QED
    BY <1>1, <1>4, <2>1 DEF CallRead, Begun, Untouched, rowVars, TypeOK
<1>5. QED
  BY <1>2, <1>3, <1>4 DEF Call

\* The requests after any step: one of them has begun or moved, or none.
LEMMA RequestsMove ==
  ASSUME TypeOK, [Next]_vars
  PROVE  \/ \E r \in Requests :
              /\ \/ Call(r) /\ Begun(r)
                 \/ (Step(r) \/ CountFails(r) \/ Abort(r)) /\ Moves(r)
              /\ \A s \in Requests \ {r} : Untouched(s)
         \/ UNCHANGED reqVars
<1>1. CASE \E r \in Requests : Call(r) \/ Step(r) \/ CountFails(r) \/ Abort(r)
  BY <1>1, RequestStep, BeginMoves
<1>2. CASE ExpireMessages \/ Tick \/ UNCHANGED vars
  BY <1>2 DEF ExpireMessages, Tick, vars
<1>3. ASSUME NEW u \in Clients, Connect(u) \/ LinkDies(u) \/ Unregister(u)
      PROVE  UNCHANGED reqVars
  BY <1>3 DEF Connect, LinkDies, Unregister
<1>4. QED
  BY <1>1, <1>2, <1>3 DEF Next

LEMMA HandlingStep == TypeOK /\ Handling /\ [Next]_vars => Handling'
<1> SUFFICES ASSUME TypeOK, Handling, [Next]_vars, NEW s \in Requests PROVE Held(s)'
  BY DEF Handling
<1>1. stored \subseteq stored' /\ Held(s)
  BY Growing DEF Handling
<1>2. Untouched(s) => Held(s)'
  BY <1>1 DEF Held, Untouched
<1>3. ASSUME Begun(s) PROVE Held(s)'
  BY <1>3 DEF Begun, Held
<1>4. ASSUME Moves(s) PROVE Held(s)'
  <2>1. Cardinality(Unread(BadgeUser(s))) \in Counts
    BY UnreadCount DEF TypeOK
  <2>2. QED
    BY <1>1, <1>4, <2>1 DEF Held, Moves, Ended, Same
<1>5. UNCHANGED reqVars => Untouched(s)
  BY DEF reqVars, Untouched
<1>6. QED
  BY <1>2, <1>3, <1>4, <1>5, RequestsMove

\* Every statement keeps the types of the tables and of the requests.
THEOREM TypeCorrect == Spec => [](TypeOK /\ Handling)
<1>1. TypeOK /\ Handling /\ [Next]_vars => (TypeOK /\ Handling)'
  BY TypeStep, HandlingStep
<1>2. QED
  BY <1>1, InitInv, PTL DEF Spec
-----------------------------------------------------------------------------
(* Removal, delivery and the lifetime after the first read.                *)

\* A 204 and an announcement are given only for a row its statement found
\* not yet removed.
OnceInv == unsent \cup expired \subseteq deleted /\ RemovedOnce

LEMMA RemovedOnes == Spec => []OnceInv
<1>1. Init => OnceInv
  BY DEF Init, OnceInv, RemovedOnce
<1>2. ASSUME TypeOK, OnceInv, [Next]_vars PROVE OnceInv'
  <2>1. ASSUME NEW r \in Requests, SoftDelete(r) PROVE OnceInv'
    BY <1>2, <2>1 DEF SoftDelete, MayRemove, OnceInv, RemovedOnce
  <2>2. CASE ExpireMessages
    BY <1>2, <2>2 DEF ExpireMessages, DueRows, OnceInv, RemovedOnce
  <2>3. CASE UNCHANGED <<deleted, unsent, expired>>
    BY <1>2, <2>3 DEF OnceInv, RemovedOnce
  <2>4. QED
    BY <1>2, <2>1, <2>2, <2>3, Frame
<1>3. QED
  BY <1>1, <1>2, TypeCorrect, PTL DEF Spec

\* DELETE and the expirer never both claim the removal of a message.
THEOREM RemovalClaimedOnce == Spec => []RemovedOnce
<1>1. OnceInv => RemovedOnce
  BY DEF OnceInv
<1>2. QED
  BY <1>1, RemovedOnes, PTL

\* Whatever the connection does meanwhile, a message whose notification was
\* carried out is on a live connection or in the push queue.
THEOREM NewMessageArrives == Spec => []NewMessageReaches
<1>1. Init => NewMessageReaches
  BY DEF Init, NewMessageReaches
<1>2. ASSUME TypeOK, Handling, NewMessageReaches, [Next]_vars
      PROVE  NewMessageReaches'
  <2>1. ASSUME NEW r \in Requests, PushNew(r) PROVE NewMessageReaches'
    <3>1. msg[r] \in Messages /\ Receiver[msg[r]] \in Users
      BY <1>2, <2>1, LifecycleAssumption DEF PushNew, Handling, Held, TypeOK
    <3>2. conn[Receiver[msg[r]]] \in {"off", "open", "dead"}
      BY <1>2, <3>1 DEF TypeOK
    <3>3. QED
      BY <1>2, <2>1, <3>2
      DEF PushNew, PushNeeded, Registered, Reaches, NewMessageReaches, rowVars
  <2>2. ASSUME NEW r \in Requests, EnqueueOutbox(r) PROVE NewMessageReaches'
    BY <1>2, <2>2 DEF EnqueueOutbox, NewMessageReaches
  <2>3. CASE UNCHANGED <<told, unheard, notified, queued>>
    BY <1>2, <2>3 DEF NewMessageReaches
  <2>4. QED
    BY <1>2, <2>1, <2>2, <2>3, Frame
<1>3. QED
  BY <1>1, <1>2, TypeCorrect, PTL DEF Spec

\* The statements of MarkRead come in the order receipt, deadline, so a
\* request that is to write a deadline has recorded its own reading time,
\* and a stored deadline comes from such a request.
ReadFirst ==
  /\ \A r \in Requests :
       op[r] = "read" /\ pc[r] \in {"count", "badge", "timer", "tellSender",
                                   "tellReader"} =>
         /\ <<msg[r], usr[r]>> \in read
         /\ firstRead[msg[r]] # NoTime
         /\ firstRead[msg[r]] <= at[r]
  /\ \A m \in Messages : expiresAt[m] # NoTime =>
       /\ firstRead[m] # NoTime
       /\ firstRead[m] + TTL <= expiresAt[m]
       /\ \E u \in Users : <<m, u>> \in read
  /\ \A m \in expired : expiresAt[m] # NoTime /\ expiresAt[m] <= now

\* A recorded first read stays, or becomes earlier.
LEMMA FirstReadOnlyEarlier ==
  ASSUME TypeOK, Handling, [Next]_vars, NEW m \in Messages,
         firstRead[m] # NoTime
  PROVE  firstRead'[m] # NoTime /\ firstRead'[m] <= firstRead[m]
<1>1. ASSUME NEW r \in Requests, MarkReceipt(r)
      PROVE  firstRead'[m] # NoTime /\ firstRead'[m] <= firstRead[m]
  <2>1. at[r] \in Times /\ firstRead[m] \in Times
    BY <1>1 DEF MarkReceipt, Handling, Held, TypeOK
  <2>2. firstRead'[m] = IF m = msg[r] /\ at[r] < firstRead[m]
                          THEN at[r] ELSE firstRead[m]
    BY <1>1 DEF MarkReceipt, TypeOK
  <2>3. QED
    BY <2>1, <2>2 DEF Times, NoTime
<1>2. firstRead[m] \in Times
  BY DEF TypeOK
<1>3. UNCHANGED firstRead => firstRead'[m] # NoTime /\ firstRead'[m] <= firstRead[m]
  BY <1>2 DEF Times
<1>4. QED
  BY <1>1, <1>3, Frame

\* The clock does not run backwards.
LEMMA ClockRuns == TypeOK /\ [Next]_vars => now <= now'
<1> SUFFICES ASSUME TypeOK, [Next]_vars PROVE now <= now'
  OBVIOUS
<1>1. now \in Int
  BY DEF TypeOK, Times
<1>2. ASSUME NEW r \in Requests, Call(r) PROVE UNCHANGED now
  BY <1>2 DEF Call, Create, CallRead, CallDelete
<1>3. ASSUME NEW r \in Requests, Step(r) PROVE UNCHANGED now
  BY <1>3 DEF Step, Ensure, PushNew, EnqueueOutbox, GetByID, MarkReceipt,
     SoftDelete, CountUnread, SendBadge, SetExpiresAt, TellSender, TellReader
<1>4. ASSUME NEW r \in Requests, CountFails(r) \/ Abort(r) PROVE UNCHANGED now
  BY <1>4 DEF CountFails, Abort
<1>5. ASSUME NEW u \in Clients, Connect(u) \/ LinkDies(u) \/ Unregister(u)
      PROVE  UNCHANGED now
  BY <1>5 DEF Connect, LinkDies, Unregister
<1>6. CASE ExpireMessages \/ UNCHANGED vars
  BY <1>1, <1>6 DEF ExpireMessages, vars
<1>7. CASE Tick
  BY <1>1, <1>7 DEF Tick
<1>8. QED
  BY <1>1, <1>2, <1>3, <1>4, <1>5, <1>6, <1>7 DEF Next

\* Only startMessageTTL writes a deadline, and only where there is none.
LEMMA DeadlineOnce ==
  ASSUME TypeOK, Handling, [Next]_vars, NEW m \in Messages
  PROVE  \/ expiresAt'[m] = expiresAt[m]
         \/ \E r \in Requests :
              /\ pc[r] = "timer" /\ msg[r] = m /\ SetExpiresAt(r)
              /\ expiresAt[m] = NoTime /\ expiresAt'[m] = at[r] + TTL
BY Frame DEF SetExpiresAt, MayStart, Deadline, TypeOK

\* A late first reader never moves a deadline that is stored.
THEOREM DeadlineStands == Spec => DeadlineIsFinal
<1>1. ASSUME TypeOK, Handling, [Next]_vars
      PROVE  /\ \A m \in Messages :
                  expiresAt[m] # NoTime => expiresAt'[m] = expiresAt[m]
             /\ deleted \subseteq deleted'
             /\ read \subseteq read'
  BY <1>1, DeadlineOnce, Growing
<1>2. QED
  BY <1>1, TypeCorrect, PTL DEF Spec, DeadlineIsFinal

LEMMA ReadFirstStep ==
  TypeOK /\ Handling /\ ReadFirst /\ [Next]_vars => ReadFirst'
<1> SUFFICES ASSUME TypeOK, Handling, ReadFirst, [Next]_vars PROVE ReadFirst'
  OBVIOUS
<1> DEFINE Done(r) ==
      /\ <<msg[r], usr[r]>> \in read
      /\ firstRead[msg[r]] # NoTime
      /\ firstRead[msg[r]] <= at[r]
    After == {"count", "badge", "timer", "tellSender", "tellReader"}
<1>1. TypeOK' /\ Handling'
  BY TypeStep, HandlingStep
<1>2. ASSUME NEW s \in Requests, op'[s] = "read", pc'[s] \in After PROVE Done(s)'
  <2>1. ASSUME Same(s), op[s] = "read", pc[s] \in After PROVE Done(s)'
    <3>1. /\ msg[s] \in Messages /\ at[s] \in Times /\ Done(s)
      BY <2>1 DEF ReadFirst, Handling, Held, TypeOK
    <3>2. firstRead'[msg[s]] # NoTime /\ firstRead'[msg[s]] <= firstRead[msg[s]]
      BY <3>1, FirstReadOnlyEarlier
    <3>3. firstRead[msg[s]] \in Times /\ firstRead'[msg[s]] \in Times
      BY <1>1, <3>1, <3>2 DEF TypeOK
    <3>4. QED
      BY <2>1, <3>1, <3>2, <3>3, Growing DEF Same, Times
  <2>2. CASE Untouched(s)
    BY <1>2, <2>1, <2>2 DEF Untouched, Same
  <2>3. CASE Moves(s)
    <3>1. Same(s) /\ op[s] = "read"
      BY <1>2, <2>3 DEF Moves, Ended, Same
    <3>2. CASE pc[s] \in After
      BY <2>1, <3>1, <3>2
    <3>3. CASE pc[s] \notin After
      <4>1. pc[s] = "receipt" /\ MarkReceipt(s)
        BY <1>2, <2>3, <3>1, <3>3 DEF Moves, Ended, Handling, Held
      <4>2. msg[s] \in Messages /\ at[s] \in Times
        BY <4>1, <3>1 DEF Handling, Held, TypeOK
      <4>3. firstRead'[msg[s]] \in Times /\ firstRead'[msg[s]] <= at[s]
        BY <4>1, <4>2 DEF MarkReceipt, TypeOK, Times, NoTime
      <4>4. QED
        BY <3>1, <4>1, <4>3 DEF MarkReceipt, Same, Times, NoTime
    <3>4. QED
      BY <3>2, <3>3
  <2>4. CASE Begun(s)
    BY <1>2, <2>4 DEF Begun
  <2>5. UNCHANGED reqVars => Untouched(s)
    BY DEF reqVars, Untouched
  <2>6. QED
    BY <2>2, <2>3, <2>4, <2>5, RequestsMove
<1>3. ASSUME NEW m \in Messages, expiresAt'[m] # NoTime
      PROVE  /\ firstRead'[m] # NoTime
             /\ firstRead'[m] + TTL <= expiresAt'[m]
             /\ \E u \in Users : <<m, u>> \in read'
  <2>1. CASE expiresAt'[m] = expiresAt[m]
    <3>1. /\ firstRead[m] # NoTime /\ firstRead[m] + TTL <= expiresAt[m]
          /\ \E u \in Users : <<m, u>> \in read
      BY <1>3, <2>1 DEF ReadFirst
    <3>2. firstRead'[m] # NoTime /\ firstRead'[m] <= firstRead[m]
      BY <3>1, FirstReadOnlyEarlier
    <3>3. /\ firstRead[m] \in Int /\ firstRead'[m] \in Int
          /\ expiresAt[m] \in Int /\ TTL \in Int
      BY <1>1, LifecycleAssumption DEF TypeOK, Times, NoTime
    <3>4. QED
      BY <2>1, <3>1, <3>2, <3>3, Growing
  <2>2. CASE expiresAt'[m] # expiresAt[m]
    <3>1. PICK r \in Requests :
            /\ pc[r] = "timer" /\ msg[r] = m /\ SetExpiresAt(r)
            /\ expiresAt'[m] = at[r] + TTL
      BY <2>2, DeadlineOnce
    <3>2. Done(r) /\ at[r] \in Times /\ usr[r] \in Users
      BY <3>1 DEF ReadFirst, Handling, Held
    <3>3. UNCHANGED <<read, firstRead>>
      BY <3>1 DEF SetExpiresAt
    <3>4. firstRead[m] \in Times /\ TTL \in Nat
      BY <3>1, <3>2, LifecycleAssumption DEF TypeOK
    <3>5. QED
      BY <3>1, <3>2, <3>3, <3>4 DEF Times
  <2>3. QED
    BY <2>1, <2>2
<1>4. ASSUME NEW m \in expired'
      PROVE  expiresAt'[m] # NoTime /\ expiresAt'[m] <= now'
  <2>1. m \in Messages /\ now \in Int /\ now' \in Int /\ expiresAt[m] \in Int
    BY <1>1, <1>4 DEF TypeOK, Times, NoTime
  <2>2. expiresAt[m] # NoTime /\ expiresAt[m] <= now
    <3>1. ASSUME NEW r \in Requests, SoftDelete(r) PROVE UNCHANGED expired
      BY <3>1 DEF SoftDelete
    <3>2. m \in expired \/ (ExpireMessages /\ m \in DueRows)
      BY <1>4, <3>1, Frame DEF ExpireMessages
    <3>3. QED
      BY <3>2 DEF ReadFirst, DueRows
  <2>3. expiresAt'[m] = expiresAt[m]
    BY <2>1, <2>2, DeadlineOnce
  <2>4. QED
    BY <2>1, <2>2, <2>3, ClockRuns
<1>5. QED
  BY <1>2, <1>3, <1>4 DEF ReadFirst

LEMMA Recorded == Spec => []ReadFirst
<1>1. Init => ReadFirst
  BY DEF Init, ReadFirst
<1>2. QED
  BY <1>1, ReadFirstStep, TypeCorrect, PTL DEF Spec

\* However reads overlap, a message lives at least the TTL after the first
\* reading time that is recorded, and is removed by its deadline only.
THEOREM LifetimeKept == Spec => []FullLifetime
<1>1. TypeOK /\ ReadFirst => FullLifetime
  BY DEF TypeOK, ReadFirst, FullLifetime
<1>2. QED
  BY <1>1, Recorded, TypeCorrect, PTL

-----------------------------------------------------------------------------
(* What the clients were told.                                             *)

LEMMA ToldFrame ==
  ASSUME TypeOK, [Next]_vars
  PROVE  /\ \/ \E r \in Requests : TellSender(r) \/ TellReader(r)
            \/ \E u \in Clients : Connect(u)
            \/ UNCHANGED timer
         /\ \/ \E r \in Requests, m \in Messages : Create(r, m)
            \/ \E r \in Requests : SendBadge(r)
            \/ \E u \in Clients : Connect(u)
            \/ UNCHANGED badge
         /\ (\E r \in Requests : SendBadge(r)) \/ UNCHANGED outdated
         /\ \/ \E u \in Clients : Connect(u) \/ LinkDies(u) \/ Unregister(u)
            \/ UNCHANGED conn
         /\ \/ faults' = faults + 1
            \/ /\ UNCHANGED faults
               /\ \A r \in Requests : ~CountFails(r) /\ ~Abort(r)
<1> USE DEF rowVars, saidVars, sawVars
<1>1. ASSUME NEW r \in Requests, CountFails(r) \/ Abort(r)
      PROVE  faults' = faults + 1 /\ UNCHANGED <<timer, badge, conn, outdated>>
  BY <1>1 DEF CountFails, Abort
<1>2. ASSUME NEW r \in Requests, Call(r)
      PROVE  /\ (\E m \in Messages : Create(r, m)) \/ UNCHANGED badge
             /\ UNCHANGED <<timer, conn, faults, outdated>>
  BY <1>2 DEF Call, Create, CallRead, CallDelete
<1>3. ASSUME NEW r \in Requests,
             \/ Ensure(r) \/ PushNew(r) \/ EnqueueOutbox(r) \/ GetByID(r)
             \/ MarkReceipt(r) \/ SoftDelete(r) \/ CountUnread(r) \/ SetExpiresAt(r)
      PROVE  UNCHANGED <<timer, badge, conn, faults, outdated>>
  BY <1>3 DEF Ensure, PushNew, EnqueueOutbox, GetByID, MarkReceipt, SoftDelete,
     CountUnread, SetExpiresAt
<1>4. ASSUME NEW r \in Requests, SendBadge(r) PROVE UNCHANGED <<timer, conn, faults>>
  BY <1>4 DEF SendBadge
<1>5. ASSUME NEW r \in Requests, TellSender(r) \/ TellReader(r)
      PROVE  UNCHANGED <<badge, conn, faults, outdated>>
  BY <1>5 DEF TellSender, TellReader
<1>6. ASSUME NEW u \in Clients, Connect(u) \/ LinkDies(u) \/ Unregister(u)
      PROVE  Connect(u) \/ UNCHANGED <<timer, badge>>
  BY <1>6 DEF LinkDies, Unregister
<1>7. ASSUME NEW u \in Clients, Connect(u) \/ LinkDies(u) \/ Unregister(u)
      PROVE  UNCHANGED <<faults, outdated>>
  BY <1>7 DEF Connect, LinkDies, Unregister
<1>8. ASSUME ExpireMessages \/ Tick \/ UNCHANGED vars
      PROVE  UNCHANGED <<timer, badge, conn, faults, outdated>>
  BY <1>8 DEF ExpireMessages, Tick, vars
<1>9. UNCHANGED faults => \A r \in Requests : ~CountFails(r) /\ ~Abort(r)
  BY <1>1 DEF TypeOK
<1>10. QED
  BY <1>1, <1>2, <1>3, <1>4, <1>5, <1>6, <1>7, <1>8, <1>9 DEF Next, Step

\* The deadline a request announces is the stored one, unless it found it set;
\* a stored deadline no longer moves, so what a client was told stays right.
Timing ==
  /\ \A r \in Requests :
       pc[r] \in {"tellSender", "tellReader"} =>
         expiresAt[msg[r]] = at[r] + TTL \/ msg[r] \in raced
  /\ TimersTrue

LEMMA RacedGrows == ASSUME TypeOK, [Next]_vars PROVE raced \subseteq raced'
BY Frame DEF SetExpiresAt

LEMMA TimingStep == TypeOK /\ Handling /\ Timing /\ [Next]_vars => Timing'
<1> SUFFICES ASSUME TypeOK, Handling, Timing, [Next]_vars PROVE Timing'
  OBVIOUS
<1>1. ASSUME NEW s \in Requests, pc[s] \in {"tellSender", "tellReader"}
      PROVE  /\ msg[s] \in Messages /\ at[s] + TTL # NoTime
             /\ expiresAt'[msg[s]] = at[s] + TTL \/ msg[s] \in raced'
  <2>1. msg[s] \in Messages /\ at[s] + TTL \in Times
    BY <1>1, DeadlineType DEF Deadline
  <2>2. at[s] + TTL # NoTime
    BY <2>1 DEF Times, NoTime
  <2>3. expiresAt[msg[s]] = at[s] + TTL \/ msg[s] \in raced
    BY <1>1 DEF Timing
  <2>4. QED
    BY <2>1, <2>2, <2>3, DeadlineOnce, RacedGrows
<1>2. ASSUME NEW s \in Requests, pc'[s] \in {"tellSender", "tellReader"}
      PROVE  expiresAt'[msg'[s]] = at'[s] + TTL \/ msg'[s] \in raced'
  <2>1. CASE Begun(s)
    BY <1>2, <2>1 DEF Begun
  <2>2. CASE Moves(s)
    <3>1. Same(s) /\ (pc[s] = "tellSender" \/ SetExpiresAt(s))
      <4>1. ~Ended(s)
        BY <1>2 DEF Ended
      <4>2. Same(s) /\ pc[s] \in {"timer", "tellSender"}
        BY <1>2, <2>2, <4>1 DEF Moves
      <4>3. pc[s] = "timer" => SetExpiresAt(s)
        BY <1>2, <2>2, <4>1 DEF Moves
      <4>4. QED
        BY <4>2, <4>3
    <3>2. CASE pc[s] = "tellSender"
      BY <1>1, <3>1, <3>2 DEF Same
    <3>3. CASE SetExpiresAt(s)
      <4>1. msg[s] \in Messages
        BY <3>3 DEF SetExpiresAt, Handling, Held, TypeOK
      <4>2. expiresAt'[msg[s]] = at[s] + TTL \/ msg[s] \in raced'
        BY <3>3, <4>1 DEF SetExpiresAt, Deadline, TypeOK
      <4>3. QED
        BY <3>1, <4>2 DEF Same
    <3>4. QED
      BY <3>1, <3>2, <3>3
  <2>3. CASE Untouched(s)
    BY <1>1, <1>2, <2>3 DEF Untouched
  <2>4. UNCHANGED reqVars => Untouched(s)
    BY DEF reqVars, Untouched
  <2>5. QED
    BY <2>1, <2>2, <2>3, <2>4, RequestsMove
<1>3. ASSUME NEW u \in Users, NEW m \in Messages \ raced', timer'[u][m] # NoTime
      PROVE  timer'[u][m] = expiresAt'[m]
  <2>1. m \in Messages \ raced
    BY RacedGrows
  <2>2. ASSUME NEW r \in Requests, TellSender(r) \/ TellReader(r)
        PROVE  timer'[u][m] = expiresAt[m]
    <3>1. expiresAt[msg[r]] = at[r] + TTL \/ msg[r] \in raced
      BY <2>2 DEF TellSender, TellReader, Timing
    <3>2. PICK v : TellTimer(r, v)
      BY <2>2 DEF TellSender, TellReader
    <3>3. timer'[u][m] = timer[u][m] \/ (m = msg[r] /\ timer'[u][m] = at[r] + TTL)
      BY <3>2 DEF TellTimer, Deadline, TypeOK
    <3>4. QED
      BY <1>3, <2>1, <3>1, <3>3 DEF Timing, TimersTrue
  <2>3. ASSUME NEW v \in Clients, Connect(v) PROVE timer'[u][m] = expiresAt[m]
    <3>1. timer'[u] = timer[u] \/ timer'[u] = [n \in Messages |-> NoTime]
      BY <2>3 DEF Connect, TypeOK
    <3>2. QED
      BY <1>3, <2>1, <3>1 DEF Timing, TimersTrue
  <2>4. ASSUME UNCHANGED timer PROVE timer'[u][m] = expiresAt[m]
    BY <1>3, <2>1, <2>4 DEF Timing, TimersTrue
  <2>5. timer'[u][m] = expiresAt[m]
    BY <2>2, <2>3, <2>4, ToldFrame
  <2>6. QED
    BY <1>3, <2>5, DeadlineOnce
<1>4. QED
  BY <1>2, <1>3 DEF Timing, TimersTrue

\* However requests overlap, fail or are cut off, the deadlines that clients
\* show are the stored ones, but for messages two requests found unread at once.
THEOREM TimersToldTrue == Spec => []TimersTrue
<1>1. Init => Timing
  BY DEF Init, Timing, TimersTrue
<1>2. Timing => TimersTrue
  BY DEF Timing
<1>3. QED
  BY <1>1, <1>2, TimingStep, TypeCorrect, PTL DEF Spec

\* The circumstances under which BadgesTrue promises anything.
Quiet ==
  /\ faults = 0
  /\ \A p \in read : p[2] = Receiver[p[1]]

\* The badge of a connected client is right, or a request is about to tell it.
Badging ==
  Quiet =>
    \A u \in Users \ outdated :
      conn[u] = "open" /\ badge[u] # NoCount =>
        \/ badge[u] = Cardinality(Unread(u))
        \/ \E r \in Requests : pc[r] \in {"count", "badge"} /\ BadgeUser(r) = u

LEMMA QuietBefore ==
  ASSUME TypeOK, [Next]_vars, Quiet'
  PROVE  /\ Quiet
         /\ \A r \in Requests : ~CountFails(r) /\ ~Abort(r)
<1>1. faults = 0 /\ faults' = 0
  BY ToldFrame DEF Quiet, TypeOK
<1>2. \A r \in Requests : ~CountFails(r) /\ ~Abort(r)
  BY <1>1, ToldFrame
<1>3. QED
  BY <1>1, <1>2, Growing DEF Quiet

\* What is read only by receivers is read by its receiver once it has a deadline.
LEMMA DueAreRead ==
  ASSUME TypeOK, ReadFirst, Quiet, NEW m \in DueRows
  PROVE  <<m, Receiver[m]>> \in read
<1>1. m \in Messages /\ expiresAt[m] # NoTime
  BY DEF DueRows, TypeOK
<1>2. PICK u \in Users : <<m, u>> \in read
  BY <1>1 DEF ReadFirst
<1>3. u = Receiver[m]
  BY <1>2 DEF Quiet
<1>4. QED
  BY <1>2, <1>3

\* The unread count of a user changes with a new message, whose sending makes
\* the badge outdated, and with a step after which the request counts anew.
LEMMA UnreadChanges ==
  ASSUME TypeOK, Handling, ReadFirst, Quiet, [Next]_vars, NEW u \in Users
  PROVE  \/ Unread(u)' = Unread(u)
         \/ \E r \in Requests, m \in Messages : Create(r, m) /\ Receiver[m] = u
         \/ \E r \in Requests : /\ pc[r] \in {"receipt", "delete"}
                               /\ pc'[r] = "count" /\ BadgeUser(r)' = u
<1>1. ASSUME NEW r \in Requests, NEW m \in Messages, Create(r, m), Receiver[m] # u
      PROVE  Unread(u)' = Unread(u)
  BY <1>1 DEF Create, Unread
<1>2. ASSUME NEW r \in Requests, MarkReceipt(r)
      PROVE  \/ Unread(u)' = Unread(u)
             \/ pc[r] = "receipt" /\ pc'[r] = "count" /\ BadgeUser(r)' = u
  <2>1. CASE usr[r] = u
    <3>1. pc[r] = "receipt" /\ op[r] = "read"
      BY <1>2 DEF MarkReceipt, Handling, Held
    <3>2. pc'[r] = "count" /\ Same(r)
      BY <1>2, GoOnMoves DEF MarkReceipt
    <3>3. QED
      BY <2>1, <3>1, <3>2 DEF BadgeUser, Same
  <2>2. CASE usr[r] # u
    BY <1>2, <2>2 DEF MarkReceipt, Unread
  <2>3. QED
    BY <2>1, <2>2
<1>3. ASSUME NEW r \in Requests, SoftDelete(r)
      PROVE  \/ Unread(u)' = Unread(u)
             \/ pc[r] = "delete" /\ pc'[r] = "count" /\ BadgeUser(r)' = u
  <2>1. CASE UNCHANGED deleted
    BY <1>3, <2>1 DEF SoftDelete, Unread
  <2>2. CASE GoOn(r, "count") /\ deleted' = deleted \cup {msg[r]}
    <3>1. pc[r] = "delete" /\ pc'[r] = "count" /\ Same(r) /\ op[r] = "delete"
      BY <1>3, <2>2, GoOnMoves DEF SoftDelete, Handling, Held
    <3>2. BadgeUser(r)' = Receiver[msg[r]]
      BY <3>1 DEF BadgeUser, Same
    <3>3. Receiver[msg[r]] # u => Unread(u)' = Unread(u)
      BY <1>3, <2>2 DEF SoftDelete, Unread
    <3>4. QED
      BY <3>1, <3>2, <3>3
  <2>3. QED
    BY <1>3, <2>1, <2>2 DEF SoftDelete
<1>4. ASSUME ExpireMessages PROVE Unread(u)' = Unread(u)
  <2>1. \A m \in DueRows : m \notin Unread(u)
    BY DueAreRead DEF Unread
  <2>2. UNCHANGED <<stored, read>> /\ \E E \in SUBSET DueRows : deleted' = deleted \cup E
    BY <1>4 DEF ExpireMessages
  <2>3. QED
    BY <2>1, <2>2 DEF Unread
<1>5. UNCHANGED <<stored, deleted, read>> => Unread(u)' = Unread(u)
  BY DEF Unread
<1>6. QED
  BY <1>1, <1>2, <1>3, <1>4, <1>5, Frame

LEMMA BadgingStep ==
  TypeOK /\ Handling /\ ReadFirst /\ Badging /\ [Next]_vars => Badging'
<1> SUFFICES ASSUME TypeOK, Handling, ReadFirst, Badging, [Next]_vars, Quiet',
                    NEW u \in Users, u \notin outdated',
                    conn'[u] = "open", badge'[u] # NoCount
             PROVE  \/ badge'[u] = Cardinality(Unread(u)')
                    \/ \E r \in Requests :
                         pc'[r] \in {"count", "badge"} /\ BadgeUser(r)' = u
  BY DEF Badging, Unread
<1>1. /\ Quiet
      /\ \A r \in Requests : ~CountFails(r) /\ ~Abort(r)
  BY QuietBefore
<1>2. conn[u] = "open"
  <2>1. ASSUME NEW v \in Clients, Connect(v) \/ LinkDies(v) \/ Unregister(v)
        PROVE  conn[u] = "open"
    BY <2>1 DEF Connect, LinkDies, Unregister, TypeOK
  <2>2. QED
    BY <2>1, ToldFrame
<1>3. ASSUME NEW r \in Requests, SendBadge(r), BadgeUser(r) = u
      PROVE  badge'[u] = Cardinality(Unread(u)')
  <2>1. badge'[u] = count[r] /\ count[r] = Cardinality(Unread(u))
    BY <1>2, <1>3 DEF SendBadge, Reaches, TypeOK
  <2>2. Unread(u)' = Unread(u)
    BY <1>3 DEF SendBadge, rowVars, Unread
  <2>3. QED
    BY <2>1, <2>2
<1>4. CASE \A r \in Requests : SendBadge(r) => BadgeUser(r) # u
  <2>1. u \notin outdated
    <3>1. ASSUME NEW r \in Requests, SendBadge(r) PROVE u \notin outdated
      BY <1>4, <3>1 DEF SendBadge
    <3>2. QED
      BY <3>1, ToldFrame
  <2>2. badge'[u] = badge[u]
    <3>1. ASSUME NEW r \in Requests, NEW m \in Messages, Create(r, m)
          PROVE  badge'[u] = badge[u]
      BY <3>1 DEF Create, TypeOK
    <3>2. ASSUME NEW v \in Clients, Connect(v) PROVE badge'[u] = badge[u]
      BY <3>2 DEF Connect, TypeOK
    <3>3. ASSUME NEW r \in Requests, SendBadge(r) PROVE badge'[u] = badge[u]
      BY <1>4, <3>3 DEF SendBadge, TypeOK
    <3>4. QED
      BY <3>1, <3>2, <3>3, ToldFrame
  <2>3. CASE badge[u] = Cardinality(Unread(u))
    <3>1. ASSUME NEW r \in Requests, NEW m \in Messages, Create(r, m), Receiver[m] = u
          PROVE  FALSE
      BY <3>1 DEF Create, TypeOK
    <3>2. QED
      BY <1>1, <2>2, <2>3, <3>1, UnreadChanges
  <2>4. ASSUME NEW r \in Requests, pc[r] \in {"count", "badge"}, BadgeUser(r) = u
        PROVE  pc'[r] \in {"count", "badge"} /\ BadgeUser(r)' = u
    <3>1. Step(r) => CountUnread(r) \/ SendBadge(r)
      BY <2>4 DEF Step, Ensure, PushNew, EnqueueOutbox, GetByID, MarkReceipt,
         SoftDelete, SetExpiresAt, TellSender, TellReader
    <3>2. ~Begun(r)
      BY <2>4 DEF Begun
    <3>3. UNCHANGED reqVars => Untouched(r)
      BY DEF reqVars, Untouched
    <3>4. Untouched(r) \/ CountUnread(r)
      BY <1>1, <1>4, <2>4, <3>1, <3>2, <3>3, RequestsMove
    <3>5. CASE Untouched(r)
      BY <2>4, <3>5 DEF BadgeUser, Untouched
    <3>6. CASE CountUnread(r)
      <4>1. pc'[r] = "badge" /\ Same(r)
        BY <3>6, GoOnMoves DEF CountUnread
      <4>2. QED
        BY <2>4, <4>1 DEF BadgeUser, Same
    <3>7. QED
      BY <3>4, <3>5, <3>6
  <2>5. QED
    BY <1>1, <1>2, <2>1, <2>2, <2>3, <2>4 DEF Badging
<1>5. QED
  BY <1>3, <1>4

\* While no statement has failed and only receivers have marked messages, a
\* client at rest shows its unread count, unless it was last told a count that
\* was already outdated.
THEOREM BadgesToldTrue == Spec => []BadgesTrue
<1>1. Init => Badging
  BY DEF Init, Badging
<1>2. Badging => BadgesTrue
  BY DEF Badging, Quiet, BadgesTrue, AtRest
<1>3. QED
  BY <1>1, <1>2, BadgingStep, Recorded, TypeCorrect, PTL DEF Spec
-----------------------------------------------------------------------------
(* The life of a message.                                                  *)

\* The reading time of a request is not ahead of the clock.
NotAhead == \A r \in Requests : at[r] <= now

LEMMA NotAheadStep == TypeOK /\ Handling /\ NotAhead /\ [Next]_vars => NotAhead'
<1> SUFFICES ASSUME TypeOK, Handling, NotAhead, [Next]_vars, NEW s \in Requests
             PROVE  at'[s] <= now'
  BY DEF NotAhead
<1>1. /\ now <= now' /\ at[s] <= now
      /\ now \in Int /\ now' \in Int /\ at[s] \in Int /\ NoTime <= now
  BY ClockRuns, TypeStep DEF NotAhead, TypeOK, Times, NoTime
<1>2. at'[s] \in {at[s], now, NoTime}
  <2> USE DEF rowVars, saidVars, sawVars, TypeOK
  <2>1. ASSUME NEW r \in Requests, Call(r) PROVE at'[s] \in {at[s], now}
    BY <2>1 DEF Call, Create, CallRead, CallDelete
  <2>2. ASSUME NEW r \in Requests, Step(r) \/ CountFails(r) \/ Abort(r)
        PROVE  at'[s] \in {at[s], NoTime}
    <3>1. UNCHANGED at \/ at' = [at EXCEPT ![r] = NoTime]
      BY <2>2 DEF Step, CountFails, Abort, Ensure, PushNew, EnqueueOutbox, GetByID,
         MarkReceipt, SoftDelete, CountUnread, SendBadge, AfterBadge, SetExpiresAt,
         TellSender, TellReader, GoOn, Finish
    <3>2. QED
      BY <3>1
  <2>3. ASSUME NEW u \in Clients, Connect(u) \/ LinkDies(u) \/ Unregister(u)
        PROVE  UNCHANGED at
    BY <2>3 DEF Connect, LinkDies, Unregister, reqVars
  <2>4. CASE ExpireMessages \/ Tick \/ UNCHANGED vars
    BY <2>4 DEF ExpireMessages, Tick, vars, reqVars
  <2>5. QED
    BY <2>1, <2>2, <2>3, <2>4 DEF Next
<1>3. QED
  BY <1>1, <1>2 DEF NoTime

LifeInv == TypeOK /\ Handling /\ OnceInv /\ ReadFirst /\ NotAhead

LEMMA InitRefines == Init => Life!Init
BY DEF Init, Life!Init, Fate, NoTime, Life!NoTime

\* What leaves the tables and the clock alone leaves the lives alone.
LEMMA SameLives ==
  ASSUME UNCHANGED <<stored, deleted, unsent, read, firstRead, expiresAt, now>>
  PROVE  UNCHANGED Life!vars
BY DEF Life!vars, Fate

\* The fates of the messages in S change, and nothing else does.
LEMMA FatesMove ==
  ASSUME NEW S, NEW from, NEW to,
         \A m \in S : Fate(m) = from /\ Fate(m)' = to,
         \A m \in Messages \ S : Fate(m)' = Fate(m),
         UNCHANGED <<read, firstRead, expiresAt, now>>,
         S \subseteq Messages
  PROVE  Life!Move(S, from, to)
BY DEF Life!Move

LEMMA CreateLives ==
  ASSUME LifeInv, NEW r \in Requests, NEW m \in Messages, Create(r, m)
  PROVE  Life!Next
<1>1. /\ Fate(m) = "absent" /\ Fate(m)' = "kept"
      /\ \A n \in Messages \ {m} : Fate(n)' = Fate(n)
  BY DEF LifeInv, TypeOK, Create, Fate
<1>2. UNCHANGED <<read, firstRead, expiresAt, now>>
  BY DEF Create
<1>3. Life!Move({m}, "absent", "kept")
  BY <1>1, <1>2, FatesMove
<1>4. QED
  BY <1>3 DEF Life!Next, Life!Post

LEMMA DeleteLives ==
  ASSUME LifeInv, NEW r \in Requests, SoftDelete(r)
  PROVE  Life!Next \/ UNCHANGED Life!vars
<1>1. UNCHANGED <<stored, read, firstRead, expiresAt, now>>
  BY DEF SoftDelete
<1>2. CASE MayRemove(msg[r])
  <2>1. msg[r] \in stored /\ msg[r] \in Messages
    BY DEF LifeInv, Handling, Held, SoftDelete, TypeOK
  <2>2. /\ deleted' = deleted \cup {msg[r]} /\ unsent' = unsent \cup {msg[r]}
        /\ msg[r] \notin deleted
    BY <1>2 DEF SoftDelete, MayRemove
  <2>3. PICK m \in Messages : m = msg[r]
    BY <2>1
  <2>4. /\ Fate(m) = "kept" /\ Fate(m)' = "withdrawn"
        /\ \A n \in Messages \ {m} : Fate(n)' = Fate(n)
    BY <1>1, <2>1, <2>2, <2>3 DEF Fate
  <2>5. Life!Move({m}, "kept", "withdrawn")
    BY <1>1, <2>4, FatesMove
  <2>6. QED
    BY <2>5 DEF Life!Next, Life!Withdraw
<1>3. CASE ~MayRemove(msg[r])
  BY <1>1, <1>3, SameLives DEF SoftDelete
<1>4. QED
  BY <1>2, <1>3

LEMMA ExpiryLives ==
  ASSUME LifeInv, ExpireMessages
  PROVE  Life!Next
<1>1. PICK E \in SUBSET DueRows :
        /\ deleted' = deleted \cup E
        /\ UNCHANGED <<stored, unsent, read, firstRead, expiresAt, now>>
  BY DEF ExpireMessages
<1>2. /\ E \subseteq Messages
      /\ \A m \in E : /\ m \in stored /\ m \notin deleted /\ m \notin unsent
                      /\ expiresAt[m] # NoTime /\ expiresAt[m] <= now
  BY <1>1 DEF LifeInv, TypeOK, OnceInv, DueRows
<1>3. /\ \A m \in E : Fate(m) = "kept" /\ Fate(m)' = "expired"
      /\ \A m \in Messages \ E : Fate(m)' = Fate(m)
  BY <1>1, <1>2 DEF Fate
<1>4. Life!Move(E, "kept", "expired")
  BY <1>1, <1>2, <1>3, FatesMove
<1>5. Life!Expire(E)
  BY <1>2, <1>4 DEF Life!Expire, Life!NoTime, NoTime
<1>6. QED
  BY <1>2, <1>5 DEF Life!Next

LEMMA ReceiptLives ==
  ASSUME LifeInv, NEW r \in Requests, MarkReceipt(r)
  PROVE  Life!Next
<1>1. /\ msg[r] \in stored /\ msg[r] \in Messages
      /\ usr[r] \in Users
      /\ at[r] \in Nat /\ at[r] <= now /\ now \in Nat
  BY DEF LifeInv, TypeOK, Handling, Held, NotAhead, MarkReceipt, Times
<1>2. Fate(msg[r]) # "absent" /\ \A m \in Messages : Fate(m)' = Fate(m)
  BY <1>1 DEF Fate, MarkReceipt
<1>3. Life!Read(msg[r], usr[r], at[r])
  BY <1>1, <1>2 DEF Life!Read, MarkReceipt, Life!NoTime, NoTime
<1>4. QED
  BY <1>1, <1>3 DEF Life!Next

LEMMA DeadlineLives ==
  ASSUME LifeInv, NEW r \in Requests, SetExpiresAt(r)
  PROVE  Life!Next \/ UNCHANGED Life!vars
<1>1. UNCHANGED <<stored, deleted, unsent, read, firstRead, now>>
  BY DEF SetExpiresAt
<1>2. CASE MayStart(msg[r])
  <2>1. /\ msg[r] \in Messages /\ TTL \in Nat
        /\ firstRead[msg[r]] \in Nat /\ firstRead[msg[r]] <= at[r]
        /\ at[r] \in Nat /\ at[r] <= now /\ now \in Nat
    <3>1. pc[r] = "timer" /\ TTL \in Nat
      BY LifecycleAssumption DEF SetExpiresAt
    <3>2. msg[r] \in Messages /\ op[r] = "read" /\ at[r] \in Times /\ now \in Times
      BY <3>1 DEF LifeInv, TypeOK, Handling, Held
    <3>3. firstRead[msg[r]] # NoTime /\ firstRead[msg[r]] <= at[r] /\ at[r] <= now
      BY <3>1, <3>2 DEF LifeInv, ReadFirst, NotAhead
    <3>4. firstRead[msg[r]] \in Times
      BY <3>2, <3>3 DEF LifeInv, TypeOK
    <3>5. QED
      BY <3>1, <3>2, <3>3, <3>4 DEF Times
  <2>2. /\ at[r] + TTL \in (firstRead[msg[r]] + TTL)..(now + TTL)
        /\ at[r] + TTL \in 0..(now + TTL)
    BY <2>1
  <2>3. /\ expiresAt' = [expiresAt EXCEPT ![msg[r]] = at[r] + TTL]
        /\ expiresAt[msg[r]] = NoTime
    BY <1>2 DEF SetExpiresAt, MayStart, Deadline
  <2>4. \A m \in Messages : Fate(m)' = Fate(m)
    BY <1>1 DEF Fate
  <2>5. Life!Date(msg[r], at[r] + TTL)
    BY <1>1, <2>1, <2>2, <2>3, <2>4 DEF Life!Date, Life!NoTime, NoTime
  <2>6. QED
    BY <2>1, <2>2, <2>5 DEF Life!Next
<1>3. CASE ~MayStart(msg[r])
  BY <1>1, <1>3, SameLives DEF SetExpiresAt
<1>4. QED
  BY <1>2, <1>3

\* A step is a step of the message's life, or does not touch it.
LEMMA StepRefines ==
  ASSUME LifeInv, [Next]_vars
  PROVE  [Life!Next]_(Life!vars)
<1> USE DEF rowVars, saidVars, sawVars
<1>1. ASSUME NEW r \in Requests, Call(r) PROVE [Life!Next]_(Life!vars)
  <2>1. ASSUME NEW m \in Messages, Create(r, m) PROVE Life!Next
    BY <2>1, CreateLives
  <2>2. ASSUME NEW m \in Messages, NEW u \in Users, CallRead(r, m, u)
        PROVE  UNCHANGED Life!vars
    BY <2>2, SameLives DEF CallRead
  <2>3. ASSUME NEW m \in Messages, CallDelete(r, m) PROVE UNCHANGED Life!vars
    BY <2>3, SameLives DEF CallDelete
  <2>4. QED
    BY <1>1, <2>1, <2>2, <2>3 DEF Call
<1>2. ASSUME NEW r \in Requests, MarkReceipt(r) \/ SoftDelete(r) \/ SetExpiresAt(r)
      PROVE  [Life!Next]_(Life!vars)
  BY <1>2, ReceiptLives, DeleteLives, DeadlineLives
<1>3. ASSUME NEW r \in Requests,
             \/ Ensure(r) \/ PushNew(r) \/ EnqueueOutbox(r) \/ GetByID(r)
             \/ CountUnread(r) \/ SendBadge(r) \/ TellSender(r) \/ TellReader(r)
             \/ CountFails(r) \/ Abort(r)
      PROVE  UNCHANGED Life!vars
  BY <1>3, SameLives DEF Ensure, PushNew, EnqueueOutbox, GetByID, CountUnread,
     SendBadge, TellSender, TellReader, CountFails, Abort
<1>4. CASE ExpireMessages
  BY <1>4, ExpiryLives
<1>5. ASSUME NEW u \in Clients, Connect(u) \/ LinkDies(u) \/ Unregister(u)
      PROVE  UNCHANGED Life!vars
  BY <1>5, SameLives DEF Connect, LinkDies, Unregister
<1>6. CASE Tick
  <2>1. \A m \in Messages : Fate(m)' = Fate(m)
    BY <1>6 DEF Tick, Fate
  <2>2. QED
    BY <1>6, <2>1 DEF Tick, Life!Next, Life!Tick
<1>7. CASE UNCHANGED vars
  BY <1>7, SameLives DEF vars
<1>8. QED
  BY <1>1, <1>2, <1>3, <1>4, <1>5, <1>6, <1>7 DEF Next, Step

\* The chat keeps its promise about the life of a message, whatever requests
\* overlap, fail or are cut off, and however large the batches of the expirer.
THEOREM LifecycleImplementsLife == Spec => ImplementsLife
<1>1. Init => NotAhead
  BY DEF Init, NotAhead, NoTime
<1>2. TypeOK /\ Handling /\ OnceInv /\ ReadFirst /\ NotAhead /\ [Next]_vars
      => [Life!Next]_(Life!vars)
  BY StepRefines DEF LifeInv
<1>3. QED
  BY <1>1, <1>2, InitRefines, NotAheadStep, TypeCorrect, RemovedOnes, Recorded,
     PTL DEF Spec, ImplementsLife, Life!Spec
=============================================================================
