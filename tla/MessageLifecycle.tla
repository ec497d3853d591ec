--------------------------- MODULE MessageLifecycle ---------------------------
(***************************************************************************)
(* A message of the chat from POST to its removal: the tables messages and *)
(* message_receipts, the handlers of internal/services/chat/service.go     *)
(* that send, read and delete it, the WebSocket hub they notify, and the   *)
(* statement by which message-expirer removes what has timed out.          *)
(*                                                                         *)
(* Every SQL statement and every Hub.Send is one step of a request, and    *)
(* requests interleave.  message_delivered and message_read carry nothing  *)
(* a property looks at and leave with the step before them; the badge_sync *)
(* task is refused by the table (NotificationOutbox) and changes nothing.  *)
(***************************************************************************)
EXTENDS Integers, FiniteSets

CONSTANTS
  Users,
  Messages,
  Sender,      \* Sender[m]: sender_id
  Receiver,    \* Receiver[m]: the other participant of the dialog
  Requests,    \* HTTP requests main-service handles at the same time
  Clients,     \* users who ever open a WebSocket
  NoMessage, NoUser,
  TTL,         \* chat.message_ttl_seconds
  BatchSize,   \* expirer.batch_size
  MaxTime,     \* bound: the clock stops here
  MaxFaults    \* bound: failed statements and killed requests in a run

ASSUME LifecycleAssumption ==
  /\ IsFiniteSet(Messages)
  /\ NoMessage \notin Messages
  /\ NoUser \notin Users
  /\ Sender \in [Messages -> Users]
  /\ Receiver \in [Messages -> Users]
  /\ \A m \in Messages : Sender[m] # Receiver[m]
  /\ Clients \subseteq Users
  /\ TTL \in Nat
  /\ BatchSize \in Nat \ {0}
  /\ MaxTime \in Nat
  /\ MaxFaults \in Nat

NoTime  == -1
NoCount == -1
Times   == 0..MaxTime
Counts  == 0..Cardinality(Messages)

VARIABLES
  stored,    \* rows of messages
  expiresAt, \* expiresAt[m], NoTime for NULL
  deleted,   \* rows with deleted_at
  read,      \* <<m, u>>: the receipt of m for u has a read_at
  conn,      \* conn[u]: "off", "open", or "dead": registered but broken
  queued,    \* messages with a push task for the receiver
  now,       \* the clock
  pc,        \* pc[r]: the next step of request r, "idle" when it is free
  op,        \* op[r]: the operation it performs
  msg,       \* msg[r]: its message
  usr,       \* usr[r]: its user
  at,        \* at[r]: readAt, the time MarkRead was called
  fresh,     \* fresh[r]: GetByID returned ExpiresAt = nil to it
  count,     \* count[r]: what CountUnread returned to it
  raced,     \* messages whose second first read found expires_at set
  outdated,  \* users whose last badge_updated carried an outdated count
  faults,    \* failed statements and killed requests so far
  told,      \* <<m, u>>: message_new of m was written to a live connection
  unheard,   \* messages whose message_new was written to a dead one
  notified,  \* messages whose notifyNewMessage was carried out
  timer,     \* timer[u][m]: expires_at of the last message_ttl_started
  badge,     \* badge[u]: the last badge_updated, NoCount when outdated
  firstRead, \* firstRead[m]: the earliest readAt of a receipt
  unsent,    \* messages whose deletion was answered 204
  expired    \* messages the expirer removed

rowVars  == <<stored, expiresAt, deleted, read, queued>>
reqVars  == <<pc, op, msg, usr, at, fresh, count>>
sawVars  == <<raced, outdated>>
saidVars == <<told, unheard, notified, timer, badge, firstRead, unsent,
              expired, sawVars>>
vars     == <<rowVars, conn, now, reqVars, faults, saidVars>>

TypeOK ==
  /\ stored \subseteq Messages
  /\ expiresAt \in [Messages -> {NoTime} \cup Times]
  /\ deleted \subseteq stored
  /\ read \subseteq stored \X Users
  /\ conn \in [Users -> {"off", "open", "dead"}]
  /\ queued \subseteq stored
  /\ now \in Times
  /\ pc \in [Requests -> {"idle", "ensure", "push", "enqueue", "find",
                          "delete", "receipt", "count", "badge", "timer",
                          "tellSender", "tellReader"}]
  /\ op \in [Requests -> {"none", "send", "read", "delete"}]
  /\ msg \in [Requests -> Messages \cup {NoMessage}]
  /\ usr \in [Requests -> Users \cup {NoUser}]
  /\ at \in [Requests -> {NoTime} \cup Times]
  /\ fresh \in [Requests -> BOOLEAN]
  /\ count \in [Requests -> {NoCount} \cup Counts]
  /\ raced \subseteq stored
  /\ outdated \subseteq Users
  /\ faults \in 0..MaxFaults
  /\ told \subseteq stored \X Users
  /\ unheard \subseteq stored
  /\ notified \subseteq stored
  /\ timer \in [Users -> [Messages -> {NoTime} \cup Times]]
  /\ badge \in [Users -> {NoCount} \cup Counts]
  /\ firstRead \in [Messages -> {NoTime} \cup Times]
  /\ unsent \subseteq stored
  /\ expired \subseteq stored

Init ==
  /\ stored = {}
  /\ expiresAt = [m \in Messages |-> NoTime]
  /\ deleted = {}
  /\ read = {}
  /\ conn = [u \in Users |-> "off"]
  /\ queued = {}
  /\ now = 0
  /\ pc = [r \in Requests |-> "idle"]
  /\ op = [r \in Requests |-> "none"]
  /\ msg = [r \in Requests |-> NoMessage]
  /\ usr = [r \in Requests |-> NoUser]
  /\ at = [r \in Requests |-> NoTime]
  /\ fresh = [r \in Requests |-> FALSE]
  /\ count = [r \in Requests |-> NoCount]
  /\ raced = {}
  /\ outdated = {}
  /\ faults = 0
  /\ told = {}
  /\ unheard = {}
  /\ notified = {}
  /\ timer = [u \in Users |-> [m \in Messages |-> NoTime]]
  /\ badge = [u \in Users |-> NoCount]
  /\ firstRead = [m \in Messages |-> NoTime]
  /\ unsent = {}
  /\ expired = {}
-----------------------------------------------------------------------------
(* Requests, the hub and the unread count.                                 *)

AtRest == \A r \in Requests : pc[r] = "idle"

Begin(r, what, step, m, u) ==
  /\ pc[r] = "idle"
  /\ pc' = [pc EXCEPT ![r] = step]
  /\ op' = [op EXCEPT ![r] = what]
  /\ msg' = [msg EXCEPT ![r] = m]
  /\ usr' = [usr EXCEPT ![r] = u]

GoOn(r, step) ==
  /\ pc' = [pc EXCEPT ![r] = step]
  /\ UNCHANGED <<op, msg, usr, at>>

Finish(r) ==
  /\ pc' = [pc EXCEPT ![r] = "idle"]
  /\ op' = [op EXCEPT ![r] = "none"]
  /\ msg' = [msg EXCEPT ![r] = NoMessage]
  /\ usr' = [usr EXCEPT ![r] = NoUser]
  /\ at' = [at EXCEPT ![r] = NoTime]
  /\ fresh' = [fresh EXCEPT ![r] = FALSE]
  /\ count' = [count EXCEPT ![r] = NoCount]

\* Hub.Send answers whether the user is registered; a write to a broken
\* connection is only logged.
Registered(u) == conn[u] # "off"
Reaches(u)    == conn[u] = "open"

\* The messages CountUnread counts.
Unread(u) ==
  {m \in stored \ deleted : Receiver[m] = u /\ <<m, u>> \notin read}
-----------------------------------------------------------------------------
(* SendMessage.                                                            *)

\* messages.Create.  The receiver's badge was told without this message.
Create(r, m) ==
  /\ m \notin stored
  /\ stored' = stored \cup {m}
  /\ badge' = [badge EXCEPT ![Receiver[m]] = NoCount]
  /\ Begin(r, "send", "ensure", m, Sender[m])
  /\ UNCHANGED <<expiresAt, deleted, read, queued, conn, now, at, fresh, count,
                 faults, told, unheard, notified, timer, firstRead, unsent,
                 expired, sawVars>>

\* receipts.Ensure: a row without read_at, which counts like no row.
Ensure(r) ==
  /\ pc[r] = "ensure"
  /\ GoOn(r, "push")
  /\ UNCHANGED <<rowVars, conn, now, fresh, count, faults, saidVars>>

\* Mutant of PushNeeded: the answer of Hub.Send is not looked at.
NeverNeeded(u) == FALSE

PushNeeded(u) == ~Registered(u)

\* notifyNewMessage up to the answer of Hub.Send.
PushNew(r) ==
  /\ pc[r] = "push"
  /\ LET m == msg[r]
         u == Receiver[m]
     IN  /\ told' = IF Reaches(u) THEN told \cup {<<m, u>>} ELSE told
         /\ unheard' = IF conn[u] = "dead" THEN unheard \cup {m} ELSE unheard
         /\ IF PushNeeded(u)
              THEN /\ GoOn(r, "enqueue")
                   /\ UNCHANGED <<fresh, count, notified>>
              ELSE /\ Finish(r)
                   /\ notified' = notified \cup {m}
  /\ UNCHANGED <<rowVars, conn, now, faults, timer, badge, firstRead, unsent,
                 expired, sawVars>>

\* enqueueOutbox; its unread count is computed again by the worker.
EnqueueOutbox(r) ==
  /\ pc[r] = "enqueue"
  /\ queued' = queued \cup {msg[r]}
  /\ notified' = notified \cup {msg[r]}
  /\ Finish(r)
  /\ UNCHANGED <<stored, expiresAt, deleted, read, conn, now, faults,
                 told, unheard, timer, badge, firstRead, unsent, expired,
                 sawVars>>
-----------------------------------------------------------------------------
(* MarkRead and DeleteOwnMessage.                                          *)

\* The handler takes the time, then the service is called.  Any user may call
\* it for any message: neither looks at the dialog.  The last reads leave the
\* clock room for their TTL.
CallRead(r, m, u) ==
  /\ m \in stored
  /\ now + TTL <= MaxTime
  /\ Begin(r, "read", "find", m, u)
  /\ at' = [at EXCEPT ![r] = now]
  /\ UNCHANGED <<rowVars, conn, now, fresh, count, faults, saidVars>>

CallDelete(r, m) ==
  /\ m \in stored
  /\ Begin(r, "delete", "find", m, Sender[m])
  /\ UNCHANGED <<rowVars, conn, now, at, fresh, count, faults, saidVars>>

FirstRead(r) == op[r] = "read" /\ expiresAt[msg[r]] = NoTime

\* GetByID, which does not return deleted rows.
GetByID(r) ==
  /\ pc[r] = "find"
  /\ IF msg[r] \in deleted
       THEN Finish(r)
       ELSE /\ GoOn(r, IF op[r] = "read" THEN "receipt" ELSE "delete")
            /\ fresh' = [fresh EXCEPT ![r] = FirstRead(r)]
            /\ UNCHANGED count
  /\ UNCHANGED <<rowVars, conn, now, faults, saidVars>>

MarkReceipt(r) ==
  /\ pc[r] = "receipt"
  /\ LET m == msg[r]
     IN  /\ read' = read \cup {<<m, usr[r]>>}
         /\ firstRead' = [firstRead EXCEPT ![m] =
              IF @ = NoTime \/ at[r] < @ THEN at[r] ELSE @]
  /\ GoOn(r, "count")
  /\ UNCHANGED <<stored, expiresAt, deleted, queued, conn, now, fresh, count,
                 faults, told, unheard, notified, timer, badge, unsent,
                 expired, sawVars>>

\* Mutant of MayRemove: the UPDATE has lost AND deleted_at IS NULL.
RemoveAgain(m) == m \in stored

MayRemove(m) == m \notin deleted

\* SoftDelete reports whether it changed the row; if not the answer is 404.
SoftDelete(r) ==
  /\ pc[r] = "delete"
  /\ IF MayRemove(msg[r])
       THEN /\ deleted' = deleted \cup {msg[r]}
            /\ unsent' = unsent \cup {msg[r]}
            /\ GoOn(r, "count")
            /\ UNCHANGED <<fresh, count>>
       ELSE Finish(r) /\ UNCHANGED <<deleted, unsent>>
  /\ UNCHANGED <<stored, expiresAt, read, queued, conn, now, faults,
                 told, unheard, notified, timer, badge, firstRead, expired,
                 sawVars>>

\* sendBadgeUpdated goes to the reader, or to the peer of a deleted message.
BadgeUser(r) == IF op[r] = "delete" THEN Receiver[msg[r]] ELSE usr[r]

CountUnread(r) ==
  /\ pc[r] = "count"
  /\ count' = [count EXCEPT ![r] = Cardinality(Unread(BadgeUser(r)))]
  /\ GoOn(r, "badge")
  /\ UNCHANGED <<rowVars, conn, now, fresh, faults, saidVars>>

AfterBadge(r) ==
  IF op[r] = "read" /\ TTL > 0 /\ fresh[r]
    THEN /\ GoOn(r, "timer")
         /\ fresh' = [fresh EXCEPT ![r] = FALSE]
         /\ count' = [count EXCEPT ![r] = NoCount]
    ELSE Finish(r)

SendBadge(r) ==
  /\ pc[r] = "badge"
  /\ badge' = IF Reaches(BadgeUser(r))
                THEN [badge EXCEPT ![BadgeUser(r)] = count[r]] ELSE badge
  /\ outdated' = IF count[r] = Cardinality(Unread(BadgeUser(r)))
                   THEN outdated \ {BadgeUser(r)} ELSE outdated \cup {BadgeUser(r)}
  /\ AfterBadge(r)
  /\ UNCHANGED <<rowVars, conn, now, faults,
                 told, unheard, notified, timer, firstRead, unsent, expired, raced>>

\* CountUnread fails: no badge_updated, but MarkRead goes on.
CountFails(r) ==
  /\ pc[r] = "count"
  /\ faults < MaxFaults
  /\ faults' = faults + 1
  /\ AfterBadge(r)
  /\ UNCHANGED <<rowVars, conn, now, saidVars>>

\* Mutant of Deadline: the TTL is left out.
DeadlineNow(r) == at[r]

\* startMessageTTL: readAt.Add(ttl).
Deadline(r) == at[r] + TTL

\* Mutant of MayStart: the UPDATE has lost AND expires_at IS NULL.
StartAgain(m) == m \in stored

MayStart(m) == expiresAt[m] = NoTime

\* An UPDATE that matches no row is no error.
SetExpiresAt(r) ==
  /\ pc[r] = "timer"
  /\ expiresAt' = IF MayStart(msg[r])
                    THEN [expiresAt EXCEPT ![msg[r]] = Deadline(r)]
                    ELSE expiresAt
  /\ raced' = IF MayStart(msg[r]) THEN raced ELSE raced \cup {msg[r]}
  /\ GoOn(r, "tellSender")
  /\ UNCHANGED <<stored, deleted, read, queued, conn, now, fresh, count,
                 faults, told, unheard, notified, timer, badge, firstRead,
                 unsent, expired, outdated>>

TellTimer(r, u) ==
  timer' = IF Reaches(u)
             THEN [timer EXCEPT ![u][msg[r]] = Deadline(r)] ELSE timer

TellSender(r) ==
  /\ pc[r] = "tellSender"
  /\ TellTimer(r, Sender[msg[r]])
  /\ GoOn(r, "tellReader")
  /\ UNCHANGED <<rowVars, conn, now, fresh, count, faults,
                 told, unheard, notified, badge, firstRead, unsent, expired,
                 sawVars>>

TellReader(r) ==
  /\ pc[r] = "tellReader"
  /\ TellTimer(r, usr[r])
  /\ Finish(r)
  /\ UNCHANGED <<rowVars, conn, now, faults,
                 told, unheard, notified, badge, firstRead, unsent, expired,
                 sawVars>>

\* A statement fails and ends the request, or the process is killed.
Abort(r) ==
  /\ pc[r] # "idle"
  /\ faults < MaxFaults
  /\ faults' = faults + 1
  /\ Finish(r)
  /\ UNCHANGED <<rowVars, conn, now, saidVars>>
-----------------------------------------------------------------------------
(* The expirer, the connections and the clock.                             *)

\* Mutant of DueRows: the row is missed when its time passes between two ticks.
DueExactly == {m \in stored \ deleted : expiresAt[m] = now}

DueRows ==
  {m \in stored \ deleted : expiresAt[m] # NoTime /\ expiresAt[m] <= now}

\* ExpireMessages: LIMIT without ORDER BY; SKIP LOCKED may leave out a row an
\* uncommitted UPDATE holds.
ExpireMessages ==
  \E E \in SUBSET DueRows :
    /\ E # {}
    /\ Cardinality(E) <= BatchSize
    /\ deleted' = deleted \cup E
    /\ expired' = expired \cup E
    /\ UNCHANGED <<stored, expiresAt, read, queued, conn, now, reqVars, faults,
                   told, unheard, notified, timer, badge, firstRead, unsent,
                   sawVars>>

\* A client that connects asks for the unread count and the history anew.
Connect(u) ==
  /\ conn[u] # "open"
  /\ conn' = [conn EXCEPT ![u] = "open"]
  /\ badge' = [badge EXCEPT ![u] = NoCount]
  /\ timer' = [timer EXCEPT ![u] = [m \in Messages |-> NoTime]]
  /\ UNCHANGED <<rowVars, now, reqVars, faults,
                 told, unheard, notified, firstRead, unsent, expired, sawVars>>

\* The network is gone; until a heartbeat fails the hub does not know.
LinkDies(u) ==
  /\ conn[u] = "open"
  /\ conn' = [conn EXCEPT ![u] = "dead"]
  /\ UNCHANGED <<rowVars, now, reqVars, faults, saidVars>>

Unregister(u) ==
  /\ conn[u] # "off"
  /\ conn' = [conn EXCEPT ![u] = "off"]
  /\ UNCHANGED <<rowVars, now, reqVars, faults, saidVars>>

Tick ==
  /\ now < MaxTime
  /\ now' = now + 1
  /\ UNCHANGED <<rowVars, conn, reqVars, faults, saidVars>>
-----------------------------------------------------------------------------
Step(r) ==
  \/ Ensure(r)
  \/ PushNew(r)
  \/ EnqueueOutbox(r)
  \/ GetByID(r)
  \/ MarkReceipt(r)
  \/ SoftDelete(r)
  \/ CountUnread(r)
  \/ SendBadge(r)
  \/ SetExpiresAt(r)
  \/ TellSender(r)
  \/ TellReader(r)

Call(r) ==
  \/ \E m \in Messages : Create(r, m)
  \/ \E m \in Messages, u \in Users : CallRead(r, m, u)
  \/ \E m \in Messages : CallDelete(r, m)

Next ==
  \/ \E r \in Requests : Call(r) \/ Step(r) \/ CountFails(r) \/ Abort(r)
  \/ ExpireMessages
  \/ \E u \in Clients : Connect(u) \/ LinkDies(u) \/ Unregister(u)
  \/ Tick

Spec == Init /\ [][Next]_vars

\* A handler runs to its end, the expirer's ticker fires for ever.
Fairness ==
  /\ \A r \in Requests : WF_vars(Step(r))
  /\ WF_vars(ExpireMessages)
  /\ WF_vars(Tick)

FairSpec == Spec /\ Fairness
-----------------------------------------------------------------------------
(* Properties.                                                             *)

\* A deadline exists only for a message somebody has read, be it the author or a
\* stranger to the dialog (the receiver, says docs/api-sprint-4.md:9), and leaves at
\* least the TTL after the first recorded read; the expirer removes nothing
\* before its deadline.  Concurrent readers decide on old snapshots and the
\* deadline is written last, after the receipt and the badge.
FullLifetime ==
  \A m \in Messages :
    /\ expiresAt[m] # NoTime =>
         firstRead[m] # NoTime /\ firstRead[m] + TTL <= expiresAt[m]
    /\ m \in expired => expiresAt[m] # NoTime /\ expiresAt[m] <= now

\* A deadline, once set, is never moved, by whatever late reader; a removed
\* message never comes back and a receipt is never taken back.
DeadlineIsFinal ==
  [][/\ \A m \in Messages : expiresAt[m] # NoTime => expiresAt'[m] = expiresAt[m]
     /\ deleted \subseteq deleted'
     /\ read \subseteq read']_vars

\* A message is removed once: either its author's DELETE is answered 204 or
\* the expirer announces it, never both, though they race for the row.
RemovedOnce == unsent \cap expired = {}

\* What a client shows as the deadline of a message is the stored one, however
\* requests overlap, but for a message that two requests found unread at once:
\* both announce a deadline, of which one is stored (docs/api-sprint-4.md:13 has
\* the clients' timers start in step) ...
TimersTrue ==
  \A u \in Users, m \in Messages \ raced :
    timer[u][m] # NoTime => timer[u][m] = expiresAt[m]

\* ... and, once no request is under way, the last badge_updated of a connected
\* client is its unread count, when no new message has come since.  Three named
\* exceptions: a count that another request had outdated before it was sent, a
\* statement that failed, and messages that somebody else than their receiver
\* has marked, which may expire while the receiver still counts them.
BadgesTrue ==
  /\ faults = 0
  /\ \A p \in read : p[2] = Receiver[p[1]]
  /\ AtRest
  => \A u \in Users \ outdated :
       conn[u] = "open" /\ badge[u] # NoCount =>
         badge[u] = Cardinality(Unread(u))

\* The receiver of a sent message has been reached by WebSocket or a push is
\* queued, also when the connection comes or goes meanwhile; the one gap is a
\* connection that has died and is still registered.
NewMessageReaches ==
  \A m \in notified \ unheard : <<m, Receiver[m]>> \in told \/ m \in queued

\* What has become of m.
Fate(m) ==
  IF m \notin stored THEN "absent"
  ELSE IF m \notin deleted THEN "kept"
  ELSE IF m \in unsent THEN "withdrawn" ELSE "expired"

Life == INSTANCE MessageLife WITH
  life <- [m \in Messages |-> Fate(m)],
  due <- expiresAt

\* The handlers, cut into statements that interleave with each other and with
\* the expirer, keep the promise: one end for each message, and one deadline
\* that its first readings allow.
ImplementsLife == Life!Spec

\* A message whose timer runs is removed.
TimedOutIsRemoved ==
  \A m \in Messages : (expiresAt[m] # NoTime) ~> (m \in deleted)
=============================================================================
