----------------------------- MODULE WSEventOutbox -----------------------------
(***************************************************************************)
(* How the removal of a timed-out message reaches the clients: the ticks   *)
(* of message-expirer (internal/services/expirer/expirer.go), the table    *)
(* ws_event_outbox and the poller of main-service that hands its rows to   *)
(* the WebSocket hub (internal/services/wsdelivery/delivery.go).           *)
(*                                                                         *)
(* The two processes share the table only.  An expirer removes messages in *)
(* one statement and inserts their events in further ones, two for each    *)
(* message; the poller reads a batch, hands it to the hub (module Hub)     *)
(* event by event and marks it, steps that a restart may separate.  An     *)
(* event is <<message, user>>: a message is removed once, so an event is   *)
(* inserted once.  The order of the queue is that of the commits, which is *)
(* the order of created_at for the events of one expirer.                  *)
(***************************************************************************)
EXTENDS Hub

CONSTANTS
  Messages,
  UserA, UserB,  \* UserA[m], UserB[m]: the participants of m's dialog
  Expirers,      \* message-expirer processes
  ExpireBatch,   \* expirer.batch_size
  DeliverBatch,  \* wsDeliveryBatchSize
  MaxFaults      \* bound: restarts of main-service and failed marks in a run

ASSUME OutboxAssumption ==
  /\ IsFiniteSet(Messages)
  /\ DOMAIN UserA = Messages
  /\ DOMAIN UserB = Messages
  /\ \A m \in Messages : UserA[m] # UserB[m]
  /\ ExpireBatch \in Nat \ {0}
  /\ DeliverBatch \in Nat \ {0}
  /\ MaxFaults \in Nat

EventsOf(m) == {<<m, UserA[m]>>, <<m, UserB[m]>>}
Events == UNION {EventsOf(m) : m \in Messages}
Users  == {e[2] : e \in Events}

VARIABLES
  timedOut,  \* messages whose expires_at has passed
  removed,   \* messages with deleted_at
  unsaved,   \* unsaved[x]: events expirer x has still to insert, in order
  abandoned, \* events a failed tick has not inserted
  queue,     \* rows with processed_at IS NULL, in the order of created_at
  processed, \* rows with processed_at
  pc,        \* the poller: "idle", "send", "write" (in Hub.Send) or "mark"
  batch,     \* the rows it has claimed
  sent,      \* how many of them it has handed to the hub
  handed,    \* events Hub.Send has been called for
  faults     \* restarts and failed marks so far

expVars  == <<timedOut, removed, unsaved, abandoned>>
pollVars == <<pc, batch, sent>>
vars == <<expVars, queue, processed, pollVars, hubVars, handed, faults>>

TypeOK ==
  /\ timedOut \subseteq Messages
  /\ removed \subseteq timedOut
  /\ unsaved \in [Expirers -> Seq(Events)]
  /\ abandoned \subseteq Events
  /\ queue \in Seq(Events)
  /\ processed \subseteq Events
  /\ pc \in {"idle", "send", "write", "mark"}
  /\ batch \in Seq(Events)
  /\ Len(batch) <= DeliverBatch
  /\ sent \in 0..Len(batch)
  /\ handed \subseteq Events
  /\ faults \in 0..MaxFaults
  /\ HubTypeOK
  /\ (copied # << >>) <=> (pc = "write")

Init ==
  /\ timedOut = {}
  /\ removed = {}
  /\ unsaved = [x \in Expirers |-> << >>]
  /\ abandoned = {}
  /\ queue = << >>
  /\ processed = {}
  /\ pc = "idle"
  /\ batch = << >>
  /\ sent = 0
  /\ handed = {}
  /\ faults = 0
  /\ HubInit(Users \cup Served)
-----------------------------------------------------------------------------
(* The expirer.                                                            *)

TimeOut(m) ==
  /\ m \notin timedOut
  /\ timedOut' = timedOut \cup {m}
  /\ UNCHANGED <<removed, unsaved, abandoned, queue, processed, pollVars,
                 hubVars, handed, faults>>

\* Mutant of Removable: AND deleted_at IS NULL is lost.
RemovableAgain == timedOut

Removable == timedOut \ removed

\* buildEvents: UserA's event, then UserB's, message by message.
BuildEvents(ms) ==
  [i \in 1..(2 * Len(ms)) |->
     LET m == ms[(i + 1) \div 2]
     IN  <<m, IF i % 2 = 1 THEN UserA[m] ELSE UserB[m]>>]

\* A tick up to ExpireMessages; the rows are returned in any order.
ExpireMessages(x) ==
  /\ unsaved[x] = << >>
  /\ \E E \in SUBSET Removable :
       /\ E # {}
       /\ Cardinality(E) <= ExpireBatch
       /\ removed' = removed \cup E
       /\ \E ms \in SetToSeqs(E) :
            unsaved' = [unsaved EXCEPT ![x] = BuildEvents(ms)]
  /\ UNCHANGED <<timedOut, abandoned, queue, processed, pollVars, hubVars,
                 handed, faults>>

\* EnqueueBatch: one INSERT for each event, every one its own transaction.
InsertEvent(x) ==
  /\ unsaved[x] # << >>
  /\ queue' = Append(queue, Head(unsaved[x]))
  /\ unsaved' = [unsaved EXCEPT ![x] = Tail(@)]
  /\ UNCHANGED <<timedOut, removed, abandoned, processed, pollVars, hubVars,
                 handed, faults>>

\* An INSERT fails, or the expirer is killed: the tick is not repeated.
AbandonTick(x) ==
  /\ unsaved[x] # << >>
  /\ abandoned' = abandoned \cup ToSet(unsaved[x])
  /\ unsaved' = [unsaved EXCEPT ![x] = << >>]
  /\ UNCHANGED <<timedOut, removed, queue, processed, pollVars, hubVars,
                 handed, faults>>
-----------------------------------------------------------------------------
(* The poller and the hub.                                                 *)

Smaller(a, b) == IF a < b THEN a ELSE b

\* Mutant of Claimed: ORDER BY created_at DESC.
NewestFirst ==
  Reverse(SubSeq(queue, Len(queue) + 1 - Smaller(Len(queue), DeliverBatch),
                 Len(queue)))

\* ORDER BY created_at ASC LIMIT DeliverBatch.
Claimed == SubSeq(queue, 1, Smaller(Len(queue), DeliverBatch))

\* ClaimBatch is a SELECT; it changes no row.
ClaimBatch ==
  /\ pc = "idle"
  /\ queue # << >>
  /\ batch' = Claimed
  /\ sent' = 0
  /\ pc' = "send"
  /\ UNCHANGED <<expVars, queue, processed, hubVars, handed, faults>>

\* The event at hand has been sent, or skipped for want of a connection.
EventDone ==
  /\ sent' = sent + 1
  /\ pc' = IF sent + 1 = Len(batch) THEN "mark" ELSE "send"

\* Hub.Send; an offline user's event is marked with the others.
SendEvent ==
  /\ pc = "send"
  /\ LET e == batch[sent + 1]
     IN  /\ handed' = handed \cup {e}
         /\ BeginSend(e[2])
  /\ IF copied' = << >> THEN EventDone ELSE pc' = "write" /\ UNCHANGED sent
  /\ UNCHANGED <<expVars, queue, processed, batch, faults>>

\* A write of Hub.Send, and with the last one its return.
InSend(write) ==
  /\ pc = "write"
  /\ write
  /\ IF copied' = << >> THEN EventDone ELSE UNCHANGED <<pc, sent>>
  /\ UNCHANGED <<expVars, queue, processed, batch, handed, faults>>

\* Mutant of MarkedIds: the UPDATE has lost its list of ids.
AllIds == ToSet(queue)

\* The ids RunOnce has collected.
MarkedIds == ToSet(batch)

Release ==
  /\ pc' = "idle"
  /\ batch' = << >>
  /\ sent' = 0

MarkProcessedBatch ==
  /\ pc = "mark"
  /\ queue' = Without(queue, MarkedIds)
  /\ processed' = processed \cup MarkedIds
  /\ Release
  /\ UNCHANGED <<expVars, hubVars, handed, faults>>

MarkFails ==
  /\ pc = "mark"
  /\ faults < MaxFaults
  /\ faults' = faults + 1
  /\ Release
  /\ UNCHANGED <<expVars, queue, processed, hubVars, handed>>

\* main-service restarts: its connections and the poller's batch are gone.
Restart ==
  /\ faults < MaxFaults
  /\ faults' = faults + 1
  /\ Shutdown
  /\ Release
  /\ UNCHANGED <<expVars, queue, processed, handed>>

\* The connections, whose goroutines run beside the poller.
Beside(step) ==
  /\ step
  /\ UNCHANGED <<expVars, queue, processed, pollVars, handed, faults>>

Peer(c)     == Beside(Register(c) \/ PeerVanishes(c) \/ PeerCloses(c))
TearDown(c) == Beside(Heartbeat(c) \/ Unregister(c))
-----------------------------------------------------------------------------
Expire == \E x \in Expirers : ExpireMessages(x)
Poll   == ClaimBatch \/ SendEvent \/ InSend(Write) \/ MarkProcessedBatch

\* A write to a dead peer returns at some time or never.
BlockedWrite == InSend(WriteSwallowed)

Next ==
  \/ \E m \in Messages : TimeOut(m)
  \/ Expire
  \/ \E x \in Expirers : InsertEvent(x) \/ AbandonTick(x)
  \/ Poll
  \/ MarkFails
  \/ Restart
  \/ BlockedWrite
  \/ \E c \in Conns : Peer(c) \/ TearDown(c)

Spec == Init /\ [][Next]_vars

\* Both tickers fire for ever and a started tick goes on, except in a write
\* to a dead peer; every connection has its heartbeat and its deferred
\* Unregister.
Fairness ==
  /\ WF_vars(Expire)
  /\ \A x \in Expirers : WF_vars(InsertEvent(x))
  /\ WF_vars(Poll)
  /\ \A c \in Conns : WF_vars(TearDown(c))

FairSpec == Spec /\ Fairness
-----------------------------------------------------------------------------
(* Properties.                                                             *)

\* Every event is in exactly one place: still to be inserted by one expirer,
\* queued once, or processed; and it is about a removed message.  Two
\* expirers share the table without announcing a message twice.
Waiting(e) == {x \in Expirers : e \in ToSet(unsaved[x])}

EachEventOnce ==
  /\ \A e \in Events :
       /\ Cardinality({i \in 1..Len(queue) : queue[i] = e})
            + Cardinality(Waiting(e))
            + (IF e \in processed THEN 1 ELSE 0) <= 1
       /\ e \in ToSet(queue) \cup processed => e[1] \in removed

\* The two rows of a message are handed over in the order of their insertion,
\* whatever other expirers insert in between: while the second one is still
\* queued, it is handed over only after the first.
HandedInOrder ==
  \A i, j \in 1..Len(queue) :
    i < j /\ queue[i][1] = queue[j][1] /\ queue[j] \in handed =>
      queue[i] \in handed

\* A removed message has both its events on the way to the table, queued, or
\* processed after the hub was handed them, except those of a tick that has
\* failed between its statements; a restart of main-service or a failed mark
\* loses none.
Announced(e) ==
  \/ Waiting(e) # {}
  \/ e \in ToSet(queue)
  \/ e \in processed \cap handed

NothingLost ==
  \A m \in removed : \A e \in EventsOf(m) \ abandoned : Announced(e)

\* A Send ends only when every connection it found registered, and that is
\* still open, has been written to: errors, dead peers and connections that
\* come and go between the writes take nothing from the others.
OpenOnesAreTold ==
  [][copied # << >> /\ copied' = << >> =>
       \A c \in ToSet(copied) :
         link'[c] = "open" => c \in got \cup {Target}]_vars

\* Every queued event is processed in the end, online users or not, also
\* when the poller has been blocked by a peer that no longer reads: nothing
\* but the heartbeat ends such a write.
QueueDrains == \A e \in Events : (e \in ToSet(queue)) ~> (e \in processed)

Phase(e) ==
  CASE Waiting(e) # {}     -> "owed"
    [] e \in ToSet(queue)  -> "queued"
    [] e \in processed     -> "done"
    [] e \in abandoned     -> "lost"
    [] OTHER               -> "none"

Promise == INSTANCE EventDelivery WITH phase <- [e \in Events |-> Phase(e)]

\* Ticks, batches, restarts and failed marks come down to the simple promise:
\* an event of a removed message is owed, queued, handed over and done, or
\* lost with its tick; it goes through these once, and the participants of a
\* message are told in their order.
ImplementsPromise == Promise!Spec
=============================================================================
