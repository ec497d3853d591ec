------------------------- MODULE NotificationOutbox -------------------------
(***************************************************************************)
(* The push queue of the chat backend: the table notification_outbox, the  *)
(* chat service that fills it and the notification workers that drain it   *)
(* (internal/store/notification_outbox_repository.go and                   *)
(* internal/services/notification/worker.go).                              *)
(*                                                                         *)
(* A task is one dedup_key, so the table holds at most one row for it.     *)
(* Every repository call is one SQL statement and is one step here; a      *)
(* worker is a process that can be overtaken, or killed, between any two   *)
(* of its calls.  Time is discrete and relative: each row keeps the time   *)
(* left until its next_attempt_at, which makes the state space finite      *)
(* without bounding the run.                                               *)
(***************************************************************************)
EXTENDS Integers, FiniteSets

CONSTANTS
  Workers,        \* notification-worker processes
  Tasks,          \* dedup keys: one per event type, message and recipient
  NoTask,         \* "the worker is not processing a task"
  Devices,        \* rows of the table devices
  Recipient,      \* Recipient[t]: user_id of task t
  Owner,          \* Owner[d]: user_id of device d
  EventType,      \* EventType[t]: "message_new" or "badge_sync"
  BatchSize,      \* cfg.BatchSize
  MaxAttempts,    \* cfg.MaxAttempts
  Lease,          \* the 5 minutes a claim postpones next_attempt_at
  BackoffBase,    \* cfg.BackoffBase
  BackoffCap,     \* backoffCap
  ExhaustedDelay, \* exhaustedDelay, the year given to an exhausted task
  Retention,      \* age at which housekeeping deletes a sent row
  Prompt,         \* TRUE: a batch is always finished within its lease
  MaxOverdue,     \* bound: how far past its due time a row is told apart
  MaxFaults       \* bound: crashes and failed status writes in a run

ASSUME OutboxAssumption ==
  /\ NoTask \notin Tasks
  /\ EventType \in [Tasks -> {"message_new", "badge_sync"}]
  /\ BatchSize \in Nat \ {0}
  /\ MaxAttempts \in Nat \ {0}
  /\ Lease \in Nat \ {0}
  /\ BackoffBase \in Nat \ {0}
  /\ BackoffCap \in Nat \ {0}
  /\ ExhaustedDelay \in Nat \ {0}
  /\ Retention \in Nat
  /\ Prompt \in BOOLEAN
  /\ MaxOverdue \in Nat
  /\ MaxFaults \in Nat

VARIABLES
  requested, \* tasks the chat service has asked Enqueue to store
  status,    \* status[t]: the row's status, "none" when there is no row
  attempt,   \* attempt[t]: claims so far, told apart up to AttemptCap
  wait,      \* wait[t]: next_attempt_at - now; not read for a sent row
  age,       \* age[t]: now - updated_at of a sent row
  enabled,   \* devices with enabled = TRUE
  pc,        \* pc[w]: where worker w is in RunOnce / processTask
  batch,     \* batch[w]: claimed tasks it has not finished, cur included
  seen,      \* seen[w][t]: task.Attempt as ClaimBatch returned it to w
  cur,       \* cur[w]: the task in processTask
  listed,    \* listed[w]: what ListActive returned for it
  todo,      \* todo[w]: the listed devices not sent to yet
  result,    \* result[w]: "failed" when sendErr or an early error is set
  left,      \* left[w]: what is left of the lease w claimed its batch with
  reached,   \* <<t, d>>: the provider accepted a push of t for d
  gone,      \* <<t, d>>: the provider answered 404 or 410 for d
  faults     \* crashes and failed status writes so far

rowVars    == <<requested, status, attempt, wait, age>>
workerVars == <<pc, batch, seen, cur, listed, todo, result, left>>
pushVars   == <<reached, gone>>
vars       == <<rowVars, workerVars, pushVars, enabled, faults>>

AttemptCap == MaxAttempts + 1
Unsent     == {"pending", "failed"}
Delays     == {Lease, BackoffBase, BackoffCap, ExhaustedDelay}
Longest    == CHOOSE m \in Delays : \A x \in Delays : x <= m

TypeOK ==
  /\ requested \subseteq Tasks
  /\ status \in [Tasks -> {"none", "sent"} \cup Unsent]
  /\ attempt \in [Tasks -> 0..AttemptCap]
  /\ wait \in [Tasks -> (-MaxOverdue)..Longest]
  /\ age \in [Tasks -> 0..(Retention + 1)]
  /\ enabled \subseteq Devices
  /\ pc \in [Workers -> {"idle", "next", "send", "mark"}]
  /\ batch \in [Workers -> SUBSET Tasks]
  /\ seen \in [Workers -> [Tasks -> 0..AttemptCap]]
  /\ cur \in [Workers -> Tasks \cup {NoTask}]
  /\ listed \in [Workers -> SUBSET Devices]
  /\ todo \in [Workers -> SUBSET Devices]
  /\ result \in [Workers -> {"ok", "failed"}]
  /\ left \in [Workers -> 0..Lease]
  /\ reached \subseteq Tasks \X Devices
  /\ gone \subseteq Tasks \X Devices
  /\ faults \in 0..MaxFaults

Init ==
  /\ requested = {}
  /\ status = [t \in Tasks |-> "none"]
  /\ attempt = [t \in Tasks |-> 0]
  /\ wait = [t \in Tasks |-> 0]
  /\ age = [t \in Tasks |-> 0]
  /\ enabled \in SUBSET Devices
  /\ pc = [w \in Workers |-> "idle"]
  /\ batch = [w \in Workers |-> {}]
  /\ seen = [w \in Workers |-> [t \in Tasks |-> 0]]
  /\ cur = [w \in Workers |-> NoTask]
  /\ listed = [w \in Workers |-> {}]
  /\ todo = [w \in Workers |-> {}]
  /\ result = [w \in Workers |-> "ok"]
  /\ left = [w \in Workers |-> 0]
  /\ reached = {}
  /\ gone = {}
  /\ faults = 0
-----------------------------------------------------------------------------
(* Publishing: the chat service and the user's devices.                    *)

\* The CHECK of migration 006 admits one event type.
Storable(t) == EventType[t] = "message_new"

\* A dedup key names one message and one recipient and SendMessage runs once
\* for it, so a message_new is requested once.  A second badge_sync of the
\* same key would be one more rejected INSERT and change nothing.
Enqueue(t) ==
  /\ t \notin requested
  /\ requested' = requested \cup {t}
  /\ IF Storable(t) /\ status[t] = "none"
       THEN /\ status' = [status EXCEPT ![t] = "pending"]
            /\ attempt' = [attempt EXCEPT ![t] = 0]
            /\ wait' = [wait EXCEPT ![t] = 0]
       ELSE UNCHANGED <<status, attempt, wait>>
  /\ UNCHANGED <<age, enabled, workerVars, pushVars, faults>>

\* Upsert leaves the device enabled; Disable (unregister) does the opposite.
SetDevice(d, on) ==
  /\ (d \in enabled) # on
  /\ enabled' = IF on THEN enabled \cup {d} ELSE enabled \ {d}
  /\ UNCHANGED <<rowVars, workerVars, pushVars, faults>>
-----------------------------------------------------------------------------
(* The worker: RunOnce claims a batch and processes it task by task.       *)

\* Mutant of Due: the status filter is dropped.
DueAnyStatus == {t \in Tasks : status[t] # "none" /\ wait[t] <= 0}

Due == {t \in Tasks : status[t] \in Unsent /\ wait[t] <= 0}

\* Mutant of ClaimableBatches: LIMIT without ORDER BY.
UnorderedBatches ==
  {C \in SUBSET Due :
     /\ C # {}
     /\ Cardinality(C) <= BatchSize
     /\ Cardinality(C) < BatchSize => C = Due}

\* ORDER BY next_attempt_at LIMIT BatchSize.
ClaimableBatches ==
  {C \in SUBSET Due :
     /\ C # {}
     /\ Cardinality(C) <= BatchSize
     /\ Cardinality(C) < BatchSize => C = Due
     /\ \A t \in C, u \in Due \ C : wait[t] <= wait[u]}

\* Mutant of ClaimWait: the claim leaves next_attempt_at in the past.
NoLease == 0

\* next_attempt_at = NOW() + INTERVAL '5 minutes'.
ClaimWait == Lease

ClaimBatch(w) ==
  /\ pc[w] = "idle"
  /\ \E C \in ClaimableBatches :
       /\ status' = [t \in Tasks |-> IF t \in C THEN "pending" ELSE status[t]]
       /\ attempt' = [t \in Tasks |->
            IF t \in C /\ attempt[t] < AttemptCap THEN attempt[t] + 1
            ELSE attempt[t]]
       /\ wait' = [t \in Tasks |-> IF t \in C THEN ClaimWait ELSE wait[t]]
       /\ batch' = [batch EXCEPT ![w] = C]
       /\ seen' = [seen EXCEPT ![w] =
                     [t \in Tasks |-> IF t \in C THEN attempt'[t] ELSE 0]]
  /\ left' = [left EXCEPT ![w] = Lease]
  /\ pc' = [pc EXCEPT ![w] = "next"]
  /\ UNCHANGED <<requested, age, cur, listed, todo, result,
                 enabled, pushVars, faults>>

Active(t) == {d \in enabled : Owner[d] = Recipient[t]}

\* processTask up to the send loop: ListActive succeeds ...
StartTask(w, t) ==
  /\ pc[w] = "next"
  /\ t \in batch[w]
  /\ cur' = [cur EXCEPT ![w] = t]
  /\ listed' = [listed EXCEPT ![w] = Active(t)]
  /\ todo' = [todo EXCEPT ![w] = Active(t)]
  /\ result' = [result EXCEPT ![w] = "ok"]
  /\ pc' = [pc EXCEPT ![w] = IF Active(t) = {} THEN "mark" ELSE "send"]
  /\ UNCHANGED <<rowVars, batch, seen, left, enabled, pushVars, faults>>

\* ... or fails, and the task goes straight to markFailed.
ListError(w, t) ==
  /\ pc[w] = "next"
  /\ t \in batch[w]
  /\ cur' = [cur EXCEPT ![w] = t]
  /\ result' = [result EXCEPT ![w] = "failed"]
  /\ pc' = [pc EXCEPT ![w] = "mark"]
  /\ UNCHANGED <<rowVars, batch, seen, listed, todo, left,
                 enabled, pushVars, faults>>

\* Leave the loop iteration of device d; after the last one, go on to mark.
NextDevice(w, d) ==
  /\ todo' = [todo EXCEPT ![w] = @ \ {d}]
  /\ pc' = [pc EXCEPT ![w] = IF todo[w] = {d} THEN "mark" ELSE "send"]

SendOk(w, d) ==
  /\ pc[w] = "send"
  /\ d \in todo[w]
  /\ reached' = reached \cup {<<cur[w], d>>}
  /\ NextDevice(w, d)
  /\ UNCHANGED <<rowVars, batch, seen, cur, listed, result, left,
                 enabled, gone, faults>>

\* ErrSubscriptionGone: DisableByID (whose own failure is only logged) and on
\* to the next device.
SendGone(w, d, disabled) ==
  /\ pc[w] = "send"
  /\ d \in todo[w]
  /\ gone' = gone \cup {<<cur[w], d>>}
  /\ enabled' = IF disabled THEN enabled \ {d} ELSE enabled
  /\ NextDevice(w, d)
  /\ UNCHANGED <<rowVars, batch, seen, cur, listed, result, left,
                 reached, faults>>

\* Mutant of ErrorResult: the loop is left without setting sendErr.
SwallowedError == "ok"

\* Any other provider error sets sendErr and breaks the loop.
ErrorResult == "failed"

SendError(w) ==
  /\ pc[w] = "send"
  /\ result' = [result EXCEPT ![w] = ErrorResult]
  /\ todo' = [todo EXCEPT ![w] = {}]
  /\ pc' = [pc EXCEPT ![w] = "mark"]
  /\ UNCHANGED <<rowVars, batch, seen, cur, listed, left,
                 enabled, pushVars, faults>>

\* The end of processTask, whatever the status write did.
FinishTask(w) ==
  /\ batch' = [batch EXCEPT ![w] = @ \ {cur[w]}]
  /\ pc' = [pc EXCEPT ![w] = IF batch[w] = {cur[w]} THEN "idle" ELSE "next"]
  /\ left' = [left EXCEPT ![w] = IF batch[w] = {cur[w]} THEN 0 ELSE @]
  /\ seen' = [seen EXCEPT ![w][cur[w]] = 0]
  /\ cur' = [cur EXCEPT ![w] = NoTask]
  /\ listed' = [listed EXCEPT ![w] = {}]
  /\ todo' = [todo EXCEPT ![w] = {}]
  /\ result' = [result EXCEPT ![w] = "ok"]

\* UPDATE ... WHERE id = $1: unconditional, and without effect once the row
\* has been deleted.
MarkSent(w) ==
  /\ pc[w] = "mark"
  /\ result[w] = "ok"
  /\ IF status[cur[w]] = "none"
       THEN UNCHANGED <<status, wait, age>>
       ELSE /\ status' = [status EXCEPT ![cur[w]] = "sent"]
            /\ wait' = [wait EXCEPT ![cur[w]] = 0]
            /\ age' = [age EXCEPT ![cur[w]] = 0]
  /\ FinishTask(w)
  /\ UNCHANGED <<requested, attempt, enabled, pushVars, faults>>

\* calcBackoff: base * 2^(attempt-1), capped.
Backoff(a) ==
  LET d == BackoffBase * 2 ^ (a - 1)
  IN  IF a <= 0 THEN BackoffBase
      ELSE IF d \in 0..BackoffCap THEN d ELSE BackoffCap

RetryDelay(a) == IF a >= MaxAttempts THEN ExhaustedDelay ELSE Backoff(a)

MarkFailed(w) ==
  /\ pc[w] = "mark"
  /\ result[w] = "failed"
  /\ IF status[cur[w]] = "none"
       THEN UNCHANGED <<status, wait, age>>
       ELSE /\ status' = [status EXCEPT ![cur[w]] = "failed"]
            /\ wait' = [wait EXCEPT ![cur[w]] = RetryDelay(seen[w][cur[w]])]
            /\ age' = [age EXCEPT ![cur[w]] = 0]
  /\ FinishTask(w)
  /\ UNCHANGED <<requested, attempt, enabled, pushVars, faults>>

\* The status write fails; the error is logged and the row keeps its lease.
MarkLost(w) ==
  /\ pc[w] = "mark"
  /\ faults < MaxFaults
  /\ faults' = faults + 1
  /\ FinishTask(w)
  /\ UNCHANGED <<rowVars, enabled, pushVars>>

\* A kill, or a shutdown: after ctx is cancelled every further call fails.
Crash(w) ==
  /\ pc[w] # "idle"
  /\ faults < MaxFaults
  /\ faults' = faults + 1
  /\ pc' = [pc EXCEPT ![w] = "idle"]
  /\ batch' = [batch EXCEPT ![w] = {}]
  /\ seen' = [seen EXCEPT ![w] = [t \in Tasks |-> 0]]
  /\ cur' = [cur EXCEPT ![w] = NoTask]
  /\ listed' = [listed EXCEPT ![w] = {}]
  /\ todo' = [todo EXCEPT ![w] = {}]
  /\ result' = [result EXCEPT ![w] = "ok"]
  /\ left' = [left EXCEPT ![w] = 0]
  /\ UNCHANGED <<rowVars, enabled, pushVars>>
-----------------------------------------------------------------------------
(* Housekeeping and time.                                                  *)

Purgeable == {t \in Tasks : status[t] = "sent" /\ age[t] > Retention}

DeleteSent ==
  /\ Purgeable # {}
  /\ status' = [t \in Tasks |-> IF t \in Purgeable THEN "none" ELSE status[t]]
  /\ attempt' = [t \in Tasks |-> IF t \in Purgeable THEN 0 ELSE attempt[t]]
  /\ age' = [t \in Tasks |-> IF t \in Purgeable THEN 0 ELSE age[t]]
  /\ UNCHANGED <<requested, wait, enabled, workerVars, pushVars, faults>>

\* Under Prompt time does not take the last unit of a lease somebody works on.
MayTick == Prompt => \A w \in Workers : pc[w] # "idle" => left[w] > 1

\* A row that is due gets older, down to -MaxOverdue, but never as old as a
\* row that came due before it: with MaxOverdue >= Cardinality(Tasks) - 1 the
\* order of next_attempt_at is kept exactly.
CanAge(t) ==
  /\ status[t] \in Unsent
  /\ \/ wait[t] > 0
     \/ \E k \in (-MaxOverdue)..(wait[t] - 1) :
          \A u \in Tasks : status[u] \in Unsent => wait[u] # k

Tick ==
  /\ MayTick
  /\ wait' = [t \in Tasks |-> IF CanAge(t) THEN wait[t] - 1 ELSE wait[t]]
  /\ age' = [t \in Tasks |->
       IF status[t] = "sent" /\ age[t] <= Retention
         THEN age[t] + 1 ELSE age[t]]
  /\ left' = [w \in Workers |-> IF left[w] > 0 THEN left[w] - 1 ELSE 0]
  /\ UNCHANGED <<requested, status, attempt, enabled, pc, batch, seen, cur,
                 listed, todo, result, pushVars, faults>>
-----------------------------------------------------------------------------
Process(w) ==
  \/ \E t \in Tasks : StartTask(w, t)
  \/ \E t \in Tasks : ListError(w, t)
  \/ \E d \in Devices : SendOk(w, d)
  \/ \E d \in Devices, disabled \in BOOLEAN : SendGone(w, d, disabled)
  \/ SendError(w)
  \/ MarkSent(w)
  \/ MarkFailed(w)
  \/ MarkLost(w)

Next ==
  \/ \E t \in Tasks : Enqueue(t)
  \/ \E d \in Devices, on \in BOOLEAN : SetDevice(d, on)
  \/ \E w \in Workers : ClaimBatch(w) \/ Process(w) \/ Crash(w)
  \/ DeleteSent
  \/ Tick

Spec == Init /\ [][Next]_vars

\* A live worker polls for ever and goes on with its batch; the clock runs.
Fairness ==
  /\ \A w \in Workers : WF_vars(ClaimBatch(w)) /\ WF_vars(Process(w))
  /\ WF_vars(Tick)

FairSpec == Spec /\ Fairness
-----------------------------------------------------------------------------
(* Properties.                                                             *)

\* While every batch is finished within its lease (Prompt), a claimed task
\* belongs to one worker: no other worker holds it, its row is still
\* 'pending' and comes due again exactly when the holder's lease ends.  This
\* is what the lease of ClaimBatch is for; it ties the rows to the workers'
\* private batches across claims, status writes, crashes and the clock.
LeaseExclusive ==
  Prompt =>
    \A w \in Workers : \A t \in batch[w] :
      /\ status[t] = "pending"
      /\ left[w] > 0
      /\ wait[t] = left[w]
      /\ seen[w][t] = attempt[t]
      /\ \A v \in Workers \ {w} : t \notin batch[v]

\* A task is about to be marked sent only when every device ListActive
\* returned for it has had a push accepted or was reported gone, in this
\* round or an earlier one: a break out of processTask's send loop never
\* ends in MarkSent, also for a worker whose lease is over.
RoundComplete ==
  \A w \in Workers :
    pc[w] = "mark" /\ result[w] = "ok" =>
      \A d \in listed[w] : <<cur[w], d>> \in reached \cup gone

\* A row leaves the queue for good: it is marked sent, or it has used up its
\* attempts and waits for exhaustedDelay, or it is gone.  Crashes and lost
\* status writes (finitely many) do not leave it claimed for ever.
Settled(t) ==
  \/ status[t] \in {"none", "sent"}
  \/ status[t] = "failed" /\ attempt[t] >= MaxAttempts

EventuallySettled ==
  \A t \in Tasks : (status[t] \in Unsent) ~> Settled(t)

\* The queue implements NotificationDelivery while leases are respected.
Phase(t) ==
  CASE status[t] \in Unsent -> "owed"
    [] status[t] = "sent" -> "settled"
    [] status[t] = "none" /\ t \in requested /\ Storable(t) -> "forgotten"
    [] OTHER -> "absent"

Delivery == INSTANCE NotificationDelivery WITH
  phase <- [t \in Tasks |-> Phase(t)]

\* A notification is pushed only while it is owed, is settled once and is
\* never forgotten before: MarkFailed cannot take a sent row back, a worker
\* cannot push what another has settled, housekeeping deletes settled rows
\* only.
ImplementsDelivery == Delivery!Spec
=============================================================================
