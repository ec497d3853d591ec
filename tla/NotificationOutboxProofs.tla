----------------------- MODULE NotificationOutboxProofs -----------------------
(***************************************************************************)
(* Proofs about NotificationOutbox, for every number of workers, tasks and *)
(* devices and every value of the delays.                                  *)
(***************************************************************************)
EXTENDS NotificationOutbox, TLAPS

\* The delays a status write can give, and the claim's, are at most Longest.
LEMMA DelayBounds ==
  /\ Longest \in Nat
  /\ Lease \in 0..Longest
  /\ \A a \in Nat : RetryDelay(a) \in 0..Longest
<1>1. \E m \in Delays : \A x \in Delays : x <= m
  BY OutboxAssumption DEF Delays
<1>2. Longest \in Delays /\ \A x \in Delays : x <= Longest
  BY <1>1 DEF Longest
<1>3. Longest \in Nat /\ Lease \in 0..Longest /\ BackoffBase \in 0..Longest
      /\ BackoffCap \in 0..Longest /\ ExhaustedDelay \in 0..Longest
  BY <1>2, OutboxAssumption DEF Delays
<1>4. ASSUME NEW a \in Nat PROVE RetryDelay(a) \in 0..Longest
  BY <1>3, OutboxAssumption DEF RetryDelay, Backoff
<1>5. QED
  BY <1>3, <1>4

\* What FinishTask leaves of a well-typed worker state.
LEMMA FinishTaskType ==
  ASSUME TypeOK, NEW w \in Workers, cur[w] \in Tasks, FinishTask(w)
  PROVE  /\ batch' \in [Workers -> SUBSET Tasks]
         /\ pc' \in [Workers -> {"idle", "next", "send", "mark"}]
         /\ left' \in [Workers -> 0..Lease]
         /\ seen' \in [Workers -> [Tasks -> 0..AttemptCap]]
         /\ cur' \in [Workers -> Tasks \cup {NoTask}]
         /\ listed' \in [Workers -> SUBSET Devices]
         /\ todo' \in [Workers -> SUBSET Devices]
         /\ result' \in [Workers -> {"ok", "failed"}]
  BY OutboxAssumption DEF TypeOK, FinishTask, AttemptCap

\* The program counter of a worker against its private batch.
WorkerShape ==
  \A w \in Workers :
    /\ pc[w] = "idle" => batch[w] = {}
    /\ pc[w] \in {"send", "mark"} => cur[w] \in batch[w]

LEMMA InitInv == Init => TypeOK /\ WorkerShape
<1> SUFFICES ASSUME Init PROVE TypeOK /\ WorkerShape
  OBVIOUS
<1>1. Longest \in Nat
  BY DelayBounds
<1>2. TypeOK
  BY <1>1, OutboxAssumption DEF Init, TypeOK, Unsent, AttemptCap
<1>3. WorkerShape
  BY DEF Init, WorkerShape
<1>4. QED
  BY <1>2, <1>3

LEMMA TypeStep == TypeOK /\ WorkerShape /\ [Next]_vars => TypeOK'
<1> SUFFICES ASSUME TypeOK, WorkerShape, [Next]_vars PROVE TypeOK'
  OBVIOUS
<1> USE OutboxAssumption, DelayBounds DEF AttemptCap, Unsent
<1>0. 0 \in (-MaxOverdue)..Longest
  OBVIOUS
<1>1. ASSUME NEW t \in Tasks, Enqueue(t) PROVE TypeOK'
  <2>1. /\ status' \in [Tasks -> {"none", "sent"} \cup Unsent]
        /\ attempt' \in [Tasks -> 0..AttemptCap]
        /\ wait' \in [Tasks -> (-MaxOverdue)..Longest]
    <3>1. CASE Storable(t) /\ status[t] = "none"
      <4>1. /\ status' = [status EXCEPT ![t] = "pending"]
            /\ attempt' = [attempt EXCEPT ![t] = 0]
            /\ wait' = [wait EXCEPT ![t] = 0]
        BY <1>1, <3>1 DEF Enqueue
      <4>2. status' \in [Tasks -> {"none", "sent"} \cup Unsent]
        BY <4>1 DEF TypeOK
      <4>3. attempt' \in [Tasks -> 0..AttemptCap]
        BY <4>1 DEF TypeOK
      <4>4. wait' \in [Tasks -> (-MaxOverdue)..Longest]
        BY <1>0, <4>1, Zenon DEF TypeOK
      <4>5. QED
        BY <4>2, <4>3, <4>4
    <3>2. CASE ~(Storable(t) /\ status[t] = "none")
      BY <1>1, <3>2 DEF TypeOK, Enqueue
    <3>3. QED
      BY <3>1, <3>2
  <2>2. requested' \subseteq Tasks
    BY <1>1 DEF TypeOK, Enqueue
  <2>3. UNCHANGED <<age, enabled, workerVars, pushVars, faults>>
    BY <1>1 DEF Enqueue
  <2>4. QED
    BY <2>1, <2>2, <2>3 DEF TypeOK, workerVars, pushVars
<1>2. ASSUME NEW d \in Devices, NEW on \in BOOLEAN, SetDevice(d, on)
      PROVE  TypeOK'
  BY <1>2 DEF TypeOK, SetDevice, rowVars, workerVars, pushVars
<1>3. ASSUME NEW w \in Workers, ClaimBatch(w) PROVE TypeOK'
  <2>1. PICK C \in ClaimableBatches :
          /\ status' = [t \in Tasks |-> IF t \in C THEN "pending" ELSE status[t]]
          /\ attempt' = [t \in Tasks |->
               IF t \in C /\ attempt[t] < AttemptCap THEN attempt[t] + 1
               ELSE attempt[t]]
          /\ wait' = [t \in Tasks |-> IF t \in C THEN ClaimWait ELSE wait[t]]
          /\ batch' = [batch EXCEPT ![w] = C]
          /\ seen' = [seen EXCEPT ![w] =
                        [t \in Tasks |-> IF t \in C THEN attempt'[t] ELSE 0]]
    BY <1>3 DEF ClaimBatch
  <2>2. C \subseteq Tasks
    BY DEF ClaimableBatches, Due
  <2>3. status' \in [Tasks -> {"none", "sent"} \cup Unsent]
    BY <2>1 DEF TypeOK
  <2>4. attempt' \in [Tasks -> 0..AttemptCap]
    BY <2>1 DEF TypeOK
  <2>5. wait' \in [Tasks -> (-MaxOverdue)..Longest]
    BY <2>1 DEF TypeOK, ClaimWait
  <2>6. seen' \in [Workers -> [Tasks -> 0..AttemptCap]]
    BY <2>1, <2>4 DEF TypeOK
  <2>7. batch' \in [Workers -> SUBSET Tasks] /\ left' \in [Workers -> 0..Lease]
    BY <1>3, <2>1, <2>2 DEF TypeOK, ClaimBatch
  <2>8. QED
    BY <1>3, <2>3, <2>4, <2>5, <2>6, <2>7 DEF TypeOK, ClaimBatch, pushVars
<1>4. ASSUME NEW w \in Workers, NEW t \in Tasks, StartTask(w, t) PROVE TypeOK'
  BY <1>4 DEF TypeOK, StartTask, Active, rowVars, pushVars
<1>5. ASSUME NEW w \in Workers, NEW t \in Tasks, ListError(w, t) PROVE TypeOK'
  BY <1>5 DEF TypeOK, ListError, rowVars, pushVars
<1>6. ASSUME NEW w \in Workers, NEW d \in Devices, SendOk(w, d) PROVE TypeOK'
  BY <1>6 DEF TypeOK, WorkerShape, SendOk, NextDevice, rowVars
<1>7. ASSUME NEW w \in Workers, NEW d \in Devices, NEW disabled \in BOOLEAN,
             SendGone(w, d, disabled)
      PROVE  TypeOK'
  BY <1>7 DEF TypeOK, WorkerShape, SendGone, NextDevice, rowVars
<1>8. ASSUME NEW w \in Workers, SendError(w) PROVE TypeOK'
  BY <1>8 DEF TypeOK, SendError, ErrorResult, rowVars, pushVars
<1>9. ASSUME NEW w \in Workers, MarkSent(w) PROVE TypeOK'
  <2>1. cur[w] \in Tasks
    BY <1>9 DEF TypeOK, WorkerShape, MarkSent
  <2>2. /\ status' \in [Tasks -> {"none", "sent"} \cup Unsent]
        /\ wait' \in [Tasks -> (-MaxOverdue)..Longest]
        /\ age' \in [Tasks -> 0..(Retention + 1)]
    <3>1. CASE status[cur[w]] = "none"
      BY <1>9, <3>1 DEF TypeOK, MarkSent
    <3>2. CASE status[cur[w]] # "none"
      <4>1. /\ status' = [status EXCEPT ![cur[w]] = "sent"]
            /\ wait' = [wait EXCEPT ![cur[w]] = 0]
            /\ age' = [age EXCEPT ![cur[w]] = 0]
        BY <1>9, <3>2 DEF MarkSent
      <4>2. status' \in [Tasks -> {"none", "sent"} \cup Unsent]
        BY <2>1, <4>1 DEF TypeOK
      <4>3. age' \in [Tasks -> 0..(Retention + 1)]
        BY <2>1, <4>1 DEF TypeOK
      <4>4. wait' \in [Tasks -> (-MaxOverdue)..Longest]
        BY <1>0, <2>1, <4>1, Zenon DEF TypeOK
      <4>5. QED
        BY <4>2, <4>3, <4>4
    <3>3. QED
      BY <3>1, <3>2
  <2>3. FinishTask(w)
    BY <1>9 DEF MarkSent
  <2>4. UNCHANGED <<requested, attempt, enabled, pushVars, faults>>
    BY <1>9 DEF MarkSent
  <2>5. QED
    BY <2>1, <2>2, <2>3, <2>4, FinishTaskType DEF TypeOK, pushVars
<1>10. ASSUME NEW w \in Workers, MarkFailed(w) PROVE TypeOK'
  <2>1. cur[w] \in Tasks
    BY <1>10 DEF TypeOK, WorkerShape, MarkFailed
  <2>2. RetryDelay(seen[w][cur[w]]) \in (-MaxOverdue)..Longest
    BY <2>1 DEF TypeOK
  <2>3. /\ status' \in [Tasks -> {"none", "sent"} \cup Unsent]
        /\ wait' \in [Tasks -> (-MaxOverdue)..Longest]
        /\ age' \in [Tasks -> 0..(Retention + 1)]
    <3>1. CASE status[cur[w]] = "none"
      BY <1>10, <3>1 DEF TypeOK, MarkFailed
    <3>2. CASE status[cur[w]] # "none"
      <4>1. /\ status' = [status EXCEPT ![cur[w]] = "failed"]
            /\ wait' = [wait EXCEPT ![cur[w]] = RetryDelay(seen[w][cur[w]])]
            /\ age' = [age EXCEPT ![cur[w]] = 0]
        BY <1>10, <3>2 DEF MarkFailed
      <4>2. status' \in [Tasks -> {"none", "sent"} \cup Unsent]
        BY <2>1, <4>1 DEF TypeOK
      <4>3. age' \in [Tasks -> 0..(Retention + 1)]
        BY <2>1, <4>1 DEF TypeOK
      <4>4. wait' \in [Tasks -> (-MaxOverdue)..Longest]
        BY <2>2, <2>1, <4>1, Zenon DEF TypeOK
      <4>5. QED
        BY <4>2, <4>3, <4>4
    <3>3. QED
      BY <3>1, <3>2
  <2>4. FinishTask(w)
    BY <1>10 DEF MarkFailed
  <2>5. UNCHANGED <<requested, attempt, enabled, pushVars, faults>>
    BY <1>10 DEF MarkFailed
  <2>6. QED
    BY <2>1, <2>3, <2>4, <2>5, FinishTaskType DEF TypeOK, pushVars
<1>11. ASSUME NEW w \in Workers, MarkLost(w) PROVE TypeOK'
  <2>1. cur[w] \in Tasks
    BY <1>11 DEF TypeOK, WorkerShape, MarkLost
  <2>2. QED
    BY <1>11, <2>1, FinishTaskType DEF TypeOK, MarkLost, rowVars, pushVars
<1>12. ASSUME NEW w \in Workers, Crash(w) PROVE TypeOK'
  BY <1>12 DEF TypeOK, Crash, rowVars, pushVars
<1>13. CASE DeleteSent
  BY <1>13 DEF TypeOK, DeleteSent, Purgeable, workerVars, pushVars
<1>14. CASE Tick
  <2>1. wait' \in [Tasks -> (-MaxOverdue)..Longest]
    BY <1>14 DEF TypeOK, Tick, CanAge
  <2>2. QED
    BY <1>14, <2>1 DEF TypeOK, Tick, pushVars
<1>15. CASE UNCHANGED vars
  BY <1>15 DEF TypeOK, vars, rowVars, workerVars, pushVars
<1>16. QED
  BY <1>1, <1>2, <1>3, <1>4, <1>5, <1>6, <1>7, <1>8, <1>9, <1>10, <1>11,
     <1>12, <1>13, <1>14, <1>15 DEF Next, Process

LEMMA WorkerShapeStep ==
  TypeOK /\ WorkerShape /\ [Next]_vars => WorkerShape'
<1> SUFFICES ASSUME TypeOK, WorkerShape, [Next]_vars PROVE WorkerShape'
  OBVIOUS
<1> USE DEF WorkerShape, TypeOK
<1>1. ASSUME NEW t \in Tasks, Enqueue(t) PROVE WorkerShape'
  BY <1>1 DEF Enqueue, workerVars
<1>2. ASSUME NEW d \in Devices, NEW on \in BOOLEAN, SetDevice(d, on)
      PROVE  WorkerShape'
  BY <1>2 DEF SetDevice, workerVars
<1>3. ASSUME NEW w \in Workers, ClaimBatch(w) PROVE WorkerShape'
  <2>1. PICK C \in ClaimableBatches : batch' = [batch EXCEPT ![w] = C]
    BY <1>3 DEF ClaimBatch
  <2>2. pc' = [pc EXCEPT ![w] = "next"] /\ UNCHANGED cur
    BY <1>3 DEF ClaimBatch
  <2>3. QED
    BY <2>1, <2>2
<1>4. ASSUME NEW w \in Workers, NEW t \in Tasks, StartTask(w, t)
      PROVE  WorkerShape'
  BY <1>4 DEF StartTask
<1>5. ASSUME NEW w \in Workers, NEW t \in Tasks, ListError(w, t)
      PROVE  WorkerShape'
  BY <1>5 DEF ListError
<1>6. ASSUME NEW w \in Workers, NEW d \in Devices, SendOk(w, d)
      PROVE  WorkerShape'
  BY <1>6 DEF SendOk, NextDevice
<1>7. ASSUME NEW w \in Workers, NEW d \in Devices, NEW disabled \in BOOLEAN,
             SendGone(w, d, disabled)
      PROVE  WorkerShape'
  BY <1>7 DEF SendGone, NextDevice
<1>8. ASSUME NEW w \in Workers, SendError(w) PROVE WorkerShape'
  BY <1>8 DEF SendError
<1>9. ASSUME NEW w \in Workers, FinishTask(w) PROVE WorkerShape'
  BY <1>9 DEF FinishTask
<1>10. ASSUME NEW w \in Workers, Crash(w) PROVE WorkerShape'
  BY <1>10 DEF Crash
<1>11. CASE DeleteSent \/ Tick
  BY <1>11 DEF DeleteSent, Tick, workerVars
<1>12. CASE UNCHANGED vars
  BY <1>12 DEF vars, workerVars
<1>13. QED
  BY <1>1, <1>2, <1>3, <1>4, <1>5, <1>6, <1>7, <1>8, <1>9, <1>10, <1>11,
     <1>12 DEF Next, Process, MarkSent, MarkFailed, MarkLost

\* Every step of the queue is well-typed: in particular next_attempt_at stays
\* between the bounded overdue time and the longest delay of the code, and
\* an attempt counter within the values told apart.
THEOREM TypeCorrect == Spec => [](TypeOK /\ WorkerShape)
<1>1. TypeOK /\ WorkerShape /\ [Next]_vars => (TypeOK /\ WorkerShape)'
  BY TypeStep, WorkerShapeStep
<1>2. QED
  BY InitInv, <1>1, PTL DEF Spec
-----------------------------------------------------------------------------
(* RoundComplete.                                                          *)

\* A device the worker has passed in the send loop has been served.
Served(w, d) == <<cur[w], d>> \in reached \cup gone

RoundInv ==
  \A w \in Workers :
    /\ pc[w] = "send" => \A d \in listed[w] \ todo[w] : Served(w, d)
    /\ pc[w] = "mark" /\ result[w] = "ok" => \A d \in listed[w] : Served(w, d)

LEMMA RoundStep == TypeOK /\ RoundInv /\ [Next]_vars => RoundInv'
<1> SUFFICES ASSUME TypeOK, RoundInv, [Next]_vars PROVE RoundInv'
  OBVIOUS
<1> USE DEF RoundInv, Served, TypeOK
<1>1. ASSUME UNCHANGED <<pc, cur, listed, todo, result, reached, gone>>
      PROVE  RoundInv'
  BY <1>1
<1>2. ASSUME NEW w \in Workers, ClaimBatch(w) PROVE RoundInv'
  BY <1>2 DEF ClaimBatch, pushVars
<1>3. ASSUME NEW w \in Workers, NEW t \in Tasks, StartTask(w, t)
      PROVE  RoundInv'
  BY <1>3 DEF StartTask, pushVars
<1>4. ASSUME NEW w \in Workers, NEW t \in Tasks, ListError(w, t)
      PROVE  RoundInv'
  BY <1>4 DEF ListError, pushVars
<1>5. ASSUME NEW w \in Workers, NEW d \in Devices, SendOk(w, d)
      PROVE  RoundInv'
  <2>1. reached \subseteq reached' /\ <<cur[w], d>> \in reached'
    BY <1>5 DEF SendOk
  <2>2. /\ pc[w] = "send"
        /\ todo' = [todo EXCEPT ![w] = @ \ {d}]
        /\ pc' = [pc EXCEPT ![w] = IF todo[w] = {d} THEN "mark" ELSE "send"]
        /\ UNCHANGED <<cur, listed, result, gone>>
    BY <1>5 DEF SendOk, NextDevice
  <2>3. QED
    BY <2>1, <2>2
<1>6. ASSUME NEW w \in Workers, NEW d \in Devices, NEW disabled \in BOOLEAN,
             SendGone(w, d, disabled)
      PROVE  RoundInv'
  BY <1>6 DEF SendGone, NextDevice
<1>7. ASSUME NEW w \in Workers, SendError(w) PROVE RoundInv'
  BY <1>7 DEF SendError, ErrorResult, pushVars
<1>8. ASSUME NEW w \in Workers, FinishTask(w), UNCHANGED pushVars
      PROVE  RoundInv'
  BY <1>8 DEF FinishTask, pushVars
<1>9. ASSUME NEW w \in Workers, Crash(w) PROVE RoundInv'
  BY <1>9 DEF Crash, pushVars
<1>10. QED
  <2> HIDE DEF RoundInv, Served, TypeOK
  <2>1. ASSUME NEW t \in Tasks, Enqueue(t) PROVE RoundInv'
    BY <1>1, <2>1 DEF Enqueue, workerVars, pushVars
  <2>2. ASSUME NEW d \in Devices, NEW on \in BOOLEAN, SetDevice(d, on)
        PROVE  RoundInv'
    BY <1>1, <2>2 DEF SetDevice, workerVars, pushVars
  <2>3. CASE DeleteSent \/ Tick
    BY <1>1, <2>3 DEF DeleteSent, Tick, workerVars, pushVars
  <2>4. CASE UNCHANGED vars
    BY <1>1, <2>4 DEF vars, workerVars, pushVars
  <2>5. QED
    BY <1>2, <1>3, <1>4, <1>5, <1>6, <1>7, <1>8, <1>9, <2>1, <2>2, <2>3,
       <2>4 DEF Next, Process, MarkSent, MarkFailed, MarkLost

\* A task is marked sent only after a push to every device ListActive gave
\* was accepted or reported gone, however many workers and devices there are
\* and whether or not the worker still holds its lease.
THEOREM RoundsComplete == Spec => []RoundComplete
<1>1. Init => RoundInv
  BY DEF Init, RoundInv
<1>2. RoundInv => RoundComplete
  BY DEF RoundInv, RoundComplete, Served
<1>3. QED
  BY TypeCorrect, <1>1, RoundStep, <1>2, PTL DEF Spec
-----------------------------------------------------------------------------
(* LeaseExclusive.                                                         *)

\* What the invariant says of one worker and one task it holds.
Leased(w, t) ==
  /\ status[t] = "pending"
  /\ left[w] > 0
  /\ wait[t] = left[w]
  /\ seen[w][t] = attempt[t]
  /\ \A v \in Workers \ {w} : t \notin batch[v]

LeaseInv == \A w \in Workers : \A t \in batch[w] : Leased(w, t)

\* A claim takes no task another worker holds: a held row is not due.
LEMMA ClaimKeepsLeases ==
  ASSUME TypeOK, WorkerShape, LeaseInv, NEW w \in Workers, ClaimBatch(w)
  PROVE  LeaseInv'
<1>1. PICK C \in ClaimableBatches :
        /\ status' = [t \in Tasks |-> IF t \in C THEN "pending" ELSE status[t]]
        /\ attempt' = [t \in Tasks |->
             IF t \in C /\ attempt[t] < AttemptCap THEN attempt[t] + 1
             ELSE attempt[t]]
        /\ wait' = [t \in Tasks |-> IF t \in C THEN ClaimWait ELSE wait[t]]
        /\ batch' = [batch EXCEPT ![w] = C]
        /\ seen' = [seen EXCEPT ![w] =
                      [t \in Tasks |-> IF t \in C THEN attempt'[t] ELSE 0]]
  BY DEF ClaimBatch
<1>2. left' = [left EXCEPT ![w] = Lease] /\ batch[w] = {}
  BY DEF ClaimBatch, WorkerShape
<1>3. C \subseteq Tasks /\ \A t \in C : wait[t] <= 0
  BY DEF ClaimableBatches, Due
<1>4. ASSUME NEW v \in Workers PROVE C \cap batch[v] = {}
  <2>1. batch[v] \subseteq Tasks
    BY DEF TypeOK
  <2>2. \A t \in batch[v] : wait[t] > 0
    BY <2>1 DEF LeaseInv, Leased
  <2>3. \A t \in Tasks : wait[t] \in Int
    BY OutboxAssumption, DelayBounds DEF TypeOK
  <2>4. QED
    BY <1>3, <2>2, <2>3
<1>5. ASSUME NEW t \in C PROVE Leased(w, t)'
  <2>1. status'[t] = "pending" /\ wait'[t] = Lease /\ left'[w] = Lease
    BY <1>1, <1>2, <1>3 DEF TypeOK, ClaimWait
  <2>2. seen'[w][t] = attempt'[t]
    BY <1>1, <1>3 DEF TypeOK
  <2>3. \A v \in Workers \ {w} : t \notin batch'[v]
    BY <1>1, <1>4 DEF TypeOK
  <2>4. QED
    BY <2>1, <2>2, <2>3, OutboxAssumption DEF Leased
<1>6. ASSUME NEW v \in Workers \ {w}, NEW t \in batch[v] PROVE Leased(v, t)'
  <2>1. t \in Tasks /\ t \notin C
    BY <1>4 DEF TypeOK
  <2>2. /\ status'[t] = status[t] /\ wait'[t] = wait[t]
        /\ attempt'[t] = attempt[t]
    BY <1>1, <2>1
  <2>3. seen'[v] = seen[v] /\ left'[v] = left[v]
    BY <1>1, <1>2 DEF TypeOK
  <2>4. \A u \in Workers \ {v} : t \notin batch'[u]
    BY <1>1, <2>1 DEF LeaseInv, Leased, TypeOK
  <2>5. QED
    BY <2>2, <2>3, <2>4 DEF LeaseInv, Leased
<1>7. batch'[w] = C /\ \A v \in Workers \ {w} : batch'[v] = batch[v]
  BY <1>1 DEF TypeOK
<1>8. QED
  BY <1>5, <1>6, <1>7 DEF LeaseInv

\* The end of a task disturbs no other held row: nobody else holds cur[w].
LEMMA FinishKeepsLeases ==
  ASSUME TypeOK, WorkerShape, LeaseInv, NEW w \in Workers, FinishTask(w),
         cur[w] \in batch[w], UNCHANGED attempt,
         \A t \in Tasks \ {cur[w]} :
           status'[t] = status[t] /\ wait'[t] = wait[t]
  PROVE  LeaseInv'
<1>1. cur[w] \in Tasks
  BY DEF TypeOK
<1>2. /\ batch'[w] = batch[w] \ {cur[w]}
      /\ \A v \in Workers \ {w} :
           batch'[v] = batch[v] /\ left'[v] = left[v] /\ seen'[v] = seen[v]
  BY DEF FinishTask, TypeOK
<1>3. batch'[w] # {} => left'[w] = left[w]
  BY <1>2 DEF FinishTask, TypeOK
<1>4. \A t \in Tasks \ {cur[w]} : seen'[w][t] = seen[w][t]
  BY DEF FinishTask, TypeOK
<1>5. ASSUME NEW v \in Workers, NEW t \in batch'[v] PROVE Leased(v, t)'
  <2>1. t \in batch[v] /\ t \in Tasks
    BY <1>2 DEF TypeOK
  <2>2. Leased(v, t)
    BY <2>1 DEF LeaseInv
  <2>3. t # cur[w]
    BY <1>2, <2>2 DEF Leased
  <2>4. left'[v] = left[v] /\ seen'[v][t] = seen[v][t]
    BY <1>2, <1>3, <1>4, <2>1, <2>3
  <2>5. \A u \in Workers \ {v} : t \notin batch'[u]
    BY <1>2, <2>2 DEF Leased
  <2>6. QED
    BY <2>1, <2>2, <2>3, <2>4, <2>5 DEF Leased
<1>6. QED
  BY <1>5 DEF LeaseInv

\* The clock takes the same from a lease and from the rows held under it.
LEMMA TickKeepsLeases ==
  ASSUME TypeOK, WorkerShape, LeaseInv, Prompt, Tick
  PROVE  LeaseInv'
<1> SUFFICES ASSUME NEW w \in Workers, NEW t \in batch'[w]
             PROVE  Leased(w, t)'
  BY DEF LeaseInv
<1>1. t \in batch[w] /\ t \in Tasks /\ Leased(w, t)
  BY DEF Tick, LeaseInv, TypeOK
<1>2. left[w] \in Nat /\ left[w] > 1
  BY <1>1, OutboxAssumption DEF Tick, MayTick, WorkerShape, TypeOK
<1>3. CanAge(t)
  BY <1>1, <1>2 DEF CanAge, Leased, Unsent
<1>4. wait'[t] = wait[t] - 1 /\ left'[w] = left[w] - 1
  BY <1>1, <1>2, <1>3 DEF Tick
<1>5. QED
  BY <1>1, <1>2, <1>4 DEF Leased, Tick

LEMMA LeaseStep ==
  Prompt /\ TypeOK /\ WorkerShape /\ LeaseInv /\ [Next]_vars => LeaseInv'
<1> SUFFICES ASSUME Prompt, TypeOK, WorkerShape, LeaseInv, [Next]_vars
             PROVE  LeaseInv'
  OBVIOUS
<1>1. ASSUME NEW t \in Tasks, Enqueue(t) PROVE LeaseInv'
  <2>1. UNCHANGED <<batch, left, seen>>
    BY <1>1 DEF Enqueue, workerVars
  <2>2. \A u \in Tasks : status[u] # "none" =>
          status'[u] = status[u] /\ wait'[u] = wait[u]
                                 /\ attempt'[u] = attempt[u]
    BY <1>1 DEF Enqueue, TypeOK
  <2>3. \A w \in Workers : batch[w] \subseteq Tasks
    BY DEF TypeOK
  <2>4. QED
    BY <2>1, <2>2, <2>3 DEF LeaseInv, Leased
<1>2. ASSUME UNCHANGED <<status, attempt, wait, batch, seen, left>>
      PROVE  LeaseInv'
  BY <1>2 DEF LeaseInv, Leased
<1>3. ASSUME NEW w \in Workers, MarkSent(w) \/ MarkFailed(w) \/ MarkLost(w)
      PROVE  LeaseInv'
  <2>1. FinishTask(w) /\ cur[w] \in batch[w] /\ UNCHANGED attempt
    BY <1>3 DEF MarkSent, MarkFailed, MarkLost, WorkerShape, rowVars
  <2>2. \A t \in Tasks \ {cur[w]} :
          status'[t] = status[t] /\ wait'[t] = wait[t]
    BY <1>3 DEF MarkSent, MarkFailed, MarkLost, rowVars, TypeOK
  <2>3. QED
    BY <2>1, <2>2, FinishKeepsLeases
<1>4. ASSUME NEW w \in Workers, Crash(w) PROVE LeaseInv'
  <2>1. /\ UNCHANGED <<status, attempt, wait>>
        /\ batch'[w] = {}
        /\ \A v \in Workers \ {w} :
             batch'[v] = batch[v] /\ left'[v] = left[v] /\ seen'[v] = seen[v]
    BY <1>4 DEF Crash, rowVars, TypeOK
  <2>2. QED
    BY <2>1 DEF LeaseInv, Leased
<1>5. CASE DeleteSent
  <2>1. /\ UNCHANGED <<batch, left, seen, wait>>
        /\ \A t \in Tasks : status[t] = "pending" =>
             status'[t] = status[t] /\ attempt'[t] = attempt[t]
    BY <1>5 DEF DeleteSent, Purgeable, workerVars
  <2>2. \A w \in Workers : batch[w] \subseteq Tasks
    BY DEF TypeOK
  <2>3. QED
    BY <2>1, <2>2 DEF LeaseInv, Leased
<1>6. ASSUME NEW w \in Workers, Process(w) PROVE LeaseInv'
  BY <1>2, <1>3, <1>6
     DEF Process, StartTask, ListError, SendOk, SendGone, SendError, rowVars
<1>7. ASSUME NEW d \in Devices, NEW on \in BOOLEAN, SetDevice(d, on)
      PROVE  LeaseInv'
  BY <1>2, <1>7 DEF SetDevice, rowVars, workerVars
<1>8. CASE UNCHANGED vars
  BY <1>2, <1>8 DEF vars, rowVars, workerVars
<1>9. QED
  BY <1>1, <1>4, <1>5, <1>6, <1>7, <1>8, ClaimKeepsLeases, TickKeepsLeases
     DEF Next

\* Two workers never process the same task while batches are finished within
\* their lease, and a held row stays hidden from every claim until then.
THEOREM LeasesExclude == Spec => []LeaseExclusive
<1>1. Init => LeaseInv
  BY DEF Init, LeaseInv
<1>2. LeaseInv => LeaseExclusive
  BY DEF LeaseInv, Leased, LeaseExclusive
<1>3. ~Prompt => LeaseExclusive
  BY DEF LeaseExclusive
<1>4. ASSUME Prompt PROVE Spec => []LeaseExclusive
  BY TypeCorrect, <1>1, <1>2, <1>4, LeaseStep, PTL DEF Spec
<1>5. ASSUME ~Prompt PROVE Spec => []LeaseExclusive
  BY <1>3, <1>5, PTL
<1>6. QED
  BY <1>4, <1>5
-----------------------------------------------------------------------------
(* The refinement: under Prompt the queue implements NotificationDelivery. *)

\* A row exists only for a task that has been requested and is storable.
RowInv == \A t \in Tasks : status[t] # "none" => t \in requested /\ Storable(t)

LEMMA RowStep == TypeOK /\ WorkerShape /\ RowInv /\ [Next]_vars => RowInv'
<1> SUFFICES ASSUME TypeOK, WorkerShape, RowInv, [Next]_vars PROVE RowInv'
  OBVIOUS
<1>1. ASSUME UNCHANGED requested,
             \A t \in Tasks : status'[t] # "none" => status[t] # "none"
      PROVE  RowInv'
  BY <1>1 DEF RowInv, Storable
<1>2. ASSUME NEW t \in Tasks, Enqueue(t) PROVE RowInv'
  BY <1>2 DEF RowInv, Storable, Enqueue, TypeOK
<1>3. ASSUME NEW w \in Workers, ClaimBatch(w) PROVE RowInv'
  <2>1. PICK C \in ClaimableBatches :
          status' = [t \in Tasks |-> IF t \in C THEN "pending" ELSE status[t]]
    BY <1>3 DEF ClaimBatch
  <2>2. \A t \in C : status[t] # "none"
    BY DEF ClaimableBatches, Due, Unsent
  <2>3. UNCHANGED requested
    BY <1>3 DEF ClaimBatch
  <2>4. QED
    BY <1>1, <2>1, <2>2, <2>3
<1>4. ASSUME NEW w \in Workers, MarkSent(w) PROVE RowInv'
  BY <1>1, <1>4 DEF MarkSent, TypeOK
<1>5. ASSUME NEW w \in Workers, MarkFailed(w) PROVE RowInv'
  BY <1>1, <1>5 DEF MarkFailed, TypeOK
<1>6. CASE DeleteSent
  BY <1>1, <1>6 DEF DeleteSent
<1>7. ASSUME UNCHANGED <<requested, status>> PROVE RowInv'
  BY <1>1, <1>7
<1>8. ASSUME NEW w \in Workers, Process(w) \/ Crash(w) PROVE RowInv'
  BY <1>4, <1>5, <1>7, <1>8 DEF Process, StartTask, ListError, SendOk,
     SendGone, SendError, MarkLost, Crash, rowVars
<1>9. ASSUME NEW d \in Devices, NEW on \in BOOLEAN, SetDevice(d, on)
      PROVE  RowInv'
  BY <1>7, <1>9 DEF SetDevice, rowVars
<1>10. CASE Tick \/ UNCHANGED vars
  BY <1>7, <1>10 DEF Tick, vars, rowVars
<1>11. QED
  BY <1>2, <1>3, <1>6, <1>8, <1>9, <1>10 DEF Next

RefInv == TypeOK /\ WorkerShape /\ LeaseInv /\ RowInv

LEMMA EnqueueRefines ==
  ASSUME RefInv, NEW t \in Tasks, Enqueue(t)
  PROVE  [Delivery!Next]_(Delivery!vars)
<1> USE DEF RefInv
<1>1. UNCHANGED reached /\ requested' = requested \cup {t} /\ t \notin requested
  BY DEF Enqueue, pushVars
<1>2. status[t] = "none"
  BY <1>1 DEF RowInv
<1>3. CASE Storable(t)
  <2>1. status' = [status EXCEPT ![t] = "pending"]
    BY <1>2, <1>3 DEF Enqueue
  <2>2. Phase(t) = "absent" /\ Phase(t)' = "owed"
    BY <1>1, <1>2, <2>1 DEF Phase, Unsent, TypeOK
  <2>3. \A u \in Tasks \ {t} : Phase(u)' = Phase(u)
    BY <1>1, <2>1 DEF Phase, TypeOK, Storable
  <2>4. Delivery!Accept(t)
    BY <1>1, <2>2, <2>3 DEF Delivery!Accept, Delivery!Move
  <2>5. QED
    BY <2>4 DEF Delivery!Next
<1>4. CASE ~Storable(t)
  <2>1. UNCHANGED status
    BY <1>4 DEF Enqueue
  <2>2. \A u \in Tasks : Phase(u)' = Phase(u)
    BY <1>1, <1>4, <2>1 DEF Phase, Storable
  <2>3. QED
    BY <1>1, <2>2 DEF Delivery!vars
<1>5. QED
  BY <1>3, <1>4

LEMMA ClaimRefines ==
  ASSUME RefInv, NEW w \in Workers, ClaimBatch(w)
  PROVE  UNCHANGED Delivery!vars
<1>1. PICK C \in ClaimableBatches :
        status' = [t \in Tasks |-> IF t \in C THEN "pending" ELSE status[t]]
  BY DEF ClaimBatch
<1>2. \A t \in C : status[t] \in Unsent
  BY DEF ClaimableBatches, Due
<1>3. UNCHANGED <<requested, reached>>
  BY DEF ClaimBatch, pushVars
<1>4. \A t \in Tasks : Phase(t)' = Phase(t)
  BY <1>1, <1>2, <1>3 DEF Phase, Unsent, Storable
<1>5. QED
  BY <1>3, <1>4 DEF Delivery!vars

LEMMA SendRefines ==
  ASSUME RefInv, NEW w \in Workers, NEW d \in Devices, SendOk(w, d)
  PROVE  [Delivery!Next]_(Delivery!vars)
<1>1. UNCHANGED <<requested, status>>
  BY DEF SendOk, rowVars
<1>2. \A t \in Tasks : Phase(t)' = Phase(t)
  BY <1>1 DEF Phase, Storable
<1>3. cur[w] \in Tasks /\ Phase(cur[w]) = "owed"
  BY DEF RefInv, TypeOK, WorkerShape, LeaseInv, Leased, SendOk, Phase, Unsent
<1>4. CASE <<cur[w], d>> \in reached
  <2>1. UNCHANGED reached
    BY <1>4 DEF SendOk
  <2>2. QED
    BY <1>2, <2>1 DEF Delivery!vars
<1>5. CASE <<cur[w], d>> \notin reached
  <2>1. Delivery!Push(cur[w], d)
    BY <1>2, <1>3, <1>5 DEF SendOk, Delivery!Push
  <2>2. QED
    BY <1>3, <2>1 DEF Delivery!Next
<1>6. QED
  BY <1>4, <1>5

LEMMA MarkSentRefines ==
  ASSUME RefInv, NEW w \in Workers, MarkSent(w)
  PROVE  [Delivery!Next]_(Delivery!vars)
<1>1. cur[w] \in Tasks /\ status[cur[w]] = "pending"
  BY DEF RefInv, TypeOK, WorkerShape, LeaseInv, Leased, MarkSent
<1>2. status' = [status EXCEPT ![cur[w]] = "sent"]
      /\ UNCHANGED <<requested, reached>>
  BY <1>1 DEF MarkSent, pushVars
<1>3. PICK t \in Tasks : t = cur[w]
  BY <1>1
<1>4. Phase(t) = "owed"
  BY <1>1, <1>3 DEF Phase, Unsent
<1>5. Phase(t)' = "settled"
  BY <1>1, <1>2, <1>3 DEF Phase, Unsent, RefInv, TypeOK
<1>6. \A u \in Tasks \ {t} : Phase(u)' = Phase(u)
  BY <1>2, <1>3 DEF Phase, Storable, RefInv, TypeOK
<1>7. Delivery!Settle(t)
  BY <1>2, <1>4, <1>5, <1>6 DEF Delivery!Settle, Delivery!Move
<1>8. QED
  BY <1>7 DEF Delivery!Next

LEMMA MarkFailedRefines ==
  ASSUME RefInv, NEW w \in Workers, MarkFailed(w)
  PROVE  UNCHANGED Delivery!vars
<1>1. cur[w] \in Tasks /\ status[cur[w]] = "pending"
  BY DEF RefInv, TypeOK, WorkerShape, LeaseInv, Leased, MarkFailed
<1>2. status' = [status EXCEPT ![cur[w]] = "failed"]
      /\ UNCHANGED <<requested, reached>>
  BY <1>1 DEF MarkFailed, pushVars
<1>3. \A t \in Tasks : Phase(t)' = Phase(t)
  BY <1>1, <1>2 DEF Phase, Unsent, Storable, RefInv, TypeOK
<1>4. QED
  BY <1>2, <1>3 DEF Delivery!vars

LEMMA DeleteRefines ==
  ASSUME RefInv, DeleteSent
  PROVE  [Delivery!Next]_(Delivery!vars)
<1>1. status' = [t \in Tasks |-> IF t \in Purgeable THEN "none" ELSE status[t]]
      /\ UNCHANGED <<requested, reached>>
  BY DEF DeleteSent, pushVars
<1>2. \A t \in Purgeable : t \in Tasks /\ status[t] = "sent"
  BY DEF Purgeable
<1>3. \A t \in Purgeable : Phase(t) = "settled"
  BY <1>2 DEF Phase, Unsent
<1>4. \A t \in Purgeable : Phase(t)' = "forgotten"
  BY <1>1, <1>2 DEF Phase, Unsent, Storable, RefInv, RowInv
<1>5. \A t \in Tasks \ Purgeable : Phase(t)' = Phase(t)
  BY <1>1 DEF Phase, Storable
<1>6. Delivery!Forget(Purgeable)
  BY <1>1, <1>2, <1>3, <1>4, <1>5 DEF Delivery!Forget
<1>7. QED
  BY <1>2, <1>6 DEF Delivery!Next

LEMMA StepRefines ==
  RefInv /\ [Next]_vars => [Delivery!Next]_(Delivery!vars)
<1> SUFFICES ASSUME RefInv, [Next]_vars
             PROVE  [Delivery!Next]_(Delivery!vars)
  OBVIOUS
<1>1. ASSUME UNCHANGED <<requested, status, reached>>
      PROVE  UNCHANGED Delivery!vars
  BY <1>1 DEF Delivery!vars, Phase, Storable
<1>2. ASSUME NEW w \in Workers, Process(w)
      PROVE  [Delivery!Next]_(Delivery!vars)
  <2>1. CASE \E d \in Devices : SendOk(w, d)
    BY <2>1, SendRefines
  <2>2. CASE MarkSent(w) \/ MarkFailed(w)
    BY <2>2, MarkSentRefines, MarkFailedRefines
  <2>3. CASE UNCHANGED <<requested, status, reached>>
    BY <1>1, <2>3
  <2>4. QED
    BY <1>2, <2>1, <2>2, <2>3 DEF Process, StartTask, ListError, SendGone,
       SendError, MarkLost, rowVars, pushVars
<1>3. ASSUME NEW d \in Devices, NEW on \in BOOLEAN, SetDevice(d, on)
      PROVE  UNCHANGED Delivery!vars
  BY <1>1, <1>3 DEF SetDevice, rowVars, pushVars
<1>4. ASSUME NEW w \in Workers, Crash(w) PROVE UNCHANGED Delivery!vars
  BY <1>1, <1>4 DEF Crash, rowVars, pushVars
<1>5. CASE Tick \/ UNCHANGED vars
  BY <1>1, <1>5 DEF Tick, vars, rowVars, pushVars
<1>6. QED
  BY <1>2, <1>3, <1>4, <1>5, EnqueueRefines, ClaimRefines, DeleteRefines
     DEF Next

LEMMA InitRefines == Init => RowInv /\ Delivery!Init
  BY DEF Init, RowInv, Delivery!Init, Phase, Unsent

\* As long as every batch is finished within its lease the queue of workers,
\* leases, retries and crashes is the simple delivery contract: pushes happen
\* only while a notification is owed, it is settled once, and it is forgotten
\* only afterwards.
THEOREM QueueImplementsDelivery == Prompt /\ Spec => ImplementsDelivery
<1>1. Prompt /\ RefInv /\ [Next]_vars => RefInv'
  BY TypeStep, WorkerShapeStep, LeaseStep, RowStep DEF RefInv
<1>2. Init => RefInv
  BY InitInv, InitRefines DEF Init, LeaseInv, RefInv
<1>3. ASSUME Prompt PROVE Spec => ImplementsDelivery
  BY <1>1, <1>2, <1>3, InitRefines, StepRefines, PTL
     DEF Spec, ImplementsDelivery, Delivery!Spec
<1>4. QED
  BY <1>3
=============================================================================
