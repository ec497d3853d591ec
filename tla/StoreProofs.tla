------------------------------ MODULE StoreProofs ------------------------------
(***************************************************************************)
(* Proofs about the two components of internal/store that have a module of *)
(* their own and no other theorems: Dialogs, for every number of users and *)
(* messages, every page size and every precision of the cursor; and        *)
(* Migrations, for every number of processes, files and faults, and every  *)
(* cutoff and dependency between the files.  The two share no variable.    *)
(***************************************************************************)
EXTENDS Dialogs, Migrations, FiniteSetTheorems, TLAPS

(* Dialogs.                                                                *)

\* Cutting a time to its second never makes it later.
LEMMA CutBounds == \A t \in Nat : Cut(t) \in 0..t
<1> SUFFICES ASSUME NEW t \in Nat PROVE Cut(t) \in 0..t
  OBVIOUS
<1>1. Second \in Nat /\ Second >= 1
  BY DialogsAssumption
<1>2. /\ t \div Second \in Nat
      /\ t = Second * (t \div Second) + (t % Second)
      /\ t % Second \in Nat
  BY <1>1
<1>3. QED
  BY <1>1, <1>2 DEF Cut

LEMMA Times == Unset \in Int /\ MaxTime \in Nat /\ Unset = -1
BY DialogsAssumption DEF Unset

\* Both orders of a pair have the same row.
LEMMA OneKey ==
  ASSUME NEW u \in Users, NEW v \in Users
  PROVE  /\ DialogUsers(u, v) \in Users \X Users
         /\ DialogUsers(u, v) = DialogUsers(v, u)
<1>1. u \in Int /\ v \in Int
  BY DialogsAssumption
<1>2. QED
  BY <1>1 DEF DialogUsers

\* The dialog of a pair, as GetOrCreate stores it.
Row(p) == row[DialogUsers(p[1], p[2])]

\* Whoever was given a dialog was given the one of its row.
Opened == \A p \in Pairs : opened[p] # None => opened[p] = Row(p)

\* A posted message carries its time.
Stamped == \A m \in Messages : home[m] # None => stamp[m] \in 0..MaxTime

LEMMA InitInv == Init => TypeOK /\ Opened /\ Stamped
<1> SUFFICES ASSUME Init PROVE TypeOK /\ Opened /\ Stamped
  OBVIOUS
<1>1. TypeOK
  BY Times DEF Init, TypeOK
<1>2. Opened
  BY DEF Init, Opened
<1>3. Stamped
  BY DEF Init, Stamped
<1>4. QED
  BY <1>1, <1>2, <1>3

\* What GetOrCreate writes.
LEMMA GivenRow ==
  ASSUME TypeOK, NEW u \in Users, NEW v \in Users, GetOrCreate(u, v)
  PROVE  /\ <<u, v>> \in Pairs
         /\ DialogUsers(u, v) \in Users \X Users
         /\ \E id \in DialogIds :
              /\ row' = [row EXCEPT ![DialogUsers(u, v)] = id]
              /\ opened' = [opened EXCEPT ![<<u, v>>] = id]
              /\ row[DialogUsers(u, v)] \in {None, id}
  BY OneKey, DialogsAssumption DEF GetOrCreate, Pairs, TypeOK

LEMMA TypeStep == TypeOK /\ Stamped /\ [Next]_vars => TypeOK'
<1> SUFFICES ASSUME TypeOK, Stamped, [Next]_vars PROVE TypeOK'
  OBVIOUS
<1> USE Times DEF tableVars, walkVars
<1>1. ASSUME NEW u \in Users, NEW v \in Users, GetOrCreate(u, v) PROVE TypeOK'
  <2>1. /\ row' \in [Users \X Users -> DialogIds \cup {None}]
        /\ opened' \in [Pairs -> DialogIds \cup {None}]
    <3>1. PICK id \in DialogIds :
            /\ row' = [row EXCEPT ![DialogUsers(u, v)] = id]
            /\ opened' = [opened EXCEPT ![<<u, v>>] = id]
      BY <1>1, GivenRow
    <3>2. QED
      BY <3>1 DEF TypeOK
  <2>2. QED
    BY <1>1, <2>1 DEF GetOrCreate, TypeOK
<1>2. ASSUME NEW p \in Pairs, NEW m \in Messages, BeginPost(p, m) PROVE TypeOK'
  <2>1. opened[p] \in DialogIds /\ opened[p] # None /\ now \in Unset..MaxTime
    BY <1>2 DEF BeginPost, TypeOK
  <2>2. home' = [home EXCEPT ![m] = opened[p]]
        /\ stamp' = [stamp EXCEPT ![m] = now]
    BY <1>2 DEF BeginPost
  <2>3. visible \subseteq {x \in Messages : home'[x] # None}
    BY <2>1, <2>2 DEF TypeOK
  <2>4. QED
    BY <1>2, <2>1, <2>2, <2>3 DEF BeginPost, TypeOK
<1>3. ASSUME NEW m \in Messages, CommitPost(m) PROVE TypeOK'
  BY <1>3 DEF CommitPost, TypeOK
<1>4. ASSUME NEW m \in Messages, Remove(m) PROVE TypeOK'
  BY <1>4 DEF Remove, TypeOK
<1>5. CASE Tick
  BY <1>5 DEF Tick, TypeOK
<1>6. ASSUME NEW p \in Pairs, BeginWalk(p) PROVE TypeOK'
  BY <1>6 DEF BeginWalk, History, TypeOK
<1>7. CASE NextPage
  <2>1. PICK P \in SUBSET Eligible(opened[reader]) :
          /\ listed' = listed \cup P
          /\ twice' = twice \cup (P \cap listed)
          /\ \/ \E last \in P :
                  /\ before' = Cut(stamp[last])
                  /\ cuts' = cuts \cup {stamp[last]}
                  /\ UNCHANGED reader
             \/ reader' = << >> /\ UNCHANGED <<before, cuts>>
    BY <1>7 DEF NextPage
  <2>2. P \subseteq visible
    BY DEF Eligible, History
  <2>3. before' \in Unset..MaxTime /\ cuts' \subseteq 0..MaxTime
    <3>1. ASSUME NEW last \in P
          PROVE  stamp[last] \in 0..MaxTime /\ Cut(stamp[last]) \in 0..MaxTime
      <4>1. stamp[last] \in 0..MaxTime
        BY <2>2 DEF TypeOK, Stamped
      <4>2. Cut(stamp[last]) \in 0..stamp[last]
        BY <4>1, CutBounds
      <4>3. QED
        BY <4>1, <4>2
    <3>2. 0..MaxTime \subseteq Unset..MaxTime
      OBVIOUS
    <3>3. QED
      BY <2>1, <3>1, <3>2 DEF TypeOK
  <2>4. QED
    BY <1>7, <2>1, <2>2, <2>3 DEF NextPage, TypeOK
<1>8. CASE UNCHANGED vars
  BY <1>8 DEF vars, TypeOK
<1>9. QED
  BY <1>1, <1>2, <1>3, <1>4, <1>5, <1>6, <1>7, <1>8 DEF Next

LEMMA StampedStep == TypeOK /\ Stamped /\ [Next]_vars => Stamped'
<1> SUFFICES ASSUME TypeOK, Stamped, [Next]_vars PROVE Stamped'
  OBVIOUS
<1>1. ASSUME NEW p \in Pairs, NEW m \in Messages, BeginPost(p, m)
      PROVE  Stamped'
  <2>1. /\ now \in 0..MaxTime /\ stamp'[m] = now
        /\ \A n \in Messages \ {m} : home'[n] = home[n] /\ stamp'[n] = stamp[n]
    BY <1>1 DEF BeginPost, TypeOK
  <2>2. QED
    BY <2>1 DEF Stamped
<1>2. CASE UNCHANGED <<home, stamp>>
  BY <1>2 DEF Stamped
<1>3. QED
  BY <1>1, <1>2 DEF Next, GetOrCreate, CommitPost, Remove, Tick, BeginWalk,
                    NextPage, tableVars, walkVars, vars

\* Type correctness of the dialogs, their messages and a walk.
THEOREM TypeCorrect == Spec => []TypeOK
<1>1. Init => TypeOK /\ Stamped
  BY InitInv
<1>2. TypeOK /\ Stamped /\ [Next]_vars => (TypeOK /\ Stamped)'
  BY TypeStep, StampedStep
<1>3. QED
  BY <1>1, <1>2, PTL DEF Spec
-----------------------------------------------------------------------------
(* One dialog.                                                             *)

\* A row is never given another dialog, and an id opened is kept.
LEMMA OpenedStep ==
  ASSUME TypeOK, Opened, [Next]_vars
  PROVE  /\ Opened'
         /\ \A p \in Pairs : opened[p] # None => opened'[p] = opened[p]
<1>1. ASSUME NEW u \in Users, NEW v \in Users, GetOrCreate(u, v)
      PROVE  /\ Opened'
             /\ \A p \in Pairs : opened[p] # None => opened'[p] = opened[p]
  <2> DEFINE key == DialogUsers(u, v)
  <2>1. PICK id \in DialogIds :
          /\ row' = [row EXCEPT ![key] = id]
          /\ opened' = [opened EXCEPT ![<<u, v>>] = id]
          /\ row[key] \in {None, id}
    BY <1>1, GivenRow
  <2>2. /\ key \in Users \X Users /\ <<u, v>> \in Pairs
        /\ row'[key] = id /\ opened'[<<u, v>>] = id
        /\ \A k \in Users \X Users : k # key => row'[k] = row[k]
        /\ \A p \in Pairs : p # <<u, v>> => opened'[p] = opened[p]
    BY <1>1, <2>1, GivenRow DEF TypeOK
  <2>3. ASSUME NEW p \in Pairs, opened[p] # None
        PROVE  opened'[p] = opened[p] /\ row'[DialogUsers(p[1], p[2])] = opened[p]
    <3>1. DialogUsers(p[1], p[2]) \in Users \X Users
      BY OneKey DEF Pairs
    <3>2. opened[p] = row[DialogUsers(p[1], p[2])]
      BY <2>3 DEF Opened, Row
    <3>3. row'[DialogUsers(p[1], p[2])] = opened[p]
      BY <2>1, <2>2, <2>3, <3>1, <3>2
    <3>4. p = <<u, v>> => opened'[p] = opened[p]
      BY <2>2, <3>3
    <3>5. QED
      BY <2>2, <3>3, <3>4
  <2>4. ASSUME NEW p \in Pairs, opened[p] = None, opened'[p] # None
        PROVE  opened'[p] = row'[DialogUsers(p[1], p[2])]
    BY <2>2, <2>4
  <2>5. QED
    BY <2>3, <2>4 DEF Opened, Row
<1>2. CASE UNCHANGED <<row, opened>>
  BY <1>2 DEF Opened, Row
<1>3. QED
  BY <1>1, <1>2 DEF Next, BeginPost, CommitPost, Remove, Tick, BeginWalk,
                    NextPage, tableVars, walkVars, vars

\* However often and in whatever order any users ask for dialogs with each
\* other, the two of a pair are given the same one.
THEOREM OneHistory == Spec => []OneDialogPerPair
<1> DEFINE Inv == TypeOK /\ Stamped /\ Opened
<1>1. Init => Inv
  BY InitInv
<1>2. Inv /\ [Next]_vars => Inv'
  BY TypeStep, StampedStep, OpenedStep
<1>3. Inv => OneDialogPerPair
  BY OneKey DEF OneDialogPerPair, Opened, Row, Pairs
<1>4. QED
  BY <1>1, <1>2, <1>3, PTL DEF Spec
-----------------------------------------------------------------------------
(* The walk.                                                               *)

\* The pages of a walk come in the order of time: what it has been given is
\* not older than its cursor, and what is still missing is older, or was cut
\* off.
Walked ==
  reader # << >> =>
    /\ opened[reader] # None
    /\ \A m \in there : home[m] = opened[reader]
    /\ before = Unset => listed = {}
    /\ before # Unset => \A m \in listed : before <= stamp[m]
    /\ \A m \in there \ removed :
         m \in listed \/ Skipped(m) \/ (before # Unset => stamp[m] < before)
    /\ twice = {}

LEMMA WalkStep ==
  ASSUME TypeOK, Stamped, Opened, Walked, WalkListsEach, [Next]_vars
  PROVE  Walked' /\ WalkListsEach'
<1>1. ASSUME UNCHANGED walkVars, removed \subseteq removed',
             reader # << >> => opened'[reader] = opened[reader],
             \A m \in visible : home'[m] = home[m] /\ stamp'[m] = stamp[m]
      PROVE  Walked' /\ WalkListsEach'
  <2>1. /\ \A m \in there \cup listed : home'[m] = home[m] /\ stamp'[m] = stamp[m]
        /\ UNCHANGED <<reader, before, listed, twice, there, cuts>>
    BY <1>1 DEF walkVars, TypeOK
  <2>2. \A m \in there : Skipped(m)' = Skipped(m)
    BY <2>1 DEF Skipped
  <2>3. Walked'
    BY <1>1, <2>1, <2>2 DEF Walked
  <2>4. WalkListsEach'
    BY <1>1, <2>1, <2>2 DEF WalkListsEach
  <2>5. QED
    BY <2>3, <2>4
<1>2. ASSUME NEW u \in Users, NEW v \in Users, GetOrCreate(u, v)
      PROVE  Walked' /\ WalkListsEach'
  <2>1. reader # << >> => reader \in Pairs /\ opened[reader] # None
    BY DEF Walked, TypeOK
  <2>2. reader # << >> => opened'[reader] = opened[reader]
    BY <2>1, OpenedStep
  <2>3. QED
    BY <1>1, <1>2, <2>2 DEF GetOrCreate
<1>3. ASSUME NEW p \in Pairs, NEW m \in Messages, BeginPost(p, m)
      PROVE  Walked' /\ WalkListsEach'
  <2>1. m \notin visible
    BY <1>3 DEF BeginPost, TypeOK
  <2>2. \A n \in visible : home'[n] = home[n] /\ stamp'[n] = stamp[n]
    BY <1>3, <2>1 DEF BeginPost, TypeOK
  <2>3. QED
    BY <1>1, <1>3, <2>2 DEF BeginPost
<1>4. ASSUME NEW m \in Messages, CommitPost(m) \/ Remove(m)
      PROVE  Walked' /\ WalkListsEach'
  BY <1>1, <1>4 DEF CommitPost, Remove
<1>5. CASE Tick \/ UNCHANGED vars
  BY <1>1, <1>5 DEF Tick, vars, tableVars
<1>6. ASSUME NEW p \in Pairs, BeginWalk(p) PROVE Walked' /\ WalkListsEach'
  BY <1>6 DEF BeginWalk, Walked, WalkListsEach, History, tableVars, Pairs
<1>7. CASE NextPage
  <2> DEFINE E == Eligible(opened[reader])
  <2>1. PICK P \in SUBSET E :
          /\ IsPage(P, E)
          /\ listed' = listed \cup P
          /\ twice' = twice \cup (P \cap listed)
          /\ IF Cardinality(P) = Limit
               THEN \E last \in P :
                      /\ \A m \in P : stamp[last] <= stamp[m]
                      /\ before' = Cut(stamp[last])
                      /\ cuts' = cuts \cup {stamp[last]}
                      /\ UNCHANGED reader
               ELSE /\ reader' = << >>
                    /\ UNCHANGED <<before, cuts>>
    BY <1>7 DEF NextPage
  <2>2. reader # << >> /\ UNCHANGED <<tableVars, there>>
    BY <1>7 DEF NextPage
  <2>3. UNCHANGED <<row, opened, home, stamp, visible, removed, there>>
    BY <2>2 DEF tableVars
  <2>4. /\ \A m \in listed \cup there \cup E : stamp[m] \in Nat
        /\ \A m \in E : before # Unset => stamp[m] < before
        /\ before \in Int
    BY Times DEF TypeOK, Stamped, Eligible, History, Earlier
  <2>5. P \cap listed = {}
    <3>1. before = Unset => listed = {}
      BY <2>2 DEF Walked
    <3>2. ASSUME before # Unset, NEW m \in P, m \in listed PROVE FALSE
      BY <2>2, <2>4, <3>2 DEF Walked
    <3>3. QED
      BY <3>1, <3>2
  <2>6. ASSUME NEW m \in there \ removed, m \notin listed, ~Skipped(m)
        PROVE  m \in E
    BY <2>2, <2>6 DEF Walked, Eligible, History, Earlier, TypeOK
  <2>7. CASE Cardinality(P) = Limit
    <3>1. PICK last \in P :
            /\ \A m \in P : stamp[last] <= stamp[m]
            /\ before' = Cut(stamp[last])
            /\ cuts' = cuts \cup {stamp[last]}
            /\ UNCHANGED reader
      BY <2>1, <2>7
    <3>2. before' \in 0..stamp[last] /\ stamp[last] \in Nat /\ before' # Unset
      BY <2>4, <3>1, CutBounds, Times
    <3>3. ASSUME NEW m \in listed' PROVE before' <= stamp[m]
      <4>1. CASE m \in P
        BY <2>4, <3>1, <3>2, <4>1
      <4>2. CASE m \in listed /\ before # Unset
        <5>1. before <= stamp[m] /\ stamp[last] < before
          BY <2>2, <2>4, <4>2 DEF Walked
        <5>2. QED
          BY <2>4, <3>2, <4>2, <5>1
      <4>3. CASE m \in listed /\ before = Unset
        BY <2>2, <4>3 DEF Walked
      <4>4. QED
        BY <2>1, <4>1, <4>2, <4>3
    <3>4. ASSUME NEW m \in there \ removed
          PROVE  m \in listed' \/ Skipped(m)' \/ stamp[m] < before'
      <4>1. CASE Skipped(m)
        BY <2>3, <3>1, <4>1 DEF Skipped
      <4>2. CASE m \in E \ P
        <5>1. stamp[m] <= stamp[last] /\ stamp[m] \in Nat
          BY <2>1, <2>4, <4>2 DEF IsPage
        <5>2. CASE stamp[m] < before'
          BY <5>2
        <5>3. CASE before' <= stamp[m]
          <6>1. Cut(stamp[last]) <= stamp[m] /\ stamp[last] \in cuts'
            BY <3>1, <5>3
          <6>2. Skipped(m)'
            BY <2>3, <5>1, <6>1 DEF Skipped, Cut
          <6>3. QED
            BY <6>2
        <5>4. QED
          BY <3>2, <5>1, <5>2, <5>3
      <4>3. QED
        BY <2>1, <2>6, <4>1, <4>2
    <3>5. Walked'
      BY <2>1, <2>2, <2>3, <2>5, <3>1, <3>2, <3>3, <3>4 DEF Walked
    <3>6. WalkListsEach'
      BY <2>2, <3>1 DEF WalkListsEach
    <3>7. QED
      BY <3>5, <3>6
  <2>8. CASE Cardinality(P) # Limit
    <3>1. P = E /\ reader' = << >> /\ UNCHANGED cuts
      BY <2>1, <2>8 DEF IsPage
    <3>2. \A m \in there \ removed : Skipped(m) => Skipped(m)'
      BY <2>3, <3>1 DEF Skipped
    <3>3. WalkListsEach'
      BY <2>1, <2>2, <2>3, <2>5, <2>6, <3>1, <3>2 DEF WalkListsEach, Walked
    <3>4. QED
      BY <3>1, <3>3 DEF Walked
  <2>9. QED
    BY <2>7, <2>8
<1>8. QED
  BY <1>2, <1>3, <1>4, <1>5, <1>6, <1>7 DEF Next

\* A walk that has ended has listed every message that was there when it
\* began and has not been removed, and none twice, for every page size and
\* whatever is posted, committed late or removed beside it; what a cursor cuts
\* off with its second is all that can be missing.
THEOREM WalkComplete == Spec => []WalkListsEach
<1> DEFINE Inv == TypeOK /\ Stamped /\ Opened /\ Walked /\ WalkListsEach
<1>1. Init => Inv
  <2>1. Init => Walked /\ WalkListsEach
    BY DEF Init, Walked, WalkListsEach
  <2>2. QED
    BY <2>1, InitInv
<1>2. Inv /\ [Next]_vars => Inv'
  BY TypeStep, StampedStep, OpenedStep, WalkStep
<1>3. QED
  BY <1>1, <1>2, PTL DEF Spec
-----------------------------------------------------------------------------
(* Migrations.                                                             *)

\* The process that is past the lock holds it, and the file it executes or
\* records has no row, also when it has failed before.
Serial ==
  \A p \in Processes :
    /\ pc[p] \in Working => lock = p
    /\ pc[p] \in {"exec", "record"} => file[p] \in Files \ recorded

LEMMA MigrateInitInv == MigrateInit => MigrateTypeOK /\ Serial
<1> SUFFICES ASSUME MigrateInit PROVE MigrateTypeOK /\ Serial
  OBVIOUS
<1>1. Cutoff \in Int /\ Last \in Int /\ Cutoff <= Last /\ 0 \in 0..MaxFaults
  BY MigrationsAssumption
<1>2. applied \subseteq Files
  BY <1>1 DEF MigrateInit, Files
<1>3. 1 \in 1..(Last + 1)
  BY MigrationsAssumption
<1>4. MigrateTypeOK
  BY <1>1, <1>2, <1>3 DEF MigrateInit, MigrateTypeOK
<1>5. Serial
  BY DEF MigrateInit, Serial, Working
<1>6. QED
  BY <1>4, <1>5

\* The end of a process, whose fault is counted or not.
LEMMA LeaveType ==
  ASSUME MigrateTypeOK, NEW p \in Processes, Leave(p), faults' \in 0..MaxFaults
  PROVE  MigrateTypeOK'
  BY MigrationsAssumption DEF Leave, Go, At, MigrateTypeOK

LEMMA MigrateTypeStep == MigrateTypeOK /\ Serial /\ [MigrateNext]_migrateVars => MigrateTypeOK'
<1> SUFFICES ASSUME MigrateTypeOK, Serial, [MigrateNext]_migrateVars PROVE MigrateTypeOK'
  OBVIOUS
<1> USE MigrationsAssumption DEF Go, At, dbVars, Working
<1>1. ASSUME NEW p \in Processes, Start(p) PROVE MigrateTypeOK'
  BY <1>1 DEF Start, MigrateTypeOK
<1>2. ASSUME NEW p \in Processes, AcquireLock(p) PROVE MigrateTypeOK'
  BY <1>2 DEF AcquireLock, MigrateTypeOK
<1>3. ASSUME NEW p \in Processes, EnsureTable(p) PROVE MigrateTypeOK'
  BY <1>3 DEF EnsureTable, MigrateTypeOK
<1>4. ASSUME NEW p \in Processes, Bootstrap(p) PROVE MigrateTypeOK'
  BY <1>4 DEF Bootstrap, MigrateTypeOK
<1>5. ASSUME NEW p \in Processes, MarkApplied(p) PROVE MigrateTypeOK'
  <2>1. file[p] <= Last => file[p] \in Files /\ file[p] + 1 \in 1..(Last + 1)
    BY DEF MigrateTypeOK, Files
  <2>2. file' \in [Processes -> 1..(Last + 1)]
    BY <1>5, <2>1 DEF MarkApplied, MigrateTypeOK
  <2>3. recorded' \subseteq Files
    BY <1>5, <2>1 DEF MarkApplied, MigrateTypeOK
  <2>4. QED
    BY <1>5, <2>2, <2>3 DEF MarkApplied, MigrateTypeOK
<1>6. ASSUME NEW p \in Processes, CheckFile(p) PROVE MigrateTypeOK'
  BY <1>6 DEF CheckFile, MigrateTypeOK
<1>7. ASSUME NEW p \in Processes, ExecFile(p) PROVE MigrateTypeOK'
  BY <1>7 DEF ExecFile, MigrateTypeOK, Serial
<1>8. ASSUME NEW p \in Processes, RecordFile(p) PROVE MigrateTypeOK'
  <2>1. file[p] \in Files /\ file[p] + 1 \in 1..(Last + 1)
    BY <1>8 DEF RecordFile, MigrateTypeOK, Serial, Files
  <2>2. QED
    BY <1>8, <2>1 DEF RecordFile, MigrateTypeOK
<1>9. ASSUME NEW p \in Processes, Done(p) PROVE MigrateTypeOK'
  BY <1>9 DEF Done, Unlocked, MigrateTypeOK
<1>10. ASSUME NEW p \in Processes, Fails(p) \/ Crash(p) \/ Stop(p) PROVE MigrateTypeOK'
  <2>1. faults' \in 0..MaxFaults
    BY <1>10 DEF Fails, Crash, Stop, MigrateTypeOK
  <2>2. Leave(p)
    BY <1>10 DEF Fails, Crash, Stop
  <2>3. QED
    BY <2>1, <2>2, LeaveType
<1>11. CASE UNCHANGED migrateVars
  BY <1>11 DEF migrateVars, MigrateTypeOK
<1>12. QED
  BY <1>1, <1>2, <1>3, <1>4, <1>5, <1>6, <1>7, <1>8, <1>9, <1>10, <1>11
  DEF MigrateNext, Migrate

\* A step of the process that holds the lock, or one of a process that does
\* not work, leaves the others' claims on the lock and on their files alone.
LEMMA SerialStep == MigrateTypeOK /\ Serial /\ [MigrateNext]_migrateVars => Serial'
<1> SUFFICES ASSUME MigrateTypeOK, Serial, [MigrateNext]_migrateVars PROVE Serial'
  OBVIOUS
<1> USE DEF Go, At, dbVars, Working
<1>0. \A p, q \in Processes : pc[p] \in Working /\ pc[q] \in Working => p = q
  BY DEF Serial
<1>1. ASSUME NEW p \in Processes, Start(p) PROVE Serial'
  BY <1>1 DEF Start, MigrateTypeOK, Serial
<1>2. ASSUME NEW p \in Processes, AcquireLock(p) PROVE Serial'
  BY <1>2, MigrationsAssumption DEF AcquireLock, LockFree, MigrateTypeOK, Serial
<1>3. ASSUME NEW p \in Processes, EnsureTable(p) PROVE Serial'
  BY <1>3 DEF EnsureTable, MigrateTypeOK, Serial
<1>4. ASSUME NEW p \in Processes, Bootstrap(p) PROVE Serial'
  BY <1>4 DEF Bootstrap, MigrateTypeOK, Serial
<1>5. ASSUME NEW p \in Processes, MarkApplied(p) PROVE Serial'
  BY <1>0, <1>5 DEF MarkApplied, MigrateTypeOK, Serial
<1>6. ASSUME NEW p \in Processes, CheckFile(p) PROVE Serial'
  BY <1>0, <1>6, MigrationsAssumption DEF CheckFile, MigrateTypeOK, Serial, Files
<1>7. ASSUME NEW p \in Processes, ExecFile(p) PROVE Serial'
  BY <1>0, <1>7 DEF ExecFile, MigrateTypeOK, Serial
<1>8. ASSUME NEW p \in Processes, RecordFile(p) PROVE Serial'
  BY <1>0, <1>8 DEF RecordFile, MigrateTypeOK, Serial
<1>9. ASSUME NEW p \in Processes, Done(p) PROVE Serial'
  BY <1>0, <1>9 DEF Done, Unlocked, MigrateTypeOK, Serial
<1>10. ASSUME NEW p \in Processes, Fails(p) \/ Crash(p) \/ Stop(p) PROVE Serial'
  BY <1>10 DEF Fails, Crash, Stop, Leave, MigrateTypeOK, Serial
<1>11. CASE UNCHANGED migrateVars
  BY <1>11 DEF migrateVars, Serial
<1>12. QED
  BY <1>1, <1>2, <1>3, <1>4, <1>5, <1>6, <1>7, <1>8, <1>9, <1>10, <1>11
  DEF MigrateNext, Migrate

\* Type correctness of the migrations of any number of processes.
THEOREM MigrateTypeCorrect == MigrateSpec => []MigrateTypeOK
<1>1. MigrateInit => MigrateTypeOK /\ Serial
  BY MigrateInitInv
<1>2. MigrateTypeOK /\ Serial /\ [MigrateNext]_migrateVars => (MigrateTypeOK /\ Serial)'
  BY MigrateTypeStep, SerialStep
<1>3. QED
  BY <1>1, <1>2, PTL DEF MigrateSpec
-----------------------------------------------------------------------------
(* A run without a fault.                                                  *)

\* A database from before schema_migrations.
Legacy == recorded = {} /\ applied = 1..(Cutoff - 1)

\* The table follows the schema; between two statements of the process at
\* work they differ by the files it is just marking, or by its one file.
InStep ==
  /\ again = {}
  /\ (\A p \in Processes : pc[p] \notin {"mark", "record"}) =>
       applied = recorded \/ Legacy
  /\ \A p \in Processes :
       /\ pc[p] = "mark" => /\ file[p] <= Cutoff
                            /\ applied = 1..(Cutoff - 1)
                            /\ recorded = 1..(file[p] - 1)
       /\ pc[p] \in {"check", "exec"} => applied = recorded
       /\ pc[p] = "record" => applied = recorded \cup {file[p]}

LEMMA InStepStep ==
  ASSUME MigrateTypeOK, Serial, [MigrateNext]_migrateVars, faults' = 0, faults = 0 => InStep
  PROVE  InStep'
<1> USE MigrationsAssumption DEF Go, At, dbVars, Working
<1>0. \A p, q \in Processes : pc[p] \in Working /\ pc[q] \in Working => p = q
  BY DEF Serial
<1>1. faults = 0
  <2>1. faults \in Nat /\ faults' \in {faults, faults + 1}
    BY DEF MigrateTypeOK, MigrateNext, Migrate, Start, AcquireLock, EnsureTable, Bootstrap,
           MarkApplied, CheckFile, ExecFile, RecordFile, Done, Fails, Crash,
           Stop, migrateVars
  <2>2. QED
    BY <2>1
<1>2. InStep
  BY <1>1
<1>3. ASSUME NEW p \in Processes, Start(p) PROVE InStep'
  BY <1>2, <1>3 DEF Start, MigrateTypeOK, InStep, Legacy
<1>4. ASSUME NEW p \in Processes, AcquireLock(p) PROVE InStep'
  BY <1>2, <1>4 DEF AcquireLock, MigrateTypeOK, InStep, Legacy
<1>5. ASSUME NEW p \in Processes, EnsureTable(p) PROVE InStep'
  BY <1>2, <1>5 DEF EnsureTable, MigrateTypeOK, InStep, Legacy
<1>6. ASSUME NEW p \in Processes, Bootstrap(p) PROVE InStep'
  <2>1. applied = recorded \/ Legacy
    BY <1>0, <1>2, <1>6 DEF Bootstrap, InStep
  <2>2. CASE recorded = {} /\ UsersExist
    <3>1. Legacy
      BY <2>1, <2>2 DEF UsersExist
    <3>2. 1 <= Cutoff /\ 1..(1 - 1) = {}
      OBVIOUS
    <3>3. pc' = [pc EXCEPT ![p] = "mark"] /\ file'[p] = 1
      BY <1>6, <2>2 DEF Bootstrap, MigrateTypeOK
    <3>4. QED
      BY <1>0, <1>2, <1>6, <3>1, <3>2, <3>3 DEF Bootstrap, MigrateTypeOK, InStep, Legacy
  <2>3. CASE ~(recorded = {} /\ UsersExist)
    <3>1. applied = recorded
      BY <2>1, <2>3 DEF Legacy, UsersExist
    <3>2. pc' = [pc EXCEPT ![p] = "check"]
      BY <1>6, <2>3 DEF Bootstrap
    <3>3. QED
      BY <1>0, <1>2, <1>6, <3>1, <3>2 DEF Bootstrap, MigrateTypeOK, InStep, Legacy
  <2>4. QED
    BY <2>2, <2>3
<1>7. ASSUME NEW p \in Processes, MarkApplied(p) PROVE InStep'
  <2>1. /\ file[p] <= Cutoff /\ file[p] \in Nat \ {0}
        /\ applied = 1..(Cutoff - 1) /\ recorded = 1..(file[p] - 1)
    BY <1>2, <1>7 DEF MarkApplied, InStep, MigrateTypeOK
  <2>2. CASE file[p] <= Last /\ BeforeCutoff(file[p])
    <3>1. recorded' = 1..((file[p] + 1) - 1) /\ file[p] + 1 <= Cutoff
      <4>1. recorded' = recorded \cup {file[p]} /\ file[p] < Cutoff
        BY <1>7, <2>2 DEF MarkApplied, BeforeCutoff
      <4>2. 1..((file[p] + 1) - 1) = 1..(file[p] - 1) \cup {file[p]}
        BY <2>1
      <4>3. QED
        BY <2>1, <4>1, <4>2
    <3>2. file'[p] = file[p] + 1
      BY <1>7, <2>2 DEF MarkApplied, MigrateTypeOK
    <3>3. QED
      BY <1>0, <1>2, <1>7, <2>1, <2>2, <3>1, <3>2
      DEF MarkApplied, MigrateTypeOK, InStep, Legacy
  <2>3. CASE ~(file[p] <= Last /\ BeforeCutoff(file[p]))
    <3>1. recorded = applied
      BY <2>1, <2>3 DEF BeforeCutoff
    <3>2. QED
      BY <1>0, <1>2, <1>7, <2>3, <3>1 DEF MarkApplied, MigrateTypeOK, InStep, Legacy
  <2>4. QED
    BY <2>2, <2>3
<1>8. ASSUME NEW p \in Processes, CheckFile(p) PROVE InStep'
  BY <1>0, <1>2, <1>8 DEF CheckFile, MigrateTypeOK, InStep, Legacy
<1>9. ASSUME NEW p \in Processes, ExecFile(p) PROVE InStep'
  <2>1. file[p] \notin applied
    BY <1>2, <1>9 DEF ExecFile, Serial, InStep
  <2>2. QED
    BY <1>0, <1>2, <1>9, <2>1 DEF ExecFile, MigrateTypeOK, InStep, Legacy
<1>10. ASSUME NEW p \in Processes, RecordFile(p) PROVE InStep'
  BY <1>0, <1>2, <1>10 DEF RecordFile, MigrateTypeOK, InStep, Legacy
<1>11. ASSUME NEW p \in Processes, Done(p) PROVE InStep'
  BY <1>0, <1>2, <1>11 DEF Done, MigrateTypeOK, InStep, Legacy
<1>12. ASSUME NEW p \in Processes, Fails(p) \/ Crash(p) \/ Stop(p) PROVE InStep'
  <2>1. ~Crash(p)
    BY <1>1 DEF Crash
  <2>2. Leave(p) /\ pc[p] \notin {"mark", "record"}
    BY <1>12, <2>1 DEF Fails, Stop, Serial
  <2>3. QED
    BY <1>2, <2>2 DEF Leave, MigrateTypeOK, InStep, Legacy
<1>13. CASE UNCHANGED migrateVars
  BY <1>2, <1>13 DEF migrateVars, InStep, Legacy
<1>14. QED
  BY <1>3, <1>4, <1>5, <1>6, <1>7, <1>8, <1>9, <1>10, <1>11, <1>12, <1>13
  DEF MigrateNext, Migrate

\* Processes that start together execute no file twice, whatever their
\* number, the files and the database they find: a file is executed again
\* only after a fault.
THEOREM NoneTwice == MigrateSpec => []RunAgainAfterFault
<1> DEFINE Inv == MigrateTypeOK /\ Serial /\ (faults = 0 => InStep)
<1>1. MigrateInit => Inv
  <2>1. MigrateInit => InStep
    BY DEF MigrateInit, InStep, Legacy
  <2>2. QED
    BY <2>1, MigrateInitInv
<1>2. Inv /\ [MigrateNext]_migrateVars => Inv'
  <2> SUFFICES ASSUME Inv, [MigrateNext]_migrateVars PROVE Inv'
    OBVIOUS
  <2>1. MigrateTypeOK' /\ Serial'
    BY MigrateTypeStep, SerialStep
  <2>2. faults' = 0 => InStep'
    BY InStepStep
  <2>3. QED
    BY <2>1, <2>2
<1>3. Inv => RunAgainAfterFault
  BY MigrationsAssumption DEF RunAgainAfterFault, InStep, MigrateTypeOK
<1>4. QED
  BY <1>1, <1>2, <1>3, PTL DEF MigrateSpec
-----------------------------------------------------------------------------
(* A run in which no process has died between file 1 and its row.          *)

Before == 1..(Cutoff - 1) \subseteq applied

\* What stands in schema_migrations has been applied, and the loop has left
\* no file out; a table that is empty beside users means an old database, or
\* a process that is about to record the file it has executed.
Sound ==
  /\ recorded \subseteq applied
  /\ recorded = {} /\ UsersExist => Before \/ \E p \in Processes : pc[p] = "record"
  /\ \A p \in Processes :
       /\ pc[p] = "mark" => Before
       /\ pc[p] = "record" => file[p] \in applied
       /\ pc[p] \in {"check", "exec", "record"} => 1..(file[p] - 1) \subseteq recorded
       /\ pc[p] = "up" => applied = Files

LEMMA SoundStep ==
  ASSUME MigrateTypeOK, Serial, [MigrateNext]_migrateVars, ~torn', ~torn => Sound
  PROVE  Sound'
<1> USE MigrationsAssumption DEF Go, At, dbVars, Working, UsersExist, Before
<1>0. \A p, q \in Processes : pc[p] \in Working /\ pc[q] \in Working => p = q
  BY DEF Serial
<1>1. ~torn
  BY DEF MigrateNext, Migrate, Start, AcquireLock, EnsureTable, Bootstrap,
         MarkApplied, CheckFile, ExecFile, RecordFile, Done, Fails, Crash,
         Stop, Leave, migrateVars
<1>2. Sound
  BY <1>1
<1>3. ASSUME NEW p \in Processes, Start(p) PROVE Sound'
  BY <1>2, <1>3 DEF Start, MigrateTypeOK, Sound
<1>4. ASSUME NEW p \in Processes, AcquireLock(p) PROVE Sound'
  BY <1>2, <1>4 DEF AcquireLock, MigrateTypeOK, Sound
<1>5. ASSUME NEW p \in Processes, EnsureTable(p) PROVE Sound'
  BY <1>2, <1>5 DEF EnsureTable, MigrateTypeOK, Sound
<1>6. ASSUME NEW p \in Processes, Bootstrap(p) PROVE Sound'
  <2>1. recorded = {} /\ UsersExist => Before
    BY <1>0, <1>2, <1>6 DEF Bootstrap, Sound
  <2>2. 1..(1 - 1) = {}
    OBVIOUS
  <2>3. QED
    BY <1>0, <1>2, <1>6, <2>1, <2>2 DEF Bootstrap, MigrateTypeOK, Sound
<1>7. ASSUME NEW p \in Processes, MarkApplied(p) PROVE Sound'
  <2>1. Before /\ file[p] \in Nat \ {0} /\ 1..(1 - 1) = {}
    BY <1>2, <1>7 DEF MarkApplied, Sound, MigrateTypeOK
  <2>2. file[p] <= Last /\ BeforeCutoff(file[p]) => file[p] \in applied
    BY <2>1 DEF BeforeCutoff
  <2>3. QED
    BY <1>0, <1>2, <1>7, <2>1, <2>2 DEF MarkApplied, MigrateTypeOK, Sound
<1>8. ASSUME NEW p \in Processes, CheckFile(p) PROVE Sound'
  <2>1. file[p] \in recorded => 1..(file[p] + 1 - 1) \subseteq recorded
    BY <1>2, <1>8 DEF CheckFile, MigrateTypeOK, Sound
  <2>2. QED
    BY <1>0, <1>2, <1>8, <2>1 DEF CheckFile, MigrateTypeOK, Sound
<1>9. ASSUME NEW p \in Processes, ExecFile(p) PROVE Sound'
  <2>1. pc'[p] = "record" /\ file' = file /\ recorded' = recorded
        /\ applied' = applied \cup {file[p]} /\ applied' \subseteq Files
        /\ \A q \in Processes \ {p} : pc'[q] = pc[q]
    BY <1>9 DEF ExecFile, MigrateTypeOK, Serial
  <2>2. QED
    BY <1>2, <1>9, <2>1 DEF ExecFile, MigrateTypeOK, Sound
<1>10. ASSUME NEW p \in Processes, RecordFile(p) PROVE Sound'
  <2>1. file[p] \in applied /\ recorded' = recorded \cup {file[p]}
    BY <1>2, <1>10 DEF RecordFile, Sound
  <2>2. 1..(file[p] + 1 - 1) \subseteq recorded'
    BY <1>2, <1>10, <2>1 DEF RecordFile, MigrateTypeOK, Sound
  <2>3. QED
    BY <1>0, <1>2, <1>10, <2>1, <2>2 DEF RecordFile, MigrateTypeOK, Sound
<1>11. ASSUME NEW p \in Processes, Done(p) PROVE Sound'
  <2>1. applied = Files
    <3>1. 1..((Last + 1) - 1) = Files
      BY DEF Files
    <3>2. Files \subseteq recorded
      BY <1>2, <1>11, <3>1 DEF Done, Sound
    <3>3. QED
      BY <1>2, <3>2 DEF MigrateTypeOK, Sound
  <2>2. QED
    BY <1>0, <1>2, <1>11, <2>1 DEF Done, MigrateTypeOK, Sound
<1>12. ASSUME NEW p \in Processes, Fails(p) \/ Crash(p) \/ Stop(p) PROVE Sound'
  <2>1. Leave(p)
    BY <1>12 DEF Fails, Crash, Stop
  <2>2. pc[p] = "record" => recorded # {}
    BY <1>1, <2>1 DEF Leave
  <2>3. QED
    BY <1>2, <2>1, <2>2 DEF Leave, MigrateTypeOK, Sound
<1>13. CASE UNCHANGED migrateVars
  BY <1>2, <1>13 DEF migrateVars, Sound
<1>14. QED
  BY <1>3, <1>4, <1>5, <1>6, <1>7, <1>8, <1>9, <1>10, <1>11, <1>12, <1>13
  DEF MigrateNext, Migrate

\* Unless a process has died between the very first file and its row, every
\* recorded file has been applied and a process that is up has the whole
\* schema, whatever else has failed and wherever the cutoff lies: that one
\* gap is all there is to the disagreement the run of RecordedIsApplied shows.
THEOREM CompleteUnlessTorn ==
  MigrateSpec => [](~torn => RecordedIsApplied /\ UpIsComplete)
<1> DEFINE Inv == MigrateTypeOK /\ Serial /\ (~torn => Sound)
<1>1. MigrateInit => Inv
  <2>1. MigrateInit => Sound
    BY MigrationsAssumption DEF MigrateInit, Sound, Before, UsersExist
  <2>2. QED
    BY <2>1, MigrateInitInv
<1>2. Inv /\ [MigrateNext]_migrateVars => Inv'
  <2> SUFFICES ASSUME Inv, [MigrateNext]_migrateVars PROVE Inv'
    OBVIOUS
  <2>1. MigrateTypeOK' /\ Serial'
    BY MigrateTypeStep, SerialStep
  <2>2. ~torn' => Sound'
    BY SoundStep
  <2>3. QED
    BY <2>1, <2>2
<1>3. Inv => (~torn => RecordedIsApplied /\ UpIsComplete)
  BY DEF RecordedIsApplied, UpIsComplete, Sound
<1>4. QED
  BY <1>1, <1>2, <1>3, PTL DEF MigrateSpec
-----------------------------------------------------------------------------
(* A run in which a process has died between file 1 and its row.           *)

UpIsRecorded == \A p \in Processes : pc[p] = "up" => recorded = Files

\* Before the first row the database is as the first start has found it, but
\* for the file that is just being recorded.
Untouched ==
  recorded = {} =>
    /\ applied \in {{}, 1..(Cutoff - 1)} \/ \E p \in Processes : pc[p] = "record"
    /\ \A p \in Processes :
         /\ pc[p] = "mark" => file[p] = 1
         /\ pc[p] \in {"check", "exec"} => applied = {}
         /\ pc[p] = "record" => applied = {1}

\* The files 2..k are recorded and will never be applied, nor any file that
\* works on their tables.
Stuck(k) ==
  /\ 1..k \subseteq recorded
  /\ applied \cap 2..k = {}
  /\ \A f \in (k + 1)..Last :
       Needs[f] \cap 2..k # {} => f \notin recorded \cup applied

Gap == recorded \subseteq applied \/ \E k \in 2..(Cutoff - 1) : Stuck(k)

Torn ==
  /\ 1 \in applied
  /\ Gap
  /\ \A p \in Processes :
       /\ pc[p] \in {"check", "exec", "record", "up"} => recorded # {}
       /\ pc[p] = "mark" => /\ file[p] <= Cutoff
                            /\ applied = {1}
                            /\ recorded = 1..(file[p] - 1)
       /\ pc[p] = "record" => file[p] \in applied
       /\ pc[p] \in {"check", "exec", "record"} => 1..(file[p] - 1) \subseteq recorded
       /\ pc[p] = "up" => applied = Files
  /\ recorded = {} => applied = {1}

LEMMA UntouchedStep ==
  ASSUME MigrateTypeOK, Serial, [MigrateNext]_migrateVars, ~torn',
         ~torn => Sound /\ Untouched
  PROVE  Untouched'
<1> USE MigrationsAssumption DEF Go, At, dbVars, Working, UsersExist
<1>0. \A p, q \in Processes : pc[p] \in Working /\ pc[q] \in Working => p = q
  BY DEF Serial
<1>1. ~torn
  BY DEF MigrateNext, Migrate, Start, AcquireLock, EnsureTable, Bootstrap,
         MarkApplied, CheckFile, ExecFile, RecordFile, Done, Fails, Crash,
         Stop, Leave, migrateVars
<1>2. recorded \subseteq recorded'
  BY DEF MigrateNext, Migrate, Start, AcquireLock, EnsureTable, Bootstrap,
         MarkApplied, CheckFile, ExecFile, RecordFile, Done, Fails, Crash,
         Stop, Leave, migrateVars
<1>3. SUFFICES ASSUME recorded' = {}
               PROVE  Untouched'
  BY DEF Untouched
<1>4. Sound /\ Untouched /\ recorded = {}
  BY <1>1, <1>2, <1>3
<1>5. ASSUME NEW p \in Processes, Start(p) \/ AcquireLock(p) \/ EnsureTable(p)
      PROVE  Untouched'
  BY <1>4, <1>5 DEF Start, AcquireLock, EnsureTable, MigrateTypeOK, Untouched
<1>6. ASSUME NEW p \in Processes, Bootstrap(p) PROVE Untouched'
  <2>1. applied \in {{}, 1..(Cutoff - 1)}
    BY <1>0, <1>4, <1>6 DEF Bootstrap, Untouched
  <2>2. 1 \in 1..(Cutoff - 1)
    OBVIOUS
  <2>3. CASE UsersExist
    <3>1. pc' = [pc EXCEPT ![p] = "mark"] /\ file' = [file EXCEPT ![p] = 1]
      BY <1>4, <1>6, <2>3 DEF Bootstrap
    <3>2. QED
      BY <1>0, <1>4, <1>6, <2>1, <3>1 DEF Bootstrap, MigrateTypeOK, Untouched
  <2>4. CASE ~UsersExist
    <3>1. applied = {} /\ pc' = [pc EXCEPT ![p] = "check"]
      BY <1>4, <1>6, <2>1, <2>2, <2>4 DEF Bootstrap
    <3>2. QED
      BY <1>0, <1>4, <1>6, <3>1 DEF Bootstrap, MigrateTypeOK, Untouched
  <2>5. QED
    BY <2>3, <2>4
<1>7. ASSUME NEW p \in Processes, MarkApplied(p) PROVE FALSE
  <2>1. file[p] = 1
    BY <1>4, <1>7 DEF MarkApplied, Untouched
  <2>2. recorded' = recorded \cup {file[p]}
    BY <1>7, <2>1 DEF MarkApplied, BeforeCutoff
  <2>3. QED
    BY <1>3, <2>2
<1>8. ASSUME NEW p \in Processes, CheckFile(p) PROVE Untouched'
  BY <1>0, <1>4, <1>8 DEF CheckFile, MigrateTypeOK, Untouched
<1>9. ASSUME NEW p \in Processes, ExecFile(p) PROVE Untouched'
  <2>1. applied = {} /\ 1..(file[p] - 1) = {} /\ file[p] \in Nat \ {0}
    BY <1>4, <1>9 DEF ExecFile, Untouched, Sound, MigrateTypeOK
  <2>2. file[p] = 1
    <3>1. file[p] # 1 => 1 \in 1..(file[p] - 1)
      BY <2>1
    <3>2. QED
      BY <2>1, <3>1
  <2>3. applied' = {1}
    BY <1>9, <2>1, <2>2 DEF ExecFile
  <2>4. QED
    BY <1>0, <1>4, <1>9, <2>3 DEF ExecFile, MigrateTypeOK, Untouched
<1>10. ASSUME NEW p \in Processes, RecordFile(p) PROVE FALSE
  BY <1>3, <1>10 DEF RecordFile
<1>11. ASSUME NEW p \in Processes, Done(p) PROVE Untouched'
  BY <1>0, <1>4, <1>11 DEF Done, MigrateTypeOK, Untouched
<1>12. ASSUME NEW p \in Processes, Fails(p) \/ Crash(p) \/ Stop(p)
       PROVE  Untouched'
  <2>1. Leave(p)
    BY <1>12 DEF Fails, Crash, Stop
  <2>2. pc[p] # "record"
    BY <1>4, <2>1 DEF Leave
  <2>3. QED
    BY <1>4, <2>1, <2>2 DEF Leave, MigrateTypeOK, Untouched
<1>13. CASE UNCHANGED migrateVars
  BY <1>4, <1>13 DEF migrateVars, Untouched
<1>14. QED
  BY <1>5, <1>6, <1>7, <1>8, <1>9, <1>10, <1>11, <1>12, <1>13
  DEF MigrateNext, Migrate

\* A process dies between file 1 and its row.
LEMMA BecomesTorn ==
  ASSUME MigrateTypeOK, Serial, [MigrateNext]_migrateVars, ~torn, torn',
         Sound, Untouched, UpIsRecorded
  PROVE  Torn'
<1> USE MigrationsAssumption DEF Go, At, dbVars, Working
<1>1. PICK p \in Processes : Leave(p) /\ pc[p] = "record" /\ recorded = {}
  BY DEF MigrateNext, Migrate, Start, AcquireLock, EnsureTable, Bootstrap,
         MarkApplied, CheckFile, ExecFile, RecordFile, Done, Fails, Crash,
         Stop, Leave, migrateVars
<1>2. applied = {1}
  BY <1>1 DEF Untouched
<1>3. \A q \in Processes \ {p} : pc[q] \notin Working
  BY <1>1 DEF Serial
<1>4. \A q \in Processes : pc[q] # "up"
  BY <1>1 DEF UpIsRecorded, Files
<1>5. \A q \in Processes : pc'[q] \notin Working \cup {"up"}
  BY <1>1, <1>3, <1>4 DEF Leave, MigrateTypeOK
<1>6. recorded' = {} /\ applied' = {1}
  BY <1>1, <1>2 DEF Leave
<1>7. Gap'
  BY <1>6 DEF Gap
<1>8. 1 \in applied' /\ (recorded' = {} => applied' = {1})
  BY <1>6
<1>9. QED
  BY <1>5, <1>7, <1>8 DEF Torn

LEMMA TornStep ==
  ASSUME MigrateTypeOK, Serial, [MigrateNext]_migrateVars, torn, Torn,
         EachIsNeeded
  PROVE  Torn'
<1> USE MigrationsAssumption DEF Go, At, dbVars, Working, UsersExist
<1>0. \A p, q \in Processes : pc[p] \in Working /\ pc[q] \in Working => p = q
  BY DEF Serial
<1>00. UNCHANGED <<applied, recorded>> /\ Gap => Gap'
  BY DEF Gap, Stuck
<1>1. ASSUME NEW p \in Processes, Start(p) \/ AcquireLock(p) \/ EnsureTable(p)
      PROVE  Torn'
  <2>1. UNCHANGED <<applied, recorded>>
    BY <1>1 DEF Start, AcquireLock, EnsureTable
  <2>2. \A q \in Processes : \/ pc'[q] = pc[q] /\ file'[q] = file[q]
                             \/ pc'[q] \in {"lock", "table", "bootstrap"}
    BY <1>1 DEF Start, AcquireLock, EnsureTable, MigrateTypeOK
  <2>3. QED
    BY <1>00, <2>1, <2>2 DEF Torn
<1>2. ASSUME NEW p \in Processes, Bootstrap(p) PROVE Torn'
  <2>1. 1..(1 - 1) = {} /\ 1 <= Cutoff
    OBVIOUS
  <2>2. CASE recorded = {}
    <3>1. pc' = [pc EXCEPT ![p] = "mark"] /\ file' = [file EXCEPT ![p] = 1]
      BY <1>2, <2>2 DEF Bootstrap, Torn
    <3>2. QED
      BY <1>0, <1>00, <1>2, <2>1, <2>2, <3>1 DEF Bootstrap, MigrateTypeOK, Torn
  <2>3. CASE recorded # {}
    <3>1. pc' = [pc EXCEPT ![p] = "check"] /\ file' = [file EXCEPT ![p] = 1]
      BY <1>2, <2>3 DEF Bootstrap
    <3>2. QED
      BY <1>0, <1>00, <1>2, <2>1, <2>3, <3>1 DEF Bootstrap, MigrateTypeOK, Torn
  <2>4. QED
    BY <2>2, <2>3
<1>3. ASSUME NEW p \in Processes, MarkApplied(p) PROVE Torn'
  <2>1. /\ file[p] \in Nat \ {0} /\ file[p] <= Cutoff
        /\ applied = {1} /\ recorded = 1..(file[p] - 1)
    BY <1>3 DEF MarkApplied, Torn, MigrateTypeOK
  <2>2. CASE file[p] <= Last /\ BeforeCutoff(file[p])
    <3>1. /\ recorded' = recorded \cup {file[p]} /\ applied' = {1}
          /\ pc' = pc /\ file' = [file EXCEPT ![p] = file[p] + 1]
          /\ file[p] < Cutoff
      BY <1>3, <2>1, <2>2 DEF MarkApplied, BeforeCutoff
    <3>2. recorded' = 1..((file[p] + 1) - 1) /\ file[p] + 1 <= Cutoff
          /\ recorded' = 1..file[p]
      BY <2>1, <3>1
    <3>3. CASE file[p] = 1
      <4>1. Gap'
        BY <3>1, <3>2, <3>3 DEF Gap
      <4>2. QED
        BY <1>0, <1>00, <1>3, <2>1, <3>1, <3>2, <4>1 DEF MarkApplied, MigrateTypeOK, Torn
    <3>4. CASE file[p] # 1
      <4>1. PICK k \in 2..(Cutoff - 1) : k = file[p]
        BY <2>1, <3>1, <3>4
      <4>2. /\ recorded' = 1..k /\ applied' \cap 2..k = {}
            /\ \A f \in (k + 1)..Last : f \notin recorded' \cup applied'
        BY <3>1, <3>2, <4>1
      <4>3. Stuck(k)'
        BY <4>2 DEF Stuck
      <4>4. Gap'
        BY <4>3 DEF Gap
      <4>5. QED
        BY <1>0, <1>00, <1>3, <2>1, <3>1, <3>2, <4>4 DEF MarkApplied, MigrateTypeOK, Torn
    <3>5. QED
      BY <3>3, <3>4
  <2>3. CASE ~(file[p] <= Last /\ BeforeCutoff(file[p]))
    <3>1. /\ pc' = [pc EXCEPT ![p] = "check"] /\ file' = [file EXCEPT ![p] = 1]
          /\ recorded' = recorded /\ applied' = applied
      BY <1>3, <2>3 DEF MarkApplied
    <3>2. 1 \in 1..(file[p] - 1) /\ 1..(1 - 1) = {}
      BY <2>1, <2>3 DEF BeforeCutoff
    <3>3. QED
      BY <1>0, <1>00, <1>3, <2>1, <3>1, <3>2 DEF MarkApplied, MigrateTypeOK, Torn
  <2>4. QED
    BY <2>2, <2>3
<1>4. ASSUME NEW p \in Processes, CheckFile(p) PROVE Torn'
  <2>1. file[p] \in recorded => 1..(file[p] + 1 - 1) \subseteq recorded
    BY <1>4 DEF CheckFile, MigrateTypeOK, Torn
  <2>2. QED
    BY <1>0, <1>00, <1>4, <2>1 DEF CheckFile, MigrateTypeOK, Torn
<1>5. ASSUME NEW p \in Processes, ExecFile(p) PROVE Torn'
  <2>1. /\ pc' = [pc EXCEPT ![p] = "record"] /\ UNCHANGED <<recorded, file>>
        /\ applied' = applied \cup {file[p]} /\ Needs[file[p]] \subseteq applied
        /\ applied' \subseteq Files
    BY <1>5 DEF ExecFile, MigrateTypeOK, Serial
  <2>2. file[p] \in Files \ recorded /\ recorded # {}
    BY <1>5 DEF ExecFile, Serial, Torn
  <2>3. ASSUME NEW k \in 2..(Cutoff - 1), Stuck(k) PROVE Stuck(k)'
    <3>1. file[p] \in (k + 1)..Last
      BY <2>2, <2>3 DEF Stuck, Files
    <3>2. Needs[file[p]] \cap 2..k = {}
      BY <2>1, <2>3 DEF Stuck
    <3>3. applied' \cap 2..k = {}
      BY <2>1, <2>3, <3>1 DEF Stuck
    <3>4. QED
      BY <2>1, <2>3, <3>2, <3>3 DEF Stuck
  <2>4. Gap'
    BY <2>1, <2>3 DEF Torn, Gap
  <2>5. \A q \in Processes \ {p} : pc[q] \notin Working
    BY <1>0, <1>00, <1>5 DEF ExecFile
  <2>6. QED
    BY <1>5, <2>1, <2>2, <2>4, <2>5 DEF ExecFile, MigrateTypeOK, Torn
<1>6. ASSUME NEW p \in Processes, RecordFile(p) PROVE Torn'
  <2>1. /\ recorded' = recorded \cup {file[p]} /\ UNCHANGED applied
        /\ pc' = [pc EXCEPT ![p] = "check"]
        /\ file' = [file EXCEPT ![p] = file[p] + 1]
        /\ file[p] \in applied /\ 1..(file[p] - 1) \subseteq recorded
    BY <1>6 DEF RecordFile, Torn
  <2>2. 1..(file[p] + 1 - 1) \subseteq recorded'
    BY <1>6, <2>1 DEF MigrateTypeOK
  <2>3. ASSUME NEW k \in 2..(Cutoff - 1), Stuck(k) PROVE Stuck(k)'
    BY <2>1, <2>3 DEF Stuck
  <2>4. Gap'
    BY <2>1, <2>3 DEF Torn, Gap
  <2>5. \A q \in Processes \ {p} : pc[q] \notin Working
    BY <1>0, <1>00, <1>6 DEF RecordFile
  <2>6. QED
    BY <1>6, <2>1, <2>2, <2>4, <2>5 DEF MigrateTypeOK, Torn
<1>7. ASSUME NEW p \in Processes, Done(p) PROVE Torn'
  <2>1. 1..((Last + 1) - 1) = Files
    BY DEF Files
  <2>2. Files \subseteq recorded
    BY <1>7, <2>1 DEF Done, Torn
  <2>3. ASSUME NEW k \in 2..(Cutoff - 1), Stuck(k) PROVE FALSE
    <3>1. PICK f \in (k + 1)..Last : Needs[f] \cap 2..k # {}
      BY DEF EachIsNeeded
    <3>2. f \in Files
      BY DEF Files
    <3>3. QED
      BY <2>2, <2>3, <3>1, <3>2 DEF Stuck
  <2>4. applied = Files
    BY <2>2, <2>3 DEF Torn, Gap, MigrateTypeOK
  <2>5. QED
    BY <1>0, <1>00, <1>7, <2>4 DEF Done, MigrateTypeOK, Torn
<1>8. ASSUME NEW p \in Processes, Fails(p) \/ Crash(p) \/ Stop(p) PROVE Torn'
  <2>1. Leave(p)
    BY <1>8 DEF Fails, Crash, Stop
  <2>2. QED
    BY <1>00, <2>1 DEF Leave, MigrateTypeOK, Torn
<1>9. CASE UNCHANGED migrateVars
  BY <1>00, <1>9 DEF migrateVars, dbVars, Torn
<1>10. QED
  BY <1>1, <1>2, <1>3, <1>4, <1>5, <1>6, <1>7, <1>8, <1>9
  DEF MigrateNext, Migrate

LEMMA UpStep ==
  ASSUME MigrateTypeOK, Serial, [MigrateNext]_migrateVars, UpIsRecorded,
         ~torn => Sound, torn => Torn, MigrateTypeOK'
  PROVE  UpIsRecorded'
<1>1. recorded \subseteq recorded' /\ recorded' \subseteq Files
  BY DEF MigrateNext, Migrate, Start, AcquireLock, EnsureTable, Bootstrap,
         MarkApplied, CheckFile, ExecFile, RecordFile, Done, Fails, Crash,
         Stop, Leave, migrateVars, dbVars, MigrateTypeOK
<1>2. ASSUME NEW p \in Processes, Done(p) PROVE recorded = Files
  <2>1. 1..((Last + 1) - 1) = Files
    BY MigrationsAssumption DEF Files
  <2>2. Files \subseteq recorded
    BY <1>2, <2>1 DEF Done, Sound, Torn
  <2>3. QED
    BY <2>2 DEF MigrateTypeOK
<1>3. ASSUME NEW q \in Processes, pc'[q] = "up"
      PROVE  pc[q] = "up" \/ \E p \in Processes : Done(p)
  BY <1>3 DEF MigrateNext, Migrate, Start, AcquireLock, EnsureTable, Bootstrap,
         MarkApplied, CheckFile, ExecFile, RecordFile, Fails, Crash,
         Stop, Leave, migrateVars, Go, MigrateTypeOK
<1>4. QED
  BY <1>1, <1>2, <1>3 DEF UpIsRecorded

\* Migrate returns nil only over a complete schema, torn start or not: if
\* files are recorded that were never applied, a later one fails for want of
\* their tables, at every start, so no process ever comes up beside the gap.
THEOREM UpOverWholeSchema ==
  ASSUME EachIsNeeded
  PROVE  MigrateSpec => []UpIsComplete
<1> DEFINE Inv == /\ MigrateTypeOK /\ Serial /\ UpIsRecorded
                  /\ ~torn => Sound /\ Untouched
                  /\ torn => Torn
<1>1. MigrateInit => Inv
  <2>1. MigrateInit => Sound /\ Untouched /\ UpIsRecorded /\ ~torn
    BY MigrationsAssumption
    DEF MigrateInit, Sound, Before, UsersExist, Untouched, UpIsRecorded
  <2>2. QED
    BY <2>1, MigrateInitInv
<1>2. Inv /\ [MigrateNext]_migrateVars => Inv'
  <2> SUFFICES ASSUME Inv, [MigrateNext]_migrateVars PROVE Inv'
    OBVIOUS
  <2>1. MigrateTypeOK' /\ Serial'
    BY MigrateTypeStep, SerialStep
  <2>2. UpIsRecorded'
    BY <2>1, UpStep
  <2>3. ASSUME ~torn' PROVE Sound' /\ Untouched'
    BY <2>3, SoundStep, UntouchedStep
  <2>4. ASSUME torn' PROVE Torn'
    BY <2>4, TornStep, BecomesTorn
  <2>5. QED
    BY <2>1, <2>2, <2>3, <2>4
<1>3. Inv => UpIsComplete
  BY DEF UpIsComplete, Sound, Torn
<1>4. QED
  BY <1>1, <1>2, <1>3, PTL DEF MigrateSpec
=============================================================================
