------------------------------ MODULE Migrations ------------------------------
(***************************************************************************)
(* Store.Migrate (internal/store/migrate.go), which each of the four        *)
(* processes calls when it starts: an advisory lock, the table              *)
(* schema_migrations, the bootstrap of a database that is older than the    *)
(* table, and the files in the order of their names.                        *)
(*                                                                         *)
(* A file is executed as one implicit transaction and recorded by another   *)
(* statement.  Files are idempotent; one fails while the tables it works on *)
(* are missing.  A process that fails or is killed loses its session, hence *)
(* the lock, and is started again.                                          *)
(***************************************************************************)
EXTENDS Integers

CONSTANTS
  Processes,
  Nobody,    \* "the advisory lock is free"
  Last,      \* the files are 1..Last; file 1 creates the table users
  Cutoff,    \* bootstrapCutoff
  Needs,     \* Needs[f]: the files whose tables f works on
  MaxFaults  \* bound: killed processes and failed statements in a run

Files == 1..Last

ASSUME MigrationsAssumption ==
  /\ Nobody \notin Processes
  /\ Last \in Nat \ {0}
  /\ Cutoff \in 2..Last
  /\ Needs \in [Files -> SUBSET Files]
  /\ \A f \in Files : \A g \in Needs[f] : g < f
  /\ MaxFaults \in Nat

VARIABLES
  applied,  \* files whose statements have been committed
  recorded, \* rows of schema_migrations
  lock,     \* the process whose session holds the advisory lock
  pc,       \* pc[p]: where p is in Migrate; "up" once it has returned nil
  file,     \* file[p]: the file at hand
  again,    \* files that have been executed more than once
  torn,     \* a process has died between executing and recording file 1
  faults    \* killed processes and failed statements so far

dbVars == <<applied, recorded, again, torn>>
migrateVars == <<dbVars, lock, pc, file, faults>>

Working == {"table", "bootstrap", "mark", "check", "exec", "record"}

MigrateTypeOK ==
  /\ applied \subseteq Files
  /\ recorded \subseteq Files
  /\ again \subseteq applied
  /\ torn \in BOOLEAN
  /\ lock \in Processes \cup {Nobody}
  /\ pc \in [Processes -> {"down", "lock", "up"} \cup Working]
  /\ file \in [Processes -> 1..(Last + 1)]
  /\ faults \in 0..MaxFaults

\* A clean database, or one from before schema_migrations.
MigrateInit ==
  /\ applied \in {{}, 1..(Cutoff - 1)}
  /\ recorded = {}
  /\ again = {}
  /\ torn = FALSE
  /\ lock = Nobody
  /\ pc = [p \in Processes |-> "down"]
  /\ file = [p \in Processes |-> 1]
  /\ faults = 0
-----------------------------------------------------------------------------
Go(p, there) == pc' = [pc EXCEPT ![p] = there]
At(p, f)     == file' = [file EXCEPT ![p] = f]

Start(p) ==
  /\ pc[p] = "down"
  /\ Go(p, "lock")
  /\ UNCHANGED <<dbVars, lock, file, faults>>

\* Mutant of LockFree: the lock is taken on another session of the pool than
\* the statements it should protect, and returned at once.
NoWait == TRUE

LockFree == lock = Nobody

\* pg_advisory_lock waits.
AcquireLock(p) ==
  /\ pc[p] = "lock"
  /\ LockFree
  /\ lock' = p
  /\ Go(p, "table")
  /\ UNCHANGED <<dbVars, file, faults>>

\* CREATE TABLE IF NOT EXISTS schema_migrations.
EnsureTable(p) ==
  /\ pc[p] = "table"
  /\ Go(p, "bootstrap")
  /\ UNCHANGED <<dbVars, lock, file, faults>>

UsersExist == 1 \in applied

\* The queries of bootstrapSchemaMigrations.
Bootstrap(p) ==
  /\ pc[p] = "bootstrap"
  /\ Go(p, IF recorded = {} /\ UsersExist THEN "mark" ELSE "check")
  /\ At(p, 1)
  /\ UNCHANGED <<dbVars, lock, faults>>

\* Mutant of BeforeCutoff: the cutoff itself counts as applied.
UpToCutoff(f) == f <= Cutoff

BeforeCutoff(f) == f < Cutoff

\* One INSERT ... ON CONFLICT DO NOTHING for each file, in no transaction.
MarkApplied(p) ==
  /\ pc[p] = "mark"
  /\ IF file[p] <= Last /\ BeforeCutoff(file[p])
       THEN /\ recorded' = recorded \cup {file[p]}
            /\ At(p, file[p] + 1)
            /\ UNCHANGED pc
       ELSE /\ At(p, 1)
            /\ Go(p, "check")
            /\ UNCHANGED recorded
  /\ UNCHANGED <<applied, again, torn, lock, faults>>

\* The loop of Migrate: SELECT EXISTS for the file at hand.
CheckFile(p) ==
  /\ pc[p] = "check"
  /\ file[p] <= Last
  /\ IF file[p] \in recorded
       THEN At(p, file[p] + 1) /\ UNCHANGED pc
       ELSE Go(p, "exec") /\ UNCHANGED file
  /\ UNCHANGED <<dbVars, lock, faults>>

ExecFile(p) ==
  /\ pc[p] = "exec"
  /\ Needs[file[p]] \subseteq applied
  /\ applied' = applied \cup {file[p]}
  /\ again' = IF file[p] \in applied THEN again \cup {file[p]} ELSE again
  /\ Go(p, "record")
  /\ UNCHANGED <<recorded, torn, lock, file, faults>>

\* A plain INSERT: a row that is there already is an error.
RecordFile(p) ==
  /\ pc[p] = "record"
  /\ file[p] \notin recorded
  /\ recorded' = recorded \cup {file[p]}
  /\ At(p, file[p] + 1)
  /\ Go(p, "check")
  /\ UNCHANGED <<applied, again, torn, lock, faults>>

\* Mutant of Unlocked: releaseMigrateConn puts the connection back into the
\* pool without pg_advisory_unlock.
StillLocked(p) == lock

\* Only the session that holds the lock can release it.
Unlocked(p) == IF lock = p THEN Nobody ELSE lock

Done(p) ==
  /\ pc[p] = "check"
  /\ file[p] = Last + 1
  /\ lock' = Unlocked(p)
  /\ Go(p, "up")
  /\ At(p, 1)
  /\ UNCHANGED <<dbVars, faults>>

\* The process ends and its session with it.
Leave(p) ==
  /\ lock' = IF lock = p THEN Nobody ELSE lock
  /\ Go(p, "down")
  /\ At(p, 1)
  /\ torn' = (torn \/ (pc[p] = "record" /\ recorded = {}))
  /\ UNCHANGED <<applied, recorded, again>>

\* The tables the file works on are missing, or its row is there already.
Fails(p) ==
  /\ \/ pc[p] = "exec" /\ ~(Needs[file[p]] \subseteq applied)
     \/ pc[p] = "record" /\ file[p] \in recorded
  /\ Leave(p)
  /\ UNCHANGED faults

\* A kill, a cancelled context or a lost connection, anywhere in Migrate.
Crash(p) ==
  /\ pc[p] \in Working \cup {"lock"}
  /\ faults < MaxFaults
  /\ faults' = faults + 1
  /\ Leave(p)

\* A deployment stops a running process.
Stop(p) ==
  /\ pc[p] = "up"
  /\ Leave(p)
  /\ UNCHANGED faults
-----------------------------------------------------------------------------
Migrate(p) ==
  \/ AcquireLock(p) \/ EnsureTable(p) \/ Bootstrap(p) \/ MarkApplied(p)
  \/ CheckFile(p) \/ ExecFile(p) \/ RecordFile(p) \/ Done(p) \/ Fails(p)

MigrateNext == \E p \in Processes : Start(p) \/ Migrate(p) \/ Crash(p) \/ Stop(p)

MigrateSpec == MigrateInit /\ [][MigrateNext]_migrateVars

\* A process that is down is started again, and a statement ends.  A process
\* that waits for the lock gets it some time, however often the others are
\* deployed again beside it: PostgreSQL serves the waiters in their order.
MigrateFairness ==
  \A p \in Processes :
    /\ WF_migrateVars(Start(p))
    /\ WF_migrateVars(Migrate(p))
    /\ SF_migrateVars(AcquireLock(p))

FairMigrateSpec == MigrateSpec /\ MigrateFairness
-----------------------------------------------------------------------------
(* Properties.                                                             *)

\* Migrate returns nil only when every file has been applied: neither the
\* bootstrap, nor a start beside others, nor any two crashes between its
\* statements let a process serve an incomplete schema.
UpIsComplete == \A p \in Processes : pc[p] = "up" => applied = Files

\* A file is executed a second time only when a process has failed in
\* between: processes that start together do not repeat each other's DDL.
RunAgainAfterFault == again # {} => faults > 0

\* Every process comes up in the end, whatever has failed before, unless
\* the very first file was left applied and not recorded.
ComesUp == \A p \in Processes : (pc[p] = "lock") ~> (pc[p] = "up" \/ torn)

\* migrate.go:30: files that are applied already are skipped by the table
\* schema_migrations.  A clean database on which the first start has died
\* between file 1 and its row looks like one from before the table, and
\* files that were never applied are recorded.
RecordedIsApplied == recorded \subseteq applied

\* Each file that the bootstrap may record without having applied it is
\* wanted by a later one; so it is with the files of store/migrations.
EachIsNeeded ==
  \A k \in 2..(Cutoff - 1) : \E f \in (k + 1)..Last : Needs[f] \cap 2..k # {}
=============================================================================
