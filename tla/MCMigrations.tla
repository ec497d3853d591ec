----------------------------- MODULE MCMigrations -----------------------------
(* Instances of Migrations for TLC: the twelve files of store/migrations.  *)
EXTENDS Migrations

\* The tables each file refers to, by the file that creates them.
MCNeeds ==
  << {}, {1}, {1, 2}, {1, 3}, {1}, {1}, {1, 5}, {3}, {1}, {1}, {5}, {7, 10} >>

\* The hypothesis of UpOverWholeSchema.
ASSUME FilesAreNeeded == EachIsNeeded
=============================================================================
