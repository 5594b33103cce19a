------------------------- MODULE MigrationsInvariant -------------------------
(* The inductive invariant of Migrations: what a process that has come to a   *)
(* migration may rely on, and what the advisory lock adds to it.              *)
EXTENDS Migrations

\* The database, and the archive, have the first k migrations.
SchemasAreInOrder ==
    /\ \E k \in 0..Last : recorded = 1..k
    /\ applied = recorded
    /\ recorded # {} => meta
    /\ dump.upto > 0 => dump.meta

\* A process past "create table" finds the table, and all migrations before its own: a
\* restore that takes them away stops it.
PastIsRecorded ==
    \A i \in Instances :
        /\ inst[i].pc \in {"lock", "meta", "creating"} => inst[i].v = 1
        /\ inst[i].pc \in {"check", "sql", "record", "commit"} =>
              meta /\ 1..inst[i].v - 1 \subseteq recorded
        /\ inst[i].pc \in {"sql", "record", "commit"} => inst[i].v <= inst[i].build

ServersAreUpToDate ==
    \A i \in Panels \ replaced : inst[i].pc = "serve" => 1..inst[i].build \subseteq recorded

\* Tests are not restored around, and what the holder of the lock has seen stays true.
LockExcludes ==
    locked =>
        /\ clashed = {} /\ script = "idle" /\ ~dump.taken
        /\ \A i \in Instances :
              /\ inst[i].pc # "serve"
              /\ inst[i].pc \in Steps \ {"lock"} => holder = {i}
              /\ inst[i].pc = "creating" => ~meta
              /\ inst[i].pc \in {"sql", "record", "commit"} => inst[i].v \notin recorded

\* The invariant that the theorems about Migrations follow from.
MigrationInv ==
    /\ TypeOK
    /\ SchemasAreInOrder
    /\ PastIsRecorded
    /\ ServersAreUpToDate
    /\ LockExcludes
=============================================================================
