------------------------------ MODULE Migrations ------------------------------
(***************************************************************************)
(* Bringing the database up to the schema of the program: Migrate in       *)
(* internal/db/db.go, run by every panel as it starts (cmd/server/main.go),*)
(* by "--migrate-up", and by the integration tests, which take an advisory *)
(* lock first (internal/testsupport/postgres.go). Meanwhile the panel is   *)
(* updated to a new build, crashes and is restarted by Compose, and the    *)
(* database is dumped and restored (backup.sh, restore.sh). Updates and    *)
(* starts by hand do not take the lock that keeps the scripts apart.       *)
(*                                                                         *)
(* Every statement is a step, with what PostgreSQL makes of two at a time: *)
(* "create table if not exists" fails if another session creates the table *)
(* between its look and its insert; a statement on a table waits for the   *)
(* end of a transaction that has altered it. What a transaction has done   *)
(* is applied when it commits; a crash undoes it at once. The rows of the  *)
(* panel's tables are left out.                                            *)
(***************************************************************************)
EXTENDS Integers, FiniteSets

CONSTANTS
    Panels,       \* servers
    Jobs,         \* runs of --migrate-up
    Last,         \* migrations the newest build knows
    MaxFaults,    \* bound: errors and crashes of instances
    MaxRestores   \* bound: restores

ASSUME MigrationsAssumption ==
    /\ Last \in 1..5
    /\ MaxFaults \in Nat /\ MaxRestores \in Nat
    /\ Panels \cap Jobs = {}

Instances == Panels \cup Jobs
Versions == 1..Last

VARIABLES
    meta,        \* table schema_migrations exists
    recorded,    \* its rows
    applied,     \* migrations the schema shows
    inst,        \* the instances
    locked,      \* the instances are test processes, which take the advisory lock
    holder,      \* who has the lock
    script,      \* what restore.sh is doing
    dump,        \* the archive to restore
    faults,      \* faults so far
    restores,    \* restores so far
    clashed,     \* history: instances that failed because of another one
    replaced     \* history: panels the database has been replaced under

db == <<meta, recorded, applied>>
ops == <<locked, script, dump, restores, replaced>>
vars == <<db, inst, holder, ops, faults, clashed>>

\* "down" waits for Compose to restart it, "off" for somebody to start it; a job ends "off"
\* or "failed". v is the migration Migrate has come to.
Steps == {"lock", "meta", "creating", "check", "sql", "record", "commit"}

Programs == [pc: Steps \cup {"off", "down", "failed", "serve"}, v: 1..Last + 1, build: Versions]

NoDump == [meta |-> FALSE, upto |-> 0, taken |-> FALSE]

TypeOK ==
    /\ meta \in BOOLEAN /\ recorded \subseteq Versions /\ applied \subseteq Versions
    /\ inst \in [Instances -> Programs]
    /\ holder \in {{}} \cup {{i} : i \in Instances}
    /\ script \in {"idle", "drop", "load", "migrate", "start"}
    /\ dump \in [meta: BOOLEAN, upto: 0..Last, taken: BOOLEAN]
    /\ faults \in 0..MaxFaults /\ restores \in 0..MaxRestores
    /\ locked \in BOOLEAN
    /\ clashed \subseteq Instances /\ replaced \subseteq Panels

-----------------------------------------------------------------------------
(* What each migration is *)

\* The table a migration alters; the first creates them all.
TableOf(v) == IF v = 1 THEN "all" ELSE IF v <= 3 THEN "nodes" ELSE "users"

\* Two migrations one of which has to wait for the other.
SameTable(v, w) == TableOf(v) = TableOf(w) \/ "all" \in {TableOf(v), TableOf(w)}

\* Only the first cannot be applied again; the others cannot be applied without it.
Fails(v) == IF v = 1 THEN 1 \in applied ELSE 1 \notin applied

-----------------------------------------------------------------------------
(* Starting and stopping *)

Goto(i, pc) == inst' = [inst EXCEPT ![i].pc = pc]

Release(i) == holder' = holder \ {i}

\* A panel exits with status 1 and is restarted; a job or a test has failed.
Exit(i) == Goto(i, IF i \in Panels /\ ~locked THEN "down" ELSE "failed") /\ Release(i)

Running(i) == inst[i].pc \in Steps

\* Connect, then the lock if it is a test, then Migrate. restore.sh leaves no database to
\* connect to for a moment: the instance stays where it is.
Begin(i) == inst' = [inst EXCEPT ![i].pc = IF locked THEN "lock" ELSE "meta", ![i].v = 1]

\* It has not seen the database that has been replaced.
NewConnection(i) == replaced' = replaced \ {i}

Restart(i) ==
    /\ inst[i].pc = "down"
    /\ Begin(i)
    /\ NewConnection(i)
    /\ UNCHANGED <<db, holder, locked, script, dump, restores, faults, clashed>>

\* By hand, or by update.sh, which may bring a newer build.
Start(i) ==
    /\ inst[i].pc \in {"off", "failed"}
    /\ Begin(i)
    /\ NewConnection(i)
    /\ UNCHANGED <<db, holder, locked, script, dump, restores, faults, clashed>>

Update(i) ==
    /\ i \in Panels /\ inst[i].build < Last
    /\ inst' = [inst EXCEPT ![i].build = @ + 1, ![i].pc = "down"]
    /\ Release(i)
    /\ UNCHANGED <<db, ops, faults, clashed>>

\* A crash, a lost connection or any other error: the transaction is rolled back.
Fault(i) ==
    /\ Running(i) \/ inst[i].pc = "serve"
    /\ faults < MaxFaults
    /\ faults' = faults + 1
    /\ Exit(i)
    /\ UNCHANGED <<db, ops, clashed>>

-----------------------------------------------------------------------------
(* Migrate *)

\* Faulty variant: the lock is not exclusive.
ShareLock(i) ==
    /\ inst[i].pc = "lock"
    /\ holder' = {i}
    /\ Goto(i, "meta")
    /\ UNCHANGED <<db, ops, faults, clashed>>

\* A session that waits for 30 seconds gives up: that is a fault.
AcquireMigrationLock(i) ==
    /\ inst[i].pc = "lock"
    /\ holder = {}
    /\ holder' = {i}
    /\ Goto(i, "meta")
    /\ UNCHANGED <<db, ops, faults, clashed>>

\* Another instance was quicker.
Clash(i) == Exit(i) /\ clashed' = clashed \cup {i}

\* Faulty variant: "if not exists" is missing.
CreateAnew(i) ==
    /\ inst[i].pc = "meta"
    /\ IF meta THEN Clash(i) ELSE Goto(i, "creating") /\ UNCHANGED <<holder, clashed>>
    /\ UNCHANGED <<db, ops, faults>>

CreateMigrationsTable(i) ==
    /\ inst[i].pc = "meta"
    /\ Goto(i, IF meta THEN "check" ELSE "creating")
    /\ UNCHANGED <<db, holder, ops, faults, clashed>>

FinishCreate(i) ==
    /\ inst[i].pc = "creating"
    /\ IF meta THEN Clash(i) /\ meta' = meta
               ELSE Goto(i, "check") /\ meta' = TRUE /\ UNCHANGED <<holder, clashed>>
    /\ UNCHANGED <<recorded, applied, ops, faults>>

\* Faulty variant: the loop runs one migration too far.
CheckPastEnd(i) ==
    /\ inst[i].pc = "check"
    /\ LET v == inst[i].v
       IN IF v > inst[i].build + 1
          THEN /\ Goto(i, IF i \in Panels /\ ~locked THEN "serve" ELSE "off")
               /\ Release(i)
          ELSE /\ inst' = IF v \in recorded THEN [inst EXCEPT ![i].v = v + 1]
                                           ELSE [inst EXCEPT ![i].pc = "sql"]
               /\ holder' = holder
    /\ UNCHANGED <<db, ops, faults, clashed>>

\* With all it knows recorded, a panel serves; a job is done, and so is a test, in the end.
Check(i) ==
    /\ inst[i].pc = "check"
    /\ LET v == inst[i].v
       IN IF v > inst[i].build
          THEN /\ Goto(i, IF i \in Panels /\ ~locked THEN "serve" ELSE "off")
               /\ Release(i)
          ELSE /\ inst' = IF v \in recorded THEN [inst EXCEPT ![i].v = v + 1]
                                           ELSE [inst EXCEPT ![i].pc = "sql"]
               /\ holder' = holder
    /\ UNCHANGED <<db, ops, faults, clashed>>

\* An uncommitted transaction has altered the table.
Waits(i) ==
    \E j \in Instances \ {i} :
        inst[j].pc \in {"record", "commit"} /\ SameTable(inst[i].v, inst[j].v)

ApplySQL(i) ==
    /\ inst[i].pc = "sql" /\ ~Waits(i)
    /\ IF Fails(inst[i].v) THEN Clash(i) ELSE Goto(i, "record") /\ UNCHANGED <<holder, clashed>>
    /\ UNCHANGED <<db, ops, faults>>

\* Faulty variant: the version is recorded outside the transaction.
RecordAtOnce(i) ==
    /\ inst[i].pc = "record"
    /\ IF inst[i].v \in recorded THEN Clash(i) ELSE Goto(i, "commit") /\ UNCHANGED <<holder, clashed>>
    /\ recorded' = recorded \cup {inst[i].v}
    /\ UNCHANGED <<meta, applied, ops, faults>>

\* The version is the primary key.
InsertVersion(i) ==
    /\ inst[i].pc = "record"
    /\ IF inst[i].v \in recorded THEN Clash(i) ELSE Goto(i, "commit") /\ UNCHANGED <<holder, clashed>>
    /\ UNCHANGED <<db, ops, faults>>

Committed(v) ==
    /\ applied' = applied \cup {v}
    /\ recorded' = recorded \cup {v}
    /\ meta' = meta

Commit(i) ==
    /\ inst[i].pc = "commit"
    /\ Committed(inst[i].v)
    /\ inst' = [inst EXCEPT ![i].pc = "check", ![i].v = @ + 1]
    /\ UNCHANGED <<holder, ops, faults, clashed>>

\* The transaction is committed, but the instance does not learn of it.
CommitUnknown(i) ==
    /\ inst[i].pc = "commit"
    /\ faults < MaxFaults
    /\ faults' = faults + 1
    /\ Committed(inst[i].v)
    /\ Exit(i)
    /\ UNCHANGED <<ops, clashed>>

Migrate(i) ==
    \/ AcquireMigrationLock(i) \/ CreateMigrationsTable(i) \/ FinishCreate(i)
    \/ Check(i) \/ ApplySQL(i) \/ InsertVersion(i) \/ Commit(i)

-----------------------------------------------------------------------------
(* backup.sh and restore.sh; the maintenance lock keeps them apart *)

\* pg_dump reads one snapshot.
Dump ==
    /\ script = "idle" /\ ~locked
    /\ dump' = [meta |-> meta, upto |-> Cardinality(recorded), taken |-> TRUE]
    /\ UNCHANGED <<db, inst, holder, locked, script, restores, replaced, faults, clashed>>

\* restore_database first stops the panels. That this fails is ignored.
StopPanels ==
    /\ script = "idle" /\ dump.taken /\ restores < MaxRestores
    /\ restores' = restores + 1
    /\ script' = "drop"
    /\ \E S \in SUBSET {i \in Panels : inst[i].pc # "off"} :
          /\ inst' = [i \in Instances |->
                        IF i \in Panels \ S THEN [inst[i] EXCEPT !.pc = "off"] ELSE inst[i]]
          /\ holder' = holder \ (Panels \ S)
    /\ UNCHANGED <<db, locked, dump, replaced, faults, clashed>>

\* The connections are cut and the database is dropped and created empty.
DropDatabase ==
    /\ script = "drop"
    /\ script' = "load"
    /\ meta' = FALSE /\ recorded' = {} /\ applied' = {}
    /\ inst' = [i \in Instances |->
                  IF Running(i) THEN [inst[i] EXCEPT !.pc = IF i \in Panels THEN "down" ELSE "failed"]
                  ELSE inst[i]]
    /\ replaced' = replaced \cup {i \in Panels : inst[i].pc = "serve"}
    /\ UNCHANGED <<holder, locked, dump, restores, faults, clashed>>

\* pg_restore, in one transaction: it waits for others that create the same tables.
LoadDump ==
    /\ script = "load"
    /\ ~meta /\ applied = {}
    /\ \A i \in Instances : inst[i].pc \notin {"record", "commit"}
    /\ script' = "migrate"
    /\ meta' = dump.meta /\ recorded' = 1..dump.upto /\ applied' = 1..dump.upto
    /\ UNCHANGED <<inst, holder, locked, dump, restores, replaced, faults, clashed>>

\* The script is interrupted or fails, in pg_restore for one when a panel that was not
\* stopped has created tables meanwhile.
Die ==
    /\ script # "idle"
    /\ script' = "idle"
    /\ UNCHANGED <<db, inst, holder, locked, dump, restores, replaced, faults, clashed>>

\* The job runs to its end before the panels are started.
RunMigrateUp(j) ==
    /\ script = "migrate"
    /\ inst[j].pc \in {"off", "failed"}
    /\ script' = "start"
    /\ Begin(j)
    /\ UNCHANGED <<db, holder, locked, dump, restores, replaced, faults, clashed>>

StartPanels ==
    /\ script = "start"
    /\ \A j \in Jobs : inst[j].pc = "off"
    /\ script' = "idle"
    /\ inst' = [i \in Instances |->
                  IF i \in Panels /\ inst[i].pc = "off" THEN [inst[i] EXCEPT !.pc = "down"] ELSE inst[i]]
    /\ UNCHANGED <<db, holder, locked, dump, restores, replaced, faults, clashed>>

Maintenance ==
    \/ Dump \/ StopPanels \/ DropDatabase \/ LoadDump \/ Die \/ StartPanels
    \/ \E j \in Jobs : RunMigrateUp(j)

-----------------------------------------------------------------------------
(* Specification *)

\* A new database, or one that an older build has brought to its schema.
Init ==
    /\ \E k \in 0..Last :
          /\ meta \in IF k = 0 THEN BOOLEAN ELSE {TRUE}
          /\ recorded = 1..k /\ applied = 1..k
    /\ inst \in [Instances -> [pc: {"off"}, v: {1}, build: {Last - 1, Last} \cap Versions]]
    /\ \A j \in Jobs : inst[j].build = Last
    /\ locked \in BOOLEAN /\ holder = {}
    /\ script = "idle" /\ dump = NoDump
    /\ faults = 0 /\ restores = 0
    /\ clashed = {} /\ replaced = {}

Next ==
    \/ \E i \in Instances :
          Restart(i) \/ Start(i) \/ Update(i) \/ Fault(i) \/ Migrate(i) \/ CommitUnknown(i)
    \/ Maintenance

\* Compose restarts a panel that exits (restart: unless-stopped), and a statement ends.
Fairness == \A i \in Instances : WF_vars(Restart(i)) /\ WF_vars(Migrate(i))

Spec == Init /\ [][Next]_vars /\ Fairness

-----------------------------------------------------------------------------
(* Properties *)

\* What the table says is what the schema shows, without gaps, however instances with
\* different builds race, crash and are restored around it; and a panel that serves finds
\* all the columns its build knows, unless a restore has replaced the database under it, which
\* stops panels but goes on when that fails. (the transaction in Migrate, the order of main)
SchemaAsRecorded ==
    /\ applied = recorded
    /\ recorded = 1..Cardinality(recorded)
    /\ recorded # {} => meta
    /\ \A i \in Panels \ replaced : inst[i].pc = "serve" => 1..inst[i].build \subseteq applied

\* Under the advisory lock no instance fails because another one migrates at the same time.
\* Without it that happens: both see that a version is missing. (OpenIntegrationTestDB)
LockPreventsClashes == locked => clashed = {}

\* A panel that has exited serves in the end, unless somebody stops it: whoever it clashes
\* with, wherever it crashed, its next start finds the work done or can do it.
PanelsServe ==
    \A i \in Panels : ~locked /\ inst[i].pc = "down" ~> inst[i].pc \in {"serve", "off"}
=============================================================================
