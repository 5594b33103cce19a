--------------------------- MODULE MigrationsProofs ---------------------------
(* MigrationInv is an inductive invariant of Migrations, for any panels, jobs  *)
(* and bounds; the schema is as recorded, and the lock prevents clashes.       *)
EXTENDS MigrationsInvariant, FiniteSetTheorems, TLAPS

-----------------------------------------------------------------------------
(* Schemas *)

\* A schema is known by the number of its migrations.
LEMMA SchemaSize ==
    ASSUME NEW k \in Nat
    PROVE  Cardinality(1..k) = k
BY FS_Interval

\* The next migration extends a schema that has all before it.
LEMMA SchemaGrows ==
    ASSUME NEW k \in 0..Last, NEW v \in 1..Last, 1..v - 1 \subseteq 1..k
    PROVE  \E m \in 0..Last : (1..k) \cup {v} = 1..m
<1>0. Last \in Nat
      BY MigrationsAssumption
<1>1. CASE v <= k
  <2>1. (1..k) \cup {v} = 1..k
        BY <1>0, <1>1
  <2>  QED BY <2>1
<1>2. CASE v > k
  <2>1. v = k + 1
    <3>1. v - 1 <= k
      <4>1. CASE v = 1
            BY <4>1, <1>0
      <4>2. CASE v > 1
        <5>1. v - 1 \in 1..v - 1
              BY <4>2, <1>0
        <5>  QED BY <5>1, <1>0
      <4>  QED BY <4>1, <4>2, <1>0
    <3>  QED BY <3>1, <1>2, <1>0
  <2>2. (1..k) \cup {v} = 1..v
        BY <2>1, <1>0
  <2>  QED BY <2>2, <1>0
<1>  QED BY <1>0, <1>1, <1>2

-----------------------------------------------------------------------------
(* The initial state *)

LEMMA InitInv == Init => MigrationInv
<1> SUFFICES ASSUME Init PROVE MigrationInv
    OBVIOUS
<1>0. Last \in 1..5 /\ MaxFaults \in Nat /\ MaxRestores \in Nat
      BY MigrationsAssumption
<1>k. PICK k \in 0..Last : /\ meta \in IF k = 0 THEN BOOLEAN ELSE {TRUE}
                           /\ recorded = 1..k /\ applied = 1..k
      BY DEF Init
<1>1. TypeOK
  <2>1. inst \in [Instances -> Programs]
        BY <1>0 DEF Init, Programs, Versions
  <2>2. meta \in BOOLEAN
        BY <1>k
  <2>3. recorded \subseteq Versions /\ applied \subseteq Versions
        BY <1>k, <1>0 DEF Versions
  <2>  QED BY <1>0, <2>1, <2>2, <2>3 DEF Init, TypeOK, NoDump
<1>2. SchemasAreInOrder
  <2>1. recorded # {} => meta
    <3>1. CASE k = 0
      <4>1. recorded = {}
            BY <3>1, <1>k
      <4>  QED BY <4>1
    <3>2. CASE k # 0
          BY <3>2, <1>k
    <3>  QED BY <3>1, <3>2
  <2>2. ~ dump.upto > 0
        BY DEF Init, NoDump
  <2>  QED BY <1>k, <2>1, <2>2 DEF SchemasAreInOrder
<1>3. \A i \in Instances : inst[i].pc = "off"
      BY DEF Init
<1>4. PastIsRecorded /\ ServersAreUpToDate
      BY <1>3 DEF PastIsRecorded, ServersAreUpToDate, Instances
<1>5. LockExcludes
      BY <1>3 DEF Init, LockExcludes, Steps, NoDump
<1>  QED BY <1>1, <1>2, <1>4, <1>5 DEF MigrationInv

-----------------------------------------------------------------------------
(* Steps that stop or start an instance *)

\* What Exit, Begin and the like do to the instances.
LEMMA GotoFrame ==
    ASSUME TypeOK, NEW i \in Instances, NEW pc \in Steps \cup {"off", "down", "failed", "serve"},
           Goto(i, pc)
    PROVE  /\ inst' \in [Instances -> Programs]
           /\ inst'[i].pc = pc /\ inst'[i].v = inst[i].v /\ inst'[i].build = inst[i].build
           /\ \A j \in Instances : j # i => inst'[j] = inst[j]
BY DEF TypeOK, Goto, Programs, Steps

LEMMA ExitFrame ==
    ASSUME TypeOK, NEW i \in Instances, Exit(i)
    PROVE  /\ inst' \in [Instances -> Programs]
           /\ inst'[i].pc \in {"down", "failed"}
           /\ \A j \in Instances : j # i => inst'[j] = inst[j]
           /\ holder' = holder \ {i}
<1>1. PICK pc \in {"down", "failed"} : Goto(i, pc)
      BY DEF Exit
<1>2. holder' = holder \ {i}
      BY DEF Exit, Release
<1>  QED BY <1>1, <1>2, GotoFrame

LEMMA BeginFrame ==
    ASSUME TypeOK, NEW i \in Instances, Begin(i)
    PROVE  /\ inst' \in [Instances -> Programs]
           /\ inst'[i].pc = (IF locked THEN "lock" ELSE "meta") /\ inst'[i].v = 1
           /\ \A j \in Instances : j # i => inst'[j] = inst[j]
<1>1. 1 \in 1..Last + 1
      BY MigrationsAssumption
<1>  QED BY <1>1 DEF TypeOK, Begin, Programs, Steps

LEMMA HolderReleased ==
    ASSUME TypeOK, NEW i \in Instances, holder' = holder \ {i}
    PROVE  holder' \in {{}} \cup {{j} : j \in Instances}
BY DEF TypeOK

\* An instance that leaves Migrate without a trace disturbs nobody.
LEMMA LeaverKeepsInv ==
    ASSUME MigrationInv, NEW i \in Instances,
           inst' \in [Instances -> Programs],
           inst'[i].pc \in {"down", "failed"},
           \A j \in Instances : j # i => inst'[j] = inst[j],
           holder' = holder \ {i},
           UNCHANGED <<db, script, dump, locked, restores, replaced>>,
           faults' \in 0..MaxFaults,
           locked => clashed' = clashed, clashed' \subseteq Instances
    PROVE  MigrationInv'
<1> USE DEF MigrationInv, db
<1>1. TypeOK'
      BY HolderReleased DEF TypeOK
<1>2. SchemasAreInOrder'
      BY DEF SchemasAreInOrder
<1>3. PastIsRecorded'
      BY DEF PastIsRecorded
<1>4. ServersAreUpToDate'
      BY DEF ServersAreUpToDate, Instances
<1>5. LockExcludes'
      BY DEF LockExcludes, Steps
<1>  QED BY <1>1, <1>2, <1>3, <1>4, <1>5

\* One that starts has done nothing yet.
LEMMA StarterKeepsInv ==
    ASSUME MigrationInv, NEW i \in Instances, Begin(i), ~Running(i),
           UNCHANGED <<db, holder, locked, dump, restores, faults, clashed>>,
           script' \in {"idle", "drop", "load", "migrate", "start"}, locked => script' = script,
           replaced' \subseteq replaced, inst[i].pc # "serve" \/ i \notin Panels,
           replaced \subseteq replaced' \cup {i}
    PROVE  MigrationInv'
<1> USE DEF MigrationInv, db
<1>0. /\ inst' \in [Instances -> Programs]
      /\ inst'[i].pc = (IF locked THEN "lock" ELSE "meta") /\ inst'[i].v = 1
      /\ \A j \in Instances : j # i => inst'[j] = inst[j]
      BY BeginFrame
<1>1. TypeOK'
      BY <1>0 DEF TypeOK
<1>2. SchemasAreInOrder'
      BY DEF SchemasAreInOrder
<1>3. PastIsRecorded'
      BY <1>0 DEF PastIsRecorded
<1>4. ServersAreUpToDate'
      BY <1>0 DEF ServersAreUpToDate, Instances
<1>5. LockExcludes'
      BY <1>0 DEF LockExcludes, Steps
<1>  QED BY <1>1, <1>2, <1>3, <1>4, <1>5

-----------------------------------------------------------------------------
(* Starting and stopping *)

LEMMA RestartKeepsInv ==
    ASSUME MigrationInv, NEW i \in Instances, Restart(i)
    PROVE  MigrationInv'
<1>1. script \in {"idle", "drop", "load", "migrate", "start"}
      BY DEF MigrationInv, TypeOK
<1>  QED BY <1>1, StarterKeepsInv DEF Restart, NewConnection, Running, Steps

LEMMA StartKeepsInv ==
    ASSUME MigrationInv, NEW i \in Instances, Start(i)
    PROVE  MigrationInv'
<1>1. script \in {"idle", "drop", "load", "migrate", "start"}
      BY DEF MigrationInv, TypeOK
<1>  QED BY <1>1, StarterKeepsInv DEF Start, NewConnection, Running, Steps

\* restore.sh is never run around tests, so the advisory lock is not in use.
LEMMA RunMigrateUpKeepsInv ==
    ASSUME MigrationInv, NEW j \in Jobs, RunMigrateUp(j)
    PROVE  MigrationInv'
<1>1. ~locked
      BY DEF MigrationInv, LockExcludes, RunMigrateUp
<1>2. j \in Instances /\ j \notin Panels
      BY MigrationsAssumption DEF Instances
<1>  QED BY <1>1, <1>2, StarterKeepsInv DEF RunMigrateUp, Running, Steps

LEMMA UpdateKeepsInv ==
    ASSUME MigrationInv, NEW i \in Instances, Update(i)
    PROVE  MigrationInv'
<1>1. inst[i] \in Programs /\ inst[i].build + 1 \in Versions
      BY MigrationsAssumption DEF MigrationInv, TypeOK, Update, Programs, Versions
<1>2. /\ inst' \in [Instances -> Programs]
      /\ inst'[i].pc = "down"
      /\ \A j \in Instances : j # i => inst'[j] = inst[j]
      BY <1>1 DEF MigrationInv, TypeOK, Update, Programs
<1>3. /\ UNCHANGED <<db, script, dump, locked, restores, replaced, faults, clashed>>
      /\ holder' = holder \ {i}
      BY DEF Update, ops, Release
<1>  QED BY <1>2, <1>3, LeaverKeepsInv DEF MigrationInv, TypeOK

LEMMA OneMoreFault ==
    ASSUME faults \in 0..MaxFaults, faults < MaxFaults, faults' = faults + 1
    PROVE  faults' \in 0..MaxFaults
BY MigrationsAssumption

LEMMA FaultKeepsInv ==
    ASSUME MigrationInv, NEW i \in Instances, Fault(i)
    PROVE  MigrationInv'
<1>1. faults' \in 0..MaxFaults
      BY OneMoreFault DEF MigrationInv, TypeOK, Fault
<1>2. UNCHANGED <<db, script, dump, locked, restores, replaced, clashed>> /\ Exit(i)
      BY DEF Fault, ops
<1>  QED BY <1>1, <1>2, ExitFrame, LeaverKeepsInv DEF MigrationInv, TypeOK

\* A clash is an exit; under the lock there is none.
LEMMA ClashKeepsInv ==
    ASSUME MigrationInv, NEW i \in Instances, Clash(i), ~locked, UNCHANGED <<db, ops, faults>>
    PROVE  MigrationInv'
<1>1. Exit(i) /\ clashed' \subseteq Instances
      BY DEF Clash, MigrationInv, TypeOK
<1>2. UNCHANGED <<script, dump, locked, restores, replaced, faults>>
      BY DEF ops
<1>  QED BY <1>1, <1>2, ExitFrame, LeaverKeepsInv DEF MigrationInv, TypeOK

-----------------------------------------------------------------------------
(* Migrate *)

\* One that stays in Migrate and leaves the database alone need only show its own part.
LEMMA MoverKeepsInv ==
    ASSUME MigrationInv, NEW i \in Instances, NEW pc \in Steps \ {"lock"}, Goto(i, pc),
           UNCHANGED <<db, ops, faults, clashed>>,
           holder' \in {holder, {i}}, locked => holder' = {i} /\ holder \in {{}, {i}},
           pc \in {"meta", "creating"} => inst[i].v = 1,
           pc \in {"check", "sql", "record", "commit"} =>
               meta /\ 1..inst[i].v - 1 \subseteq recorded,
           pc \in {"sql", "record", "commit"} =>
               inst[i].v <= inst[i].build /\ (locked => inst[i].v \notin recorded),
           locked /\ pc = "creating" => ~meta
    PROVE  MigrationInv'
<1> USE DEF MigrationInv, db, ops
<1>0. /\ inst' \in [Instances -> Programs]
      /\ inst'[i].pc = pc /\ inst'[i].v = inst[i].v /\ inst'[i].build = inst[i].build
      /\ \A j \in Instances : j # i => inst'[j] = inst[j]
      BY GotoFrame
<1>1. TypeOK'
      BY <1>0 DEF TypeOK
<1>2. SchemasAreInOrder'
      BY DEF SchemasAreInOrder
<1>3. PastIsRecorded'
      BY <1>0 DEF PastIsRecorded, Steps
<1>4. ServersAreUpToDate'
      BY <1>0 DEF ServersAreUpToDate, Instances, Steps
<1>5. LockExcludes'
  <2>1. SUFFICES ASSUME locked PROVE LockExcludes'
        BY DEF LockExcludes
  <2>2. holder' = {i} /\ \A j \in Instances \ {i} : inst[j].pc \notin Steps \ {"lock"}
        BY <2>1 DEF LockExcludes
  <2>  QED BY <1>0, <2>1, <2>2 DEF LockExcludes, Steps
<1>  QED BY <1>1, <1>2, <1>3, <1>4, <1>5

LEMMA AcquireKeepsInv ==
    ASSUME MigrationInv, NEW i \in Instances, AcquireMigrationLock(i)
    PROVE  MigrationInv'
<1>1. inst[i].v = 1
      BY DEF MigrationInv, PastIsRecorded, AcquireMigrationLock
<1>  QED BY <1>1, MoverKeepsInv DEF AcquireMigrationLock, Steps

\* In Migrate, under the lock, one has it.
LEMMA MigratingHolds ==
    ASSUME MigrationInv, NEW i \in Instances, inst[i].pc \in Steps \ {"lock"}, locked
    PROVE  /\ holder = {i}
           /\ \A j \in Instances \ {i} : inst[j].pc \notin Steps \ {"lock"}
BY DEF MigrationInv, LockExcludes

LEMMA CreateKeepsInv ==
    ASSUME MigrationInv, NEW i \in Instances, CreateMigrationsTable(i)
    PROVE  MigrationInv'
<1>1. inst[i].v = 1 /\ inst[i].pc = "meta"
      BY DEF MigrationInv, PastIsRecorded, CreateMigrationsTable
<1>2. locked => holder = {i}
      BY <1>1, MigratingHolds DEF Steps
<1>3. 1..inst[i].v - 1 = {}
      BY <1>1
<1>  QED BY <1>1, <1>2, <1>3, MoverKeepsInv DEF CreateMigrationsTable, Steps

LEMMA FinishCreateKeepsInv ==
    ASSUME MigrationInv, NEW i \in Instances, FinishCreate(i)
    PROVE  MigrationInv'
<1>1. inst[i].v = 1 /\ inst[i].pc = "creating"
      BY DEF MigrationInv, PastIsRecorded, FinishCreate
<1>2. locked => ~meta
      BY <1>1 DEF MigrationInv, LockExcludes
<1>3. CASE meta
      BY <1>2, <1>3, ClashKeepsInv DEF FinishCreate, db
<1>4. CASE ~meta
  <2> USE DEF MigrationInv
  <2>1. Goto(i, "check") /\ meta' /\ UNCHANGED <<recorded, applied, ops, holder, faults, clashed>>
        BY <1>4 DEF FinishCreate
  <2>2. /\ inst' \in [Instances -> Programs]
        /\ inst'[i].pc = "check" /\ inst'[i].v = 1
        /\ \A j \in Instances : j # i => inst'[j] = inst[j]
        BY <2>1, <1>1, GotoFrame DEF Steps
  <2>3. TypeOK'
        BY <2>1, <2>2 DEF TypeOK, FinishCreate, ops
  <2>4. SchemasAreInOrder'
        BY <2>1 DEF SchemasAreInOrder, ops
  <2>5. PastIsRecorded'
    <3>1. 1..1 - 1 = {}
          OBVIOUS
    <3>  QED BY <2>1, <2>2, <3>1 DEF PastIsRecorded
  <2>6. ServersAreUpToDate'
        BY <2>1, <2>2 DEF ServersAreUpToDate, Instances, ops
  <2>7. LockExcludes'
    <3>1. SUFFICES ASSUME locked PROVE LockExcludes'
          BY <2>1 DEF LockExcludes, ops
    <3>2. holder = {i} /\ \A j \in Instances \ {i} : inst[j].pc \notin Steps \ {"lock"}
          BY <3>1, <1>1, MigratingHolds DEF Steps
    <3>  QED BY <2>1, <2>2, <3>1, <3>2 DEF LockExcludes, Steps, ops
  <2>  QED BY <2>3, <2>4, <2>5, <2>6, <2>7
<1>  QED BY <1>3, <1>4

\* What the loop of Migrate has come to.
LEMMA AtMigration ==
    ASSUME MigrationInv, NEW i \in Instances
    PROVE  inst[i].v \in 1..Last + 1 /\ inst[i].build \in 1..Last
BY DEF MigrationInv, TypeOK, Programs, Versions

LEMMA FinishedKeepsInv ==
    ASSUME MigrationInv, NEW i \in Instances, Check(i), inst[i].v > inst[i].build
    PROVE  MigrationInv'
<1> USE DEF MigrationInv
<1>0. PICK pc \in {"serve", "off"} :
            Goto(i, pc) /\ holder' = holder \ {i} /\ (pc = "serve" => ~locked)
      BY DEF Check, Release
<1>1. inst[i].pc = "check" /\ UNCHANGED <<meta, recorded, applied, ops, faults, clashed>>
      BY DEF Check, db
<1>2. /\ inst' \in [Instances -> Programs]
      /\ inst'[i].pc = pc /\ inst'[i].v = inst[i].v /\ inst'[i].build = inst[i].build
      /\ \A j \in Instances : j # i => inst'[j] = inst[j]
      BY <1>0, GotoFrame
<1>3. TypeOK'
      BY <1>0, <1>1, <1>2, HolderReleased DEF TypeOK, ops
<1>4. SchemasAreInOrder'
      BY <1>1 DEF SchemasAreInOrder, ops
<1>5. PastIsRecorded'
      BY <1>0, <1>1, <1>2 DEF PastIsRecorded
<1>6. ServersAreUpToDate'
  <2>1. 1..inst[i].v - 1 \subseteq recorded
        BY <1>1 DEF PastIsRecorded
  <2>2. 1..inst[i].build \subseteq 1..inst[i].v - 1
        BY AtMigration, MigrationsAssumption
  <2>  QED BY <1>1, <1>2, <2>1, <2>2 DEF ServersAreUpToDate, Instances, ops
<1>7. LockExcludes'
  <2>1. SUFFICES ASSUME locked PROVE LockExcludes'
        BY <1>1 DEF LockExcludes, ops
  <2>2. \A j \in Instances \ {i} : inst[j].pc \notin Steps \ {"lock"}
        BY <2>1, <1>1, MigratingHolds DEF Steps
  <2>  QED BY <1>0, <1>1, <1>2, <2>1, <2>2 DEF LockExcludes, Steps, ops
<1>  QED BY <1>3, <1>4, <1>5, <1>6, <1>7

LEMMA SkipKeepsInv ==
    ASSUME MigrationInv, NEW i \in Instances, Check(i), ~(inst[i].v > inst[i].build),
           inst[i].v \in recorded
    PROVE  MigrationInv'
<1> USE DEF MigrationInv
<1>0. inst' = [inst EXCEPT ![i].v = inst[i].v + 1] /\ inst[i].pc = "check"
      BY DEF Check
<1>1. UNCHANGED <<meta, recorded, applied, holder, ops, faults, clashed>>
      BY DEF Check, db
<1>2. inst[i].v + 1 \in 1..Last + 1 /\ inst[i] \in Programs
      BY AtMigration, MigrationsAssumption DEF TypeOK
<1>3. /\ inst' \in [Instances -> Programs]
      /\ inst'[i].pc = "check" /\ inst'[i].v = inst[i].v + 1
      /\ \A j \in Instances : j # i => inst'[j] = inst[j]
      BY <1>0, <1>2 DEF TypeOK, Programs
<1>4. TypeOK'
      BY <1>1, <1>3 DEF TypeOK, ops
<1>5. SchemasAreInOrder'
      BY <1>1 DEF SchemasAreInOrder, ops
<1>6. 1..inst'[i].v - 1 \subseteq recorded
  <2>1. 1..inst[i].v - 1 \subseteq recorded
        BY <1>0 DEF PastIsRecorded
  <2>2. 1..inst[i].v \subseteq (1..inst[i].v - 1) \cup {inst[i].v}
        BY AtMigration, MigrationsAssumption
  <2>3. inst'[i].v - 1 = inst[i].v
        BY <1>3, AtMigration, MigrationsAssumption
  <2>  QED BY <2>1, <2>2, <2>3
<1>7. PastIsRecorded'
      BY <1>0, <1>1, <1>3, <1>6 DEF PastIsRecorded
<1>8. ServersAreUpToDate'
      BY <1>1, <1>3 DEF ServersAreUpToDate, Instances, ops
<1>9. LockExcludes'
      BY <1>0, <1>1, <1>3 DEF LockExcludes, Steps, ops
<1>  QED BY <1>4, <1>5, <1>7, <1>8, <1>9

LEMMA CheckKeepsInv ==
    ASSUME MigrationInv, NEW i \in Instances, Check(i)
    PROVE  MigrationInv'
<1>1. CASE inst[i].v > inst[i].build
      BY <1>1, FinishedKeepsInv
<1>2. CASE ~(inst[i].v > inst[i].build) /\ inst[i].v \in recorded
      BY <1>2, SkipKeepsInv
<1>3. CASE ~(inst[i].v > inst[i].build) /\ inst[i].v \notin recorded
  <2>1. inst[i].pc = "check" /\ Goto(i, "sql") /\ holder' = holder
        BY <1>3 DEF Check, Goto
  <2>2. locked => holder = {i}
        BY <2>1, MigratingHolds DEF Steps
  <2>3. inst[i].v <= inst[i].build
        BY <1>3, AtMigration, MigrationsAssumption
  <2>4. meta /\ 1..inst[i].v - 1 \subseteq recorded
        BY <2>1 DEF MigrationInv, PastIsRecorded
  <2>  QED BY <1>3, <2>1, <2>2, <2>3, <2>4, MoverKeepsInv DEF Check, Steps
<1>  QED BY <1>1, <1>2, <1>3

\* A migration that the lock protects applies: all before it are there, and it is not.
LEMMA ApplyKeepsInv ==
    ASSUME MigrationInv, NEW i \in Instances, ApplySQL(i)
    PROVE  MigrationInv'
<1>1. inst[i].pc = "sql"
      BY DEF ApplySQL
<1>2. /\ meta /\ 1..inst[i].v - 1 \subseteq recorded /\ inst[i].v <= inst[i].build
      /\ locked => inst[i].v \notin recorded
      BY <1>1 DEF MigrationInv, PastIsRecorded, LockExcludes
<1>3. CASE Fails(inst[i].v)
  <2>1. ~locked
    <3>1. SUFFICES ASSUME locked PROVE FALSE
          OBVIOUS
    <3>2. applied = recorded /\ inst[i].v \notin applied
          BY <1>2, <3>1 DEF MigrationInv, SchemasAreInOrder
    <3>3. CASE inst[i].v = 1
          BY <1>3, <3>2, <3>3 DEF Fails
    <3>4. CASE inst[i].v # 1
      <4>1. 1 \in 1..inst[i].v - 1
            BY <3>4, AtMigration, MigrationsAssumption
      <4>  QED BY <1>2, <1>3, <3>2, <3>4, <4>1 DEF Fails
    <3>  QED BY <3>3, <3>4
  <2>  QED BY <1>3, <2>1, ClashKeepsInv DEF ApplySQL
<1>4. CASE ~Fails(inst[i].v)
  <2>1. Goto(i, "record") /\ holder' = holder /\ UNCHANGED <<db, ops, faults, clashed>>
        BY <1>4 DEF ApplySQL
  <2>2. locked => holder = {i}
        BY <1>1, MigratingHolds DEF Steps
  <2>  QED BY <1>2, <2>1, <2>2, MoverKeepsInv DEF Steps
<1>  QED BY <1>3, <1>4

LEMMA InsertKeepsInv ==
    ASSUME MigrationInv, NEW i \in Instances, InsertVersion(i)
    PROVE  MigrationInv'
<1>1. inst[i].pc = "record"
      BY DEF InsertVersion
<1>2. /\ meta /\ 1..inst[i].v - 1 \subseteq recorded /\ inst[i].v <= inst[i].build
      /\ locked => inst[i].v \notin recorded
      BY <1>1 DEF MigrationInv, PastIsRecorded, LockExcludes
<1>3. CASE inst[i].v \in recorded
      BY <1>2, <1>3, ClashKeepsInv DEF InsertVersion
<1>4. CASE inst[i].v \notin recorded
  <2>1. Goto(i, "commit") /\ holder' = holder /\ UNCHANGED <<db, ops, faults, clashed>>
        BY <1>4 DEF InsertVersion
  <2>2. locked => holder = {i}
        BY <1>1, MigratingHolds DEF Steps
  <2>  QED BY <1>2, <2>1, <2>2, MoverKeepsInv DEF Steps
<1>  QED BY <1>3, <1>4

\* A commit extends the schema by the next migration, or by one it has.
LEMMA CommittedExtends ==
    ASSUME MigrationInv, NEW i \in Instances, inst[i].pc = "commit", Committed(inst[i].v)
    PROVE  /\ meta' /\ applied' = recorded' /\ recorded' = recorded \cup {inst[i].v}
           /\ \E k \in 0..Last : recorded' = 1..k
           /\ recorded' \subseteq Versions
           /\ 1..inst[i].v \subseteq recorded'
           /\ inst[i].v \in 1..Last
<1>1. PICK k \in 0..Last : recorded = 1..k
      BY DEF MigrationInv, SchemasAreInOrder
<1>2. meta /\ 1..inst[i].v - 1 \subseteq recorded /\ inst[i].v <= inst[i].build
      BY DEF MigrationInv, PastIsRecorded
<1>3. inst[i].v \in 1..Last
      BY <1>2, AtMigration, MigrationsAssumption
<1>4. meta' /\ applied' = recorded' /\ recorded' = recorded \cup {inst[i].v}
      BY <1>2 DEF Committed, MigrationInv, SchemasAreInOrder
<1>5. PICK m \in 0..Last : (1..k) \cup {inst[i].v} = 1..m
      BY <1>1, <1>2, <1>3, SchemaGrows
<1>6. \E n \in 0..Last : recorded' = 1..n
      BY <1>1, <1>4, <1>5
<1>7. recorded' \subseteq Versions
      BY <1>3, <1>4 DEF MigrationInv, TypeOK, Versions
<1>8. 1..inst[i].v \subseteq (1..inst[i].v - 1) \cup {inst[i].v}
      BY <1>3
<1>  QED BY <1>2, <1>3, <1>4, <1>6, <1>7, <1>8

\* Whether the instance learns of its commit or not.
LEMMA CommitterKeepsInv ==
    ASSUME MigrationInv, NEW i \in Instances, inst[i].pc = "commit", Committed(inst[i].v),
           inst' \in [Instances -> Programs],
           \/ inst'[i].pc = "check" /\ inst'[i].v = inst[i].v + 1 /\ holder' = holder
           \/ inst'[i].pc \in {"down", "failed"} /\ holder' = holder \ {i},
           \A j \in Instances : j # i => inst'[j] = inst[j],
           UNCHANGED <<ops, clashed>>, faults' \in 0..MaxFaults
    PROVE  MigrationInv'
<1> USE DEF MigrationInv
<1>1. /\ meta' /\ applied' = recorded' /\ recorded' = recorded \cup {inst[i].v}
      /\ \E k \in 0..Last : recorded' = 1..k
      /\ recorded' \subseteq Versions
      /\ 1..inst[i].v \subseteq recorded'
      /\ inst[i].v \in 1..Last
      BY CommittedExtends
<1>2. TypeOK'
  <2>1. holder' \in {{}} \cup {{j} : j \in Instances}
        BY HolderReleased DEF TypeOK
  <2>  QED BY <1>1, <2>1 DEF TypeOK, ops, Committed
<1>3. SchemasAreInOrder'
      BY <1>1 DEF SchemasAreInOrder, ops
<1>4. PastIsRecorded'
  <2>1. inst'[i].pc = "check" => 1..inst'[i].v - 1 \subseteq recorded'
    <3>1. inst'[i].pc = "check" => inst'[i].v - 1 = inst[i].v
          BY <1>1
    <3>  QED BY <1>1, <3>1
  <2>  QED BY <1>1, <2>1 DEF PastIsRecorded
<1>5. ServersAreUpToDate'
      BY <1>1 DEF ServersAreUpToDate, Instances, ops
<1>6. LockExcludes'
  <2>1. SUFFICES ASSUME locked PROVE LockExcludes'
        BY DEF LockExcludes, ops
  <2>2. holder = {i} /\ \A j \in Instances \ {i} : inst[j].pc \notin Steps \ {"lock"}
        BY <2>1, MigratingHolds DEF Steps
  <2>  QED BY <2>1, <2>2 DEF LockExcludes, Steps, ops
<1>  QED BY <1>2, <1>3, <1>4, <1>5, <1>6

LEMMA CommitKeepsInv ==
    ASSUME MigrationInv, NEW i \in Instances, Commit(i)
    PROVE  MigrationInv'
<1>1. inst[i].pc = "commit" /\ Committed(inst[i].v) /\ UNCHANGED <<holder, ops, faults, clashed>>
      BY DEF Commit
<1>2. inst[i].v + 1 \in 1..Last + 1 /\ inst[i] \in Programs
      BY <1>1, CommittedExtends, MigrationsAssumption DEF MigrationInv, TypeOK
<1>3. /\ inst' \in [Instances -> Programs]
      /\ inst'[i].pc = "check" /\ inst'[i].v = inst[i].v + 1
      /\ \A j \in Instances : j # i => inst'[j] = inst[j]
      BY <1>2 DEF Commit, MigrationInv, TypeOK, Programs, Steps
<1>  QED BY <1>1, <1>3, CommitterKeepsInv DEF MigrationInv, TypeOK

LEMMA CommitUnknownKeepsInv ==
    ASSUME MigrationInv, NEW i \in Instances, CommitUnknown(i)
    PROVE  MigrationInv'
<1>1. inst[i].pc = "commit" /\ Committed(inst[i].v) /\ UNCHANGED <<ops, clashed>> /\ Exit(i)
      BY DEF CommitUnknown
<1>2. faults' \in 0..MaxFaults
      BY OneMoreFault DEF MigrationInv, TypeOK, CommitUnknown
<1>  QED BY <1>1, <1>2, ExitFrame, CommitterKeepsInv DEF MigrationInv

-----------------------------------------------------------------------------
(* backup.sh and restore.sh *)

LEMMA DumpKeepsInv ==
    ASSUME MigrationInv, Dump
    PROVE  MigrationInv'
<1> USE DEF MigrationInv
<1>0. PICK k \in 0..Last : recorded = 1..k
      BY DEF SchemasAreInOrder
<1>1. Cardinality(recorded) = k
      BY <1>0, SchemaSize, MigrationsAssumption
<1>2. dump' = [meta |-> meta, upto |-> k, taken |-> TRUE] /\ ~locked
      BY <1>1 DEF Dump
<1>3. k > 0 => meta
  <2>1. k > 0 => 1 \in recorded
        BY <1>0
  <2>  QED BY <2>1 DEF SchemasAreInOrder
<1>4. UNCHANGED <<meta, recorded, applied, inst, holder, locked, script, restores, replaced,
                  faults, clashed>>
      BY DEF Dump, db
<1>5. TypeOK'
      BY <1>2, <1>4 DEF TypeOK
<1>6. SchemasAreInOrder'
      BY <1>2, <1>3, <1>4 DEF SchemasAreInOrder
<1>7. PastIsRecorded' /\ ServersAreUpToDate'
      BY <1>4 DEF PastIsRecorded, ServersAreUpToDate
<1>8. LockExcludes'
      BY <1>2, <1>4 DEF LockExcludes
<1>  QED BY <1>5, <1>6, <1>7, <1>8

LEMMA StopPanelsKeepsInv ==
    ASSUME MigrationInv, StopPanels
    PROVE  MigrationInv'
<1> USE DEF MigrationInv
<1>0. PICK S \in SUBSET {i \in Panels : inst[i].pc # "off"} :
          /\ inst' = [i \in Instances |->
                        IF i \in Panels \ S THEN [inst[i] EXCEPT !.pc = "off"] ELSE inst[i]]
          /\ holder' = holder \ (Panels \ S)
      BY DEF StopPanels
<1>1. ~locked /\ script' = "drop" /\ restores' \in 0..MaxRestores
      BY MigrationsAssumption DEF StopPanels, LockExcludes, TypeOK
<1>2. UNCHANGED <<meta, recorded, applied, locked, dump, replaced, faults, clashed>>
      BY DEF StopPanels, db
<1>3. /\ inst' \in [Instances -> Programs]
      /\ \A i \in Instances : inst'[i] = inst[i]
                              \/ (inst'[i].pc = "off" /\ inst'[i].build = inst[i].build)
      BY <1>0 DEF TypeOK, Programs
<1>4. TypeOK'
  <2>1. holder' \in {{}} \cup {{i} : i \in Instances}
        BY <1>0 DEF TypeOK
  <2>  QED BY <1>1, <1>2, <1>3, <2>1 DEF TypeOK
<1>5. SchemasAreInOrder'
      BY <1>2 DEF SchemasAreInOrder
<1>6. PastIsRecorded'
      BY <1>2, <1>3 DEF PastIsRecorded
<1>7. ServersAreUpToDate'
      BY <1>2, <1>3 DEF ServersAreUpToDate, Instances
<1>8. LockExcludes'
      BY <1>1, <1>2 DEF LockExcludes
<1>  QED BY <1>4, <1>5, <1>6, <1>7, <1>8

\* Nobody is left in Migrate, and who serves is under a database that has been replaced.
LEMMA DropKeepsInv ==
    ASSUME MigrationInv, DropDatabase
    PROVE  MigrationInv'
<1> USE DEF MigrationInv
<1>1. ~locked /\ script' = "load"
      BY DEF DropDatabase, LockExcludes
<1>2. ~meta' /\ recorded' = {} /\ applied' = {}
      BY DEF DropDatabase
<1>3. UNCHANGED <<holder, locked, dump, restores, faults, clashed>>
      BY DEF DropDatabase
<1>4. replaced' = replaced \cup {i \in Panels : inst[i].pc = "serve"}
      BY DEF DropDatabase
<1>5. /\ inst' \in [Instances -> Programs]
      /\ \A i \in Instances : inst'[i].pc \notin Steps
      /\ \A i \in Instances : inst'[i].pc = "serve" => inst[i].pc = "serve"
      BY DEF DropDatabase, TypeOK, Programs, Running, Steps
<1>6. TypeOK'
      BY <1>1, <1>2, <1>3, <1>4, <1>5 DEF TypeOK, DropDatabase
<1>7. SchemasAreInOrder'
  <2>1. recorded' = 1..0 /\ 0 \in 0..Last
        BY <1>2, MigrationsAssumption
  <2>  QED BY <1>2, <1>3, <2>1 DEF SchemasAreInOrder
<1>8. PastIsRecorded'
      BY <1>5 DEF PastIsRecorded, Steps
<1>9. ServersAreUpToDate'
      BY <1>4, <1>5 DEF ServersAreUpToDate, Instances
<1>10. LockExcludes'
      BY <1>1, <1>3 DEF LockExcludes
<1>  QED BY <1>6, <1>7, <1>8, <1>9, <1>10

\* The archive is loaded into an empty database, on which nobody relies.
LEMMA LoadKeepsInv ==
    ASSUME MigrationInv, LoadDump
    PROVE  MigrationInv'
<1> USE DEF MigrationInv
<1>1. ~locked /\ script' = "migrate" /\ ~meta
      BY DEF LoadDump, LockExcludes
<1>2. meta' = dump.meta /\ recorded' = 1..dump.upto /\ applied' = recorded'
      BY DEF LoadDump
<1>3. UNCHANGED <<inst, holder, locked, dump, restores, replaced, faults, clashed>>
      BY DEF LoadDump
<1>4. dump.upto \in 0..Last /\ dump.meta \in BOOLEAN
      BY DEF TypeOK
<1>5. recorded = {}
      BY <1>1 DEF SchemasAreInOrder
<1>6. TypeOK'
  <2>1. recorded' \subseteq Versions
        BY <1>2, <1>4, MigrationsAssumption DEF Versions
  <2>  QED BY <1>1, <1>2, <1>3, <1>4, <2>1 DEF TypeOK
<1>7. SchemasAreInOrder'
  <2>1. dump.upto = 0 => recorded' = {}
        BY <1>2
  <2>2. dump.upto > 0 => meta'
        BY <1>2 DEF SchemasAreInOrder
  <2>3. dump.upto = 0 \/ dump.upto > 0
        BY <1>4, MigrationsAssumption
  <2>4. recorded' # {} => meta'
        BY <2>1, <2>2, <2>3
  <2>5. dump.upto > 0 => dump.meta
        BY DEF SchemasAreInOrder
  <2>  QED BY <1>2, <1>3, <1>4, <2>4, <2>5 DEF SchemasAreInOrder
<1>8. PastIsRecorded'
      BY <1>1, <1>3 DEF PastIsRecorded
<1>9. ServersAreUpToDate'
  <2>1. \A i \in Panels \ replaced : inst[i].pc # "serve"
    <3>1. SUFFICES ASSUME NEW i \in Panels \ replaced, inst[i].pc = "serve" PROVE FALSE
          OBVIOUS
    <3>2. i \in Instances
          BY DEF Instances
    <3>3. 1 \in 1..inst[i].build
          BY <3>2, AtMigration, MigrationsAssumption
    <3>  QED BY <1>5, <3>1, <3>3 DEF ServersAreUpToDate
  <2>  QED BY <1>3, <2>1 DEF ServersAreUpToDate
<1>10. LockExcludes'
      BY <1>1, <1>3 DEF LockExcludes
<1>  QED BY <1>6, <1>7, <1>8, <1>9, <1>10

LEMMA DieKeepsInv ==
    ASSUME MigrationInv, Die
    PROVE  MigrationInv'
<1> USE DEF MigrationInv
<1>1. ~locked /\ script' = "idle"
      BY DEF Die, LockExcludes
<1>2. UNCHANGED <<meta, recorded, applied, inst, holder, locked, dump, restores, replaced,
                  faults, clashed>>
      BY DEF Die, db
<1>3. TypeOK'
      BY <1>1, <1>2 DEF TypeOK
<1>4. SchemasAreInOrder' /\ PastIsRecorded' /\ ServersAreUpToDate'
      BY <1>2 DEF SchemasAreInOrder, PastIsRecorded, ServersAreUpToDate
<1>5. LockExcludes'
      BY <1>1, <1>2 DEF LockExcludes
<1>  QED BY <1>3, <1>4, <1>5

LEMMA StartPanelsKeepsInv ==
    ASSUME MigrationInv, StartPanels
    PROVE  MigrationInv'
<1> USE DEF MigrationInv
<1>1. ~locked /\ script' = "idle"
      BY DEF StartPanels, LockExcludes
<1>2. UNCHANGED <<meta, recorded, applied, holder, locked, dump, restores, replaced, faults, clashed>>
      BY DEF StartPanels, db
<1>3. /\ inst' \in [Instances -> Programs]
      /\ \A i \in Instances : inst'[i] = inst[i]
                              \/ (inst'[i].pc = "down" /\ inst'[i].build = inst[i].build)
      BY DEF StartPanels, TypeOK, Programs
<1>4. TypeOK'
      BY <1>1, <1>2, <1>3 DEF TypeOK
<1>5. SchemasAreInOrder'
      BY <1>2 DEF SchemasAreInOrder
<1>6. PastIsRecorded'
      BY <1>2, <1>3 DEF PastIsRecorded
<1>7. ServersAreUpToDate'
      BY <1>2, <1>3 DEF ServersAreUpToDate, Instances
<1>8. LockExcludes'
      BY <1>1, <1>2 DEF LockExcludes
<1>  QED BY <1>4, <1>5, <1>6, <1>7, <1>8

-----------------------------------------------------------------------------
(* The theorems *)

LEMMA MigrateKeepsInv ==
    ASSUME MigrationInv, NEW i \in Instances, Migrate(i)
    PROVE  MigrationInv'
BY AcquireKeepsInv, CreateKeepsInv, FinishCreateKeepsInv, CheckKeepsInv, ApplyKeepsInv,
   InsertKeepsInv, CommitKeepsInv
   DEF Migrate

LEMMA MaintenanceKeepsInv ==
    ASSUME MigrationInv, Maintenance
    PROVE  MigrationInv'
BY DumpKeepsInv, StopPanelsKeepsInv, DropKeepsInv, LoadKeepsInv, DieKeepsInv,
   StartPanelsKeepsInv, RunMigrateUpKeepsInv
   DEF Maintenance

LEMMA StepKeepsInv == MigrationInv /\ [Next]_vars => MigrationInv'
<1> SUFFICES ASSUME MigrationInv, [Next]_vars PROVE MigrationInv'
    OBVIOUS
<1>1. ASSUME NEW i \in Instances,
             Restart(i) \/ Start(i) \/ Update(i) \/ Fault(i) \/ Migrate(i) \/ CommitUnknown(i)
      PROVE  MigrationInv'
      BY <1>1, RestartKeepsInv, StartKeepsInv, UpdateKeepsInv, FaultKeepsInv, MigrateKeepsInv,
         CommitUnknownKeepsInv
<1>2. CASE Maintenance
      BY <1>2, MaintenanceKeepsInv
<1>3. CASE UNCHANGED vars
      BY <1>3 DEF vars, db, ops, MigrationInv, TypeOK, SchemasAreInOrder, PastIsRecorded,
                  ServersAreUpToDate, LockExcludes
<1>  QED BY <1>1, <1>2, <1>3 DEF Next

\* The inductive invariant holds however panels, jobs, faults and restores interleave.
\* (Migrate in internal/db/db.go)
THEOREM MigrationInvariantHolds == Spec => []MigrationInv
BY InitInv, StepKeepsInv, PTL DEF Spec

\* Every variable keeps its type, the archive and the lock's holder included.
THEOREM MigrationTypeCorrect == Spec => []TypeOK
<1>1. MigrationInv => TypeOK
      BY DEF MigrationInv
<1>  QED BY <1>1, MigrationInvariantHolds, PTL

\* What schema_migrations says is what the schema shows, without gaps, and panels that
\* serve have all columns they know. (the transaction in Migrate, the order of main)
THEOREM SchemaIsAsRecorded == Spec => []SchemaAsRecorded
<1>1. MigrationInv => SchemaAsRecorded
  <2>1. SUFFICES ASSUME MigrationInv PROVE SchemaAsRecorded
        OBVIOUS
  <2>2. PICK k \in 0..Last : recorded = 1..k
        BY <2>1 DEF MigrationInv, SchemasAreInOrder
  <2>3. Cardinality(recorded) = k
        BY <2>2, SchemaSize, MigrationsAssumption
  <2>4. recorded = 1..Cardinality(recorded)
        BY <2>2, <2>3
  <2>  QED BY <2>1, <2>4 DEF MigrationInv, SchemasAreInOrder, ServersAreUpToDate, SchemaAsRecorded
<1>  QED BY <1>1, MigrationInvariantHolds, PTL

\* Under the advisory lock nobody fails because of another instance. (OpenIntegrationTestDB)
THEOREM LockKeepsClashesAway == Spec => []LockPreventsClashes
<1>1. MigrationInv => LockPreventsClashes
      BY DEF MigrationInv, LockExcludes, LockPreventsClashes
<1>  QED BY <1>1, MigrationInvariantHolds, PTL
=============================================================================
