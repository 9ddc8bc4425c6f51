-------------------------- MODULE MigrationProofs --------------------------
(***************************************************************************)
(* Proofs about Migration for every range of schemas, every number of      *)
(* clients and every bound.                                                *)
(***************************************************************************)
EXTENDS Migration, TLAPS

LEMMA InitType == Init => TypeOK
BY MigrationAssumption
   DEF Init, TypeOK, ConfigType, JournalType, BackupType, NoBackup, Schemas, Marker, Phases,
       QueueSchema, Hundred

\* What a step writes into a journal or a backup is of its type.
LEMMA PutType ==
  ASSUME TypeOK, NEW s \in Schemas
  PROVE  /\ \A p \in {"none", "backed_up", "blocked_active", "complete"} :
              [journal EXCEPT ![s].phase = p] \in [Schemas -> JournalType]
         /\ [journal EXCEPT ![s] = [phase |-> "backed_up", original |-> config]]
              \in [Schemas -> JournalType]
         /\ [backup EXCEPT ![s] = [version |-> database.version, work |-> database.work]]
              \in [Schemas -> BackupType]
         /\ [backup EXCEPT ![s] = NoBackup] \in [Schemas -> BackupType]
BY MigrationAssumption DEF TypeOK, JournalType, BackupType, NoBackup

LEMMA SchemaType ==
  ASSUME NEW k \in ConfigType, NEW s \in Schemas \union {Marker}
  PROVE  [k EXCEPT !.schema = s] \in ConfigType
BY DEF ConfigType

LEMMA NextSchema ==
  ASSUME NEW s \in Schemas, s < VERSION
  PROVE  s + 1 \in Schemas
BY MigrationAssumption DEF Schemas

\* A transaction writes tables of their type.
LEMMA DatabaseType ==
  ASSUME TypeOK, NEW b \in BOOLEAN
  PROVE  /\ [database EXCEPT !.active = b] \in
              [version : Schemas, work : 0..MaxWork, active : BOOLEAN]
         /\ database.work < MaxWork =>
              [database EXCEPT !.work = @ + 1, !.active = b] \in
                [version : Schemas, work : 0..MaxWork, active : BOOLEAN]
<1>1. database.work \in 0..MaxWork /\ database.version \in Schemas
  BY DEF TypeOK
<1>2. database.work < MaxWork => database.work + 1 \in 0..MaxWork
  BY <1>1, MigrationAssumption
<1> QED BY <1>1, <1>2 DEF TypeOK

\* A step of migrate keeps the types; that it stays below VERSION is known
\* from the invariant.
LEMMA MigrateType ==
  ASSUME TypeOK, StepInvariant, Migrate
  PROVE  TypeOK'
<1> USE DEF TypeOK, Step, users, store, migrator, Phases
<1>1. CASE CompletePrevious
  <2>1. config.schema - 1 \in Schemas
    BY <1>1, MigrationAssumption DEF CompletePrevious, JournalOpen, Schemas
  <2> QED BY <1>1, <2>1, PutType DEF CompletePrevious
<1>2. CASE MigrateReturns \/ MigrateRefuses
  BY <1>2 DEF MigrateReturns, MigrateRefuses
<1>3. CASE StepStarts
  <2>1. config.schema \in Schemas
    BY <1>3 DEF StepStarts, MayStart, ConfigType
  <2> QED BY <1>3, <2>1 DEF StepStarts
<1>4. ASSUME NEW s \in Schemas, StepResumes(s) PROVE TypeOK'
  BY <1>4 DEF StepResumes
<1>5. CASE CopyBackup
  BY <1>5, PutType DEF CopyBackup
<1>6. CASE WriteJournal
  BY <1>6, PutType DEF WriteJournal
<1>7. CASE WriteMarker
  BY <1>7, SchemaType DEF WriteMarker
<1>8. CASE UpgradeDatabase
  <2>1. source + 1 \in Schemas
    BY <1>8, NextSchema DEF UpgradeDatabase, StepInvariant
  <2> QED BY <1>8, <2>1 DEF UpgradeDatabase
<1>9. CASE BlockedRestores
  BY <1>9 DEF BlockedRestores, JournalType
<1>10. CASE BlockedRecords
  BY <1>10, PutType DEF BlockedRecords
<1>11. CASE WriteConfig
  <2>1. source + 1 \in Schemas
    BY <1>11, NextSchema DEF WriteConfig, StepInvariant
  <2>2. journal[source].original \in ConfigType
    BY DEF JournalType
  <2>3. Hundred \in 0..MaxLimit
    BY MigrationAssumption DEF Hundred
  <2>4. PICK q \in 0..MaxLimit :
          config' = [journal[source].original EXCEPT !.schema = source + 1, !.queued = q]
    <3>1. journal[source].original.queued \in 0..MaxLimit
      BY <2>2 DEF ConfigType
    <3>2. CASE source + 1 = QueueSchema
      BY <1>11, <2>3, <3>2 DEF WriteConfig
    <3>3. CASE source + 1 # QueueSchema
      BY <1>11, <3>1, <3>3 DEF WriteConfig
    <3> QED BY <3>2, <3>3
  <2>5. config' \in ConfigType
    BY <2>1, <2>2, <2>4 DEF ConfigType
  <2> QED BY <1>11, <2>5 DEF WriteConfig
<1>12. CASE CompleteJournal
  BY <1>12, PutType DEF CompleteJournal
<1> QED
  BY <1>1, <1>2, <1>3, <1>4, <1>5, <1>6, <1>7, <1>8, <1>9, <1>10, <1>11, <1>12 DEF Migrate

\* So do the clients and the rest of the world.
LEMMA ClientType ==
  ASSUME TypeOK, NEW c \in Clients, Client(c)
  PROVE  TypeOK'
<1> USE MigrationAssumption DEF TypeOK, store, migrator, users
<1>1. CASE ReadConfig(c)
  BY <1>1 DEF ReadConfig
<1>2. CASE SeedLauncher(c)
  <2>1. [config EXCEPT !.launcher = TRUE] \in ConfigType
    BY DEF ConfigType
  <2>2. config' \in ConfigType
    BY <1>2, <2>1 DEF SeedLauncher
  <2>3. seen' \in [Clients -> ConfigType]
    BY <1>2, <2>2 DEF SeedLauncher
  <2> QED BY <1>2, <2>2, <2>3 DEF SeedLauncher
<1>3. CASE RecoverBinary(c)
  BY <1>3 DEF RecoverBinary, ConfigType
<1>4. CASE Open(c)
  BY <1>4 DEF Open
<1>5. CASE Close(c)
  BY <1>5 DEF Close
<1>6. ASSUME NEW active \in BOOLEAN, Write(c, active) PROVE TypeOK'
  BY <1>6, DatabaseType DEF Write
<1>7. ASSUME NEW n \in 1..MaxLimit, NEW q \in 0..MaxLimit, ConfigureLimits(c, n, q) PROVE TypeOK'
  BY <1>7 DEF ConfigureLimits, ConfigType
<1> QED BY <1>1, <1>2, <1>3, <1>4, <1>5, <1>6, <1>7 DEF Client

LEMMA NextType == TypeOK /\ StepInvariant /\ [Next]_vars => TypeOK'
<1> SUFFICES ASSUME TypeOK, StepInvariant, [Next]_vars PROVE TypeOK'
  OBVIOUS
<1> USE MigrationAssumption DEF store, migrator, users
<1>1. ASSUME NEW t \in Schemas \ {First}, MigrateStarts(t) PROVE TypeOK'
  BY <1>1 DEF TypeOK, MigrateStarts, Step, Phases
<1>2. CASE Migrate
  BY <1>2, MigrateType
<1>3. CASE Interrupted
  <2>1. backup' \in [Schemas -> BackupType]
    <3>1. source \in Schemas /\ backup \in [Schemas -> BackupType]
      BY DEF TypeOK
    <3>2. [backup EXCEPT ![source] = NoBackup] \in [Schemas -> BackupType]
      BY <3>1, PutType
    <3> QED BY <1>3, <3>1, <3>2 DEF Interrupted
  <2>2. interrupts' \in 0..MaxInterrupts
    BY <1>3 DEF TypeOK, Interrupted
  <2> QED BY <1>3, <2>1, <2>2 DEF TypeOK, Interrupted, Phases
<1>4. ASSUME NEW c \in Clients, Client(c) PROVE TypeOK'
  BY <1>4, ClientType
<1>5. CASE RunsEnd \/ BinaryReplaced
  <2>1. database' \in [version : Schemas, work : 0..MaxWork, active : BOOLEAN]
    BY <1>5, DatabaseType DEF TypeOK, RunsEnd, BinaryReplaced
  <2>2. installed' \in 1..MaxBinary
    BY <1>5 DEF TypeOK, RunsEnd, BinaryReplaced
  <2> QED BY <1>5, <2>1, <2>2 DEF TypeOK, RunsEnd, BinaryReplaced
<1>6. ASSUME NEW active \in BOOLEAN, LegacyWrite(active) PROVE TypeOK'
  BY <1>6, DatabaseType DEF TypeOK, LegacyWrite
<1>7. CASE UNCHANGED vars
  BY <1>7 DEF TypeOK, vars
<1> QED BY <1>1, <1>2, <1>3, <1>4, <1>5, <1>6, <1>7 DEF Next

-----------------------------------------------------------------------------
(* The invariant of a step.                                                  *)

LEMMA InitStep == Init => StepInvariant
BY MigrationAssumption DEF Init, StepInvariant, VersionsAgree

\* Outside migrate nothing touches what it wrote, and config.json keeps its
\* schema.
LEMMA OutsideStep ==
  ASSUME TypeOK, StepInvariant,
         UNCHANGED <<source, journal>>, database'.version = database.version,
         \/ UNCHANGED <<phase, config>>
         \/ phase' = "idle" /\ config'.schema = config.schema
         \/ phase' = "loop" /\ UNCHANGED config
  PROVE  StepInvariant'
BY DEF StepInvariant, VersionsAgree

LEMMA MigrateStep ==
  ASSUME TypeOK, StepInvariant, Migrate
  PROVE  StepInvariant'
<1> USE MigrationAssumption DEF Step, users, store, migrator
<1>1. CASE CompletePrevious
  BY <1>1 DEF CompletePrevious, StepInvariant, VersionsAgree
<1>2. CASE MigrateReturns \/ MigrateRefuses
  BY <1>2, OutsideStep DEF MigrateReturns, MigrateRefuses
<1>3. CASE StepStarts
  <2>1. config.schema < VERSION
    BY <1>3 DEF StepStarts, MayStart, TypeOK, Schemas, ConfigType
  <2> QED BY <1>3, <2>1 DEF StepStarts, StepInvariant, VersionsAgree
<1>4. ASSUME NEW s \in Schemas, StepResumes(s) PROVE StepInvariant'
  <2>1. s < VERSION
    BY <1>4 DEF StepResumes, MayResume, TypeOK, Schemas
  <2>2. /\ journal[s].original.schema = s
        /\ [journal[s].original EXCEPT !.schema = Marker] = config
    <3>1. s \in Candidates
      BY <1>4 DEF StepResumes, MayResume
    <3> QED BY <3>1 DEF Candidates
  <2>3. /\ config.schema = Marker
        /\ database.version = IF phase' = "marked" THEN s ELSE s + 1
        /\ phase' \in {"marked", "committed"}
    BY <1>4 DEF StepResumes, MayResume
  <2> QED
    BY <1>4, <2>1, <2>2, <2>3 DEF StepResumes, StepInvariant, VersionsAgree
<1>5. CASE CopyBackup
  BY <1>5 DEF CopyBackup, StepInvariant, VersionsAgree
<1>6. CASE WriteJournal
  BY <1>6 DEF WriteJournal, StepInvariant, VersionsAgree, TypeOK
<1>7. CASE WriteMarker
  <2>1. config.schema = source /\ source < VERSION /\ journal[source].original = config
    BY <1>7 DEF WriteMarker, StepInvariant
  <2>2. source # Marker /\ database.version = source
    BY <2>1 DEF StepInvariant, VersionsAgree, TypeOK, Schemas, Marker
  <2>3. config'.schema = Marker
    BY <1>7 DEF WriteMarker, TypeOK, ConfigType
  <2> QED
    BY <1>7, <2>1, <2>2, <2>3 DEF WriteMarker, StepInvariant, VersionsAgree
<1>8. CASE UpgradeDatabase
  BY <1>8 DEF UpgradeDatabase, StepInvariant, VersionsAgree, TypeOK
<1>9. CASE BlockedRestores
  BY <1>9 DEF BlockedRestores, StepInvariant, VersionsAgree
<1>10. CASE BlockedRecords
  BY <1>10 DEF BlockedRecords, StepInvariant, VersionsAgree
<1>11. CASE WriteConfig
  <2>1. config'.schema = source + 1
    BY <1>11 DEF WriteConfig, TypeOK, JournalType, ConfigType
  <2> QED BY <1>11, <2>1 DEF WriteConfig, StepInvariant, VersionsAgree
<1>12. CASE CompleteJournal
  BY <1>12 DEF CompleteJournal, StepInvariant, VersionsAgree
<1> QED
  BY <1>1, <1>2, <1>3, <1>4, <1>5, <1>6, <1>7, <1>8, <1>9, <1>10, <1>11, <1>12 DEF Migrate

LEMMA ClientStep ==
  ASSUME TypeOK, StepInvariant, NEW c \in Clients, Client(c)
  PROVE  StepInvariant'
<1>1. /\ UNCHANGED <<source, journal, phase>>
      /\ database'.version = database.version
      /\ UNCHANGED config \/ (phase = "idle" /\ config'.schema = config.schema)
  BY DEF Client, ReadConfig, SeedLauncher, RecoverBinary, Open, Close, Write,
         ConfigureLimits, Unlocked, store, migrator, TypeOK, ConfigType
<1> QED BY <1>1, OutsideStep

LEMMA NextStep == TypeOK /\ StepInvariant /\ [Next]_vars => StepInvariant'
<1> SUFFICES ASSUME TypeOK, StepInvariant, [Next]_vars PROVE StepInvariant'
  OBVIOUS
<1> USE DEF store, migrator, users
<1>1. ASSUME NEW t \in Schemas \ {First}, MigrateStarts(t) PROVE StepInvariant'
  BY <1>1, OutsideStep DEF MigrateStarts, Step
<1>2. CASE Migrate
  BY <1>2, MigrateStep
<1>3. CASE Interrupted
  BY <1>3, OutsideStep DEF Interrupted
<1>4. ASSUME NEW c \in Clients, Client(c) PROVE StepInvariant'
  BY <1>4, ClientStep
<1>5. CASE RunsEnd \/ BinaryReplaced
  BY <1>5, OutsideStep DEF RunsEnd, BinaryReplaced, TypeOK
<1>6. ASSUME NEW active \in BOOLEAN, LegacyWrite(active) PROVE StepInvariant'
  BY <1>6, OutsideStep DEF LegacyWrite, TypeOK
<1>7. CASE UNCHANGED vars
  BY <1>7, OutsideStep DEF vars
<1> QED BY <1>1, <1>2, <1>3, <1>4, <1>5, <1>6, <1>7 DEF Next

\* Every reachable state is well typed, and what migrate wrote before each of
\* its points is still there.
THEOREM StepsCorrect == Spec => [](TypeOK /\ StepInvariant)
<1>1. Init => TypeOK /\ StepInvariant
  BY InitType, InitStep
<1>2. TypeOK /\ StepInvariant /\ [Next]_vars => (TypeOK /\ StepInvariant)'
  BY NextType, NextStep
<1> QED BY <1>1, <1>2, PTL DEF Spec

\* Whenever config.json names a schema the database has it, whatever the
\* interruptions and the clients.
THEOREM VersionsAgreed == Spec => []VersionsAgree
<1>1. StepInvariant => VersionsAgree
  BY DEF StepInvariant
<1> QED BY <1>1, StepsCorrect, PTL

-----------------------------------------------------------------------------
(* Action properties of a step.                                              *)

LEMMA UpgradeStep ==
  ASSUME TypeOK, StepInvariant, [Next]_vars
  PROVE  database'.version # database.version =>
           /\ database'.version = database.version + 1
           /\ config.schema = Marker /\ ~database.active
           /\ phase = "marked" /\ UNCHANGED backup
<1> SUFFICES ASSUME database'.version # database.version
             PROVE  UpgradeDatabase
  BY DEF UpgradeDatabase, Step, StepInvariant, TypeOK
<1> QED
  BY DEF Next, Migrate, Client, vars, TypeOK, store, migrator, users,
         MigrateStarts, CompletePrevious, MigrateReturns, StepStarts, StepResumes,
         MigrateRefuses, CopyBackup, WriteJournal, WriteMarker, BlockedRestores,
         BlockedRecords, WriteConfig, CompleteJournal, Interrupted, ReadConfig,
         SeedLauncher, RecoverBinary, Open, Close, Write, ConfigureLimits, RunsEnd,
         LegacyWrite, BinaryReplaced

\* The database is upgraded by one version, behind the marker and while no run
\* is active, even when clients from before the lock are at work.
THEOREM UpgradesExclusive == Spec => UpgradeExclusive
<1>1. TypeOK /\ StepInvariant /\ [Next]_vars =>
        [/\ database'.version # database.version =>
              /\ database'.version = database.version + 1
              /\ config.schema = Marker /\ ~database.active]_vars
  BY UpgradeStep
<1> QED BY <1>1, StepsCorrect, PTL DEF Spec, UpgradeExclusive

LEMMA SettingsStep ==
  ASSUME TypeOK, StepInvariant, [Next]_vars, phase # "idle"
  PROVE  Masked(config') = SettingsAfter
<1>1. \/ UNCHANGED config \/ WriteMarker \/ WriteConfig \/ BlockedRestores
  BY DEF Next, Migrate, Client, vars, store, migrator, users, Unlocked,
         MigrateStarts, CompletePrevious, MigrateReturns, StepStarts, StepResumes,
         MigrateRefuses, CopyBackup, WriteJournal, UpgradeDatabase,
         BlockedRecords, CompleteJournal, Interrupted, ReadConfig,
         SeedLauncher, RecoverBinary, Open, Close, Write, ConfigureLimits, RunsEnd,
         LegacyWrite, BinaryReplaced
<1>2. CASE UNCHANGED config
  <2>1. phase = "committed" => config.schema = Marker
    BY DEF StepInvariant
  <2>2. Marker # QueueSchema
    BY DEF Marker, QueueSchema
  <2> QED BY <1>2, <2>1, <2>2 DEF SettingsAfter
<1>3. CASE WriteMarker
  <2>1. phase = "journalled"
    BY <1>3 DEF WriteMarker, Step
  <2> QED BY <1>3, <2>1 DEF WriteMarker, TypeOK, ConfigType, SettingsAfter, Masked
<1>4. CASE WriteConfig \/ BlockedRestores
  <2>1. Masked(journal[source].original) = config
    BY <1>4 DEF WriteConfig, BlockedRestores, StepInvariant, Step, Masked
  <2>2. journal[source].original \in ConfigType
    BY DEF TypeOK, JournalType
  <2>3. Masked(config) = config
    BY <2>1, <2>2 DEF ConfigType, Masked
  <2>4. CASE BlockedRestores
    <3>1. phase # "committed" /\ config' = journal[source].original
      BY <2>4 DEF BlockedRestores, Step
    <3> QED BY <2>1, <2>3, <3>1 DEF SettingsAfter
  <2>5. CASE WriteConfig
    <3>1. /\ phase = "committed"
          /\ config' = [journal[source].original EXCEPT
               !.schema = source + 1,
               !.queued = IF source + 1 = QueueSchema THEN Hundred ELSE @]
      BY <2>5 DEF WriteConfig, Step
    <3>2. config'.schema = source + 1
      BY <2>2, <3>1 DEF ConfigType
    <3>3. CASE source + 1 = QueueSchema
      <4>1. Masked(config') = [Masked(journal[source].original) EXCEPT !.queued = Hundred]
        BY <2>2, <3>1, <3>3 DEF ConfigType, Masked
      <4> QED BY <2>1, <2>3, <3>1, <3>2, <3>3, <4>1 DEF SettingsAfter
    <3>4. CASE source + 1 # QueueSchema
      <4>1. Masked(config') = Masked(journal[source].original)
        BY <2>2, <3>1, <3>4 DEF ConfigType, Masked
      <4> QED BY <2>1, <2>3, <3>1, <3>2, <3>4, <4>1 DEF SettingsAfter
    <3> QED BY <3>3, <3>4
  <2> QED BY <1>4, <2>4, <2>5
<1> QED BY <1>1, <1>2, <1>3, <1>4

\* An upgrade, whatever interrupts it and whoever used the store before, leaves every
\* setting as it was configured but one: the step to the schema of the queue writes
\* the default for max_queued over any value (migration.py, _step).
THEOREM SettingsSurvive == Spec => SettingsKept
<1>1. TypeOK /\ StepInvariant /\ [Next]_vars =>
        [phase # "idle" => Masked(config') = SettingsAfter]_vars
  BY SettingsStep
<1> QED BY <1>1, StepsCorrect, PTL DEF Spec, SettingsKept

-----------------------------------------------------------------------------
(* Backups and resumption, when every client knows the lock and none         *)
(* rewrites the launcher.                                                    *)

LEMMA InitResume == Init => ResumeInvariant
<1> SUFFICES ASSUME Init PROVE ResumeInvariant
  OBVIOUS
<1>1. StepInvariant
  BY InitStep
<1>2. JournalsInOrder /\ MarkerDescribed /\ StepPrepared /\ ClientsOnSchema
  BY MigrationAssumption
     DEF Init, JournalsInOrder, MarkerDescribed, StepPrepared, ClientsOnSchema,
         Schemas, Marker
<1> QED BY <1>1, <1>2 DEF ResumeInvariant

\* Behind the marker the journal of the present step is the only open one.
LEMMA OneCandidate ==
  ASSUME TypeOK, JournalsInOrder, NEW s \in Candidates, NEW t \in Candidates
  PROVE  s = t
<1>1. /\ s \in Schemas /\ t \in Schemas
      /\ journal[s].phase \notin {"none", "complete"}
      /\ journal[t].phase \notin {"none", "complete"}
  BY DEF Candidates
<1>2. database.version \in Schemas
  BY DEF TypeOK
<1>3. s \in {database.version - 1, database.version}
  BY <1>1, <1>2, MigrationAssumption DEF JournalsInOrder, Schemas
<1>4. t \in {database.version - 1, database.version}
  BY <1>1, <1>2, MigrationAssumption DEF JournalsInOrder, Schemas
<1>5. \A k \in Schemas : k = database.version - 1 /\ journal[k + 1].phase # "none"
        => journal[k].phase = "complete"
  BY DEF JournalsInOrder
<1>6. ~(s = database.version - 1 /\ t = database.version)
  BY <1>1, <1>2, <1>5, MigrationAssumption DEF Schemas
<1>7. ~(t = database.version - 1 /\ s = database.version)
  BY <1>1, <1>2, <1>5, MigrationAssumption DEF Schemas
<1> QED BY <1>3, <1>4, <1>6, <1>7

\* Steps that leave the store alone, or end migrate.
LEMMA OutsideResume ==
  ASSUME TypeOK, ResumeInvariant, UNCHANGED <<store, source>>,
         phase' \in {"idle", "loop", phase},
         \A c \in Clients : client'[c] = "open" =>
           \/ client[c] = "open" /\ (seen'[c] = seen[c] \/ seen'[c] = config)
           \/ seen'[c].schema # Marker,
         StepInvariant',
         \A c \in Clients : seen'[c] # seen[c] => config.schema # Marker
  PROVE  ResumeInvariant'
<1> USE DEF store
<1>1. JournalsInOrder'
  BY DEF ResumeInvariant, JournalsInOrder
<1>2. MarkerDescribed'
  BY DEF ResumeInvariant, MarkerDescribed, Candidates
<1>3. StepPrepared'
  BY DEF ResumeInvariant, StepPrepared
<1>4. ClientsOnSchema'
  BY DEF ResumeInvariant, ClientsOnSchema
<1> QED BY <1>1, <1>2, <1>3, <1>4 DEF ResumeInvariant

\* Writes of clients that were let in.
LEMMA StoreResume ==
  ASSUME TypeOK, ResumeInvariant, StepInvariant', ClientsOnSchema',
         config.schema # Marker, config'.schema = config.schema,
         phase = "idle", phase' = "idle",
         UNCHANGED <<journal, backup, source>>, database'.version = database.version
  PROVE  ResumeInvariant'
<1>1. JournalsInOrder'
  BY DEF ResumeInvariant, JournalsInOrder
<1>2. MarkerDescribed'
  BY DEF MarkerDescribed
<1>3. StepPrepared'
  BY DEF ResumeInvariant, StepPrepared
<1> QED BY <1>1, <1>2, <1>3 DEF ResumeInvariant

LEMMA ClientResume ==
  ASSUME TypeOK, ResumeInvariant, StepInvariant', "relink" \notin Activities,
         NEW c \in Clients, Client(c)
  PROVE  ResumeInvariant'
<1> USE DEF migrator
<1>1. CASE ReadConfig(c)
  <2>1. \A d \in Clients : /\ client'[d] = "open" => client[d] = "open" /\ seen'[d] = seen[d]
                          /\ seen'[d] # seen[d] => config.schema # Marker
    BY <1>1 DEF ReadConfig, TypeOK
  <2> QED BY <1>1, <2>1, OutsideResume DEF ReadConfig
<1>2. CASE Open(c)
  <2>1. \A d \in Clients :
          /\ client'[d] = "open" => \/ client[d] = "open" /\ seen'[d] = seen[d]
                                    \/ seen'[d].schema # Marker
          /\ seen'[d] # seen[d] => config.schema # Marker
    BY <1>2 DEF Open, Admitted, TypeOK
  <2> QED BY <1>2, <2>1, OutsideResume DEF Open
<1>3. CASE Close(c)
  <2>1. \A d \in Clients : client'[d] = "open" => client[d] = "open"
    BY <1>3 DEF Close, TypeOK
  <2> QED BY <1>3, <2>1, OutsideResume DEF Close
<1>4. ASSUME NEW active \in BOOLEAN, Write(c, active) PROVE ResumeInvariant'
  <2>1. ClientsOnSchema'
    BY <1>4 DEF Write, Admitted, ResumeInvariant, ClientsOnSchema, TypeOK
  <2>2. database'.version = database.version
    BY <1>4 DEF Write, TypeOK
  <2> QED BY <1>4, <2>1, <2>2, StoreResume DEF Write, Admitted, Unlocked
<1>5. ASSUME NEW n \in 1..MaxLimit, NEW q \in 0..MaxLimit, ConfigureLimits(c, n, q)
      PROVE  ResumeInvariant'
  <2>1. config.schema = seen[c].schema
    BY <1>5 DEF ConfigureLimits, SameFixed, TypeOK, ConfigType
  <2>2. config.schema # Marker
    BY <1>5, <2>1 DEF ConfigureLimits, ResumeInvariant, ClientsOnSchema
  <2>3. config'.schema = config.schema
    BY <1>5 DEF ConfigureLimits, TypeOK, ConfigType
  <2>4. ClientsOnSchema'
    BY <1>5, <2>2, <2>3 DEF ConfigureLimits, ResumeInvariant, ClientsOnSchema, TypeOK
  <2> QED BY <1>5, <2>2, <2>3, <2>4, StoreResume DEF ConfigureLimits, Unlocked
<1> QED
  BY <1>1, <1>2, <1>3, <1>4, <1>5 DEF Client, SeedLauncher, RecoverBinary

\* The steps of migrate that read, and the completion of a journal.
LEMMA ReadingResume ==
  ASSUME TypeOK, ResumeInvariant, StepInvariant',
         \/ CompletePrevious \/ MigrateReturns \/ MigrateRefuses \/ StepStarts
         \/ \E s \in Schemas : StepResumes(s)
  PROVE  ResumeInvariant'
<1> USE MigrationAssumption DEF Step, users, migrator, store
<1>1. CASE CompletePrevious
  <2>1. /\ config.schema - 1 \in Schemas /\ config.schema # Marker
        /\ database.version = config.schema
    BY <1>1 DEF CompletePrevious, JournalOpen, Schemas, Marker, TypeOK, ConfigType
  <2>2. JournalsInOrder'
    <3>1. /\ database' = database /\ journal[config.schema - 1].phase # "none"
          /\ journal'[config.schema - 1].phase = "complete"
          /\ \A s \in Schemas : s # config.schema - 1 => journal'[s] = journal[s]
      BY <1>1, <2>1 DEF CompletePrevious, JournalOpen, TypeOK, JournalType
    <3>2. \A s \in Schemas : \/ journal'[s].phase = journal[s].phase
                             \/ /\ journal'[s].phase = "complete"
                                /\ s = database.version - 1 /\ journal[s].phase # "none"
      BY <2>1, <3>1
    <3> QED BY <3>1, <3>2 DEF ResumeInvariant, JournalsInOrder, TypeOK, Schemas
  <2>3. MarkerDescribed'
    BY <1>1, <2>1 DEF CompletePrevious, MarkerDescribed
  <2>4. StepPrepared'
    BY <1>1, <2>1 DEF CompletePrevious, ResumeInvariant, StepPrepared, TypeOK, JournalType
  <2>5. ClientsOnSchema'
    BY <1>1 DEF CompletePrevious, ResumeInvariant, ClientsOnSchema
  <2> QED BY <2>2, <2>3, <2>4, <2>5 DEF ResumeInvariant
<1>2. CASE MigrateReturns \/ MigrateRefuses
  <2>1. \A c \in Clients : client'[c] = client[c] /\ seen'[c] = seen[c]
    BY <1>2 DEF MigrateReturns, MigrateRefuses
  <2> QED BY <1>2, <2>1, OutsideResume DEF MigrateReturns, MigrateRefuses
<1>3. CASE StepStarts
  <2>1. /\ config.schema = database.version /\ ~database.active
        /\ config.schema \in Schemas /\ config.schema # Marker
    BY <1>3 DEF StepStarts, MayStart, TypeOK, ConfigType
  <2>2. database.version > First => journal[database.version - 1].phase = "complete"
    <3> SUFFICES ASSUME database.version > First
                 PROVE  journal[database.version - 1].phase = "complete"
      OBVIOUS
    <3>1. database.version - 1 \in Schemas
      BY <2>1 DEF Schemas
    <3>2. journal[database.version - 1].phase # "none"
      BY <3>1 DEF ResumeInvariant, JournalsInOrder
    <3>3. journal[database.version - 1].phase \notin {"backed_up", "blocked_active"}
      BY <1>3, <2>1 DEF StepStarts, JournalOpen
    <3>4. journal[database.version - 1].phase \in
            {"none", "backed_up", "blocked_active", "complete"}
      BY <3>1 DEF TypeOK, JournalType
    <3> QED BY <3>2, <3>3, <3>4
  <2>3. StepPrepared'
    BY <1>3, <2>1, <2>2 DEF StepStarts, ResumeInvariant, StepPrepared
  <2>4. JournalsInOrder' /\ MarkerDescribed' /\ ClientsOnSchema'
    BY <1>3, <2>1 DEF StepStarts, ResumeInvariant, JournalsInOrder, MarkerDescribed,
                      ClientsOnSchema
  <2> QED BY <2>3, <2>4 DEF ResumeInvariant
<1>4. ASSUME NEW s \in Schemas, StepResumes(s) PROVE ResumeInvariant'
  <2>1. config.schema = Marker /\ Candidates = {s}
    BY <1>4 DEF StepResumes, MayResume
  <2>2. journal[s].phase = "backed_up"
    BY <2>1 DEF Candidates, ResumeInvariant, StepPrepared
  <2>3. database.version = s => backup[s] = [version |-> s, work |-> database.work]
    <3>1. PICK t \in Schemas :
            /\ t \in Candidates
            /\ \/ /\ database.version = t
                  /\ backup[t] = [version |-> t, work |-> database.work]
               \/ database.version = t + 1
      BY <2>1 DEF ResumeInvariant, MarkerDescribed
    <3>2. t = s
      BY <2>1, <3>1
    <3> QED BY <3>1, <3>2 DEF Schemas
  <2>4. StepPrepared'
    BY <1>4, <2>2, <2>3 DEF StepResumes, ResumeInvariant, StepPrepared
  <2>5. JournalsInOrder' /\ ClientsOnSchema'
    BY <1>4 DEF StepResumes, ResumeInvariant, JournalsInOrder, ClientsOnSchema
  <2>6. MarkerDescribed'
    BY <1>4 DEF StepResumes, ResumeInvariant, MarkerDescribed, Candidates
  <2> QED BY <2>4, <2>5, <2>6 DEF ResumeInvariant
<1> QED BY <1>1, <1>2, <1>3, <1>4

\* The steps of migrate that write.
LEMMA WritingResume ==
  ASSUME TypeOK, ResumeInvariant, StepInvariant',
         \/ CopyBackup \/ WriteJournal \/ WriteMarker \/ UpgradeDatabase
         \/ BlockedRestores \/ BlockedRecords \/ WriteConfig \/ CompleteJournal
  PROVE  ResumeInvariant'
<1> USE MigrationAssumption DEF Step, users
<1>0. ClientsOnSchema'
  BY DEF ResumeInvariant, ClientsOnSchema, CopyBackup, WriteJournal, WriteMarker,
         UpgradeDatabase, BlockedRestores, BlockedRecords, WriteConfig, CompleteJournal
<1>1. CASE CopyBackup
  <2>1. /\ config.schema = source /\ config.schema # Marker
        /\ database.version = source
    BY <1>1 DEF CopyBackup, ResumeInvariant, StepInvariant, VersionsAgree, TypeOK,
                Schemas, Marker
  <2>2. JournalsInOrder' /\ MarkerDescribed'
    BY <1>1, <2>1 DEF CopyBackup, ResumeInvariant, JournalsInOrder, MarkerDescribed
  <2>3. StepPrepared'
    BY <1>1, <2>1 DEF CopyBackup, ResumeInvariant, StepPrepared, TypeOK
  <2> QED BY <1>0, <2>2, <2>3 DEF ResumeInvariant
<1>2. CASE WriteJournal
  <2>1. /\ config.schema = source /\ config.schema # Marker
        /\ database.version = source
    BY <1>2 DEF WriteJournal, ResumeInvariant, StepInvariant, VersionsAgree, TypeOK,
                Schemas, Marker
  <2>2. database.version > First => journal[database.version - 1].phase = "complete"
    BY <1>2 DEF WriteJournal, ResumeInvariant, StepPrepared
  <2>3. JournalsInOrder'
    <3>1. /\ source \in Schemas /\ database'.version = source
          /\ journal'[source].phase = "backed_up"
          /\ \A s \in Schemas : s # source => journal'[s] = journal[s]
      BY <1>2, <2>1 DEF WriteJournal, TypeOK
    <3>2. JournalsInOrder
      BY DEF ResumeInvariant
    <3> SUFFICES ASSUME NEW s \in Schemas
                 PROVE  /\ s > source => journal'[s].phase = "none"
                        /\ s < source - 1 => journal'[s].phase = "complete"
                        /\ s = source - 1 => journal'[s].phase = "complete"
      BY <3>1 DEF JournalsInOrder
    <3>3. CASE s = source
      BY <3>1, <3>3 DEF Schemas
    <3>4. CASE s # source
      BY <2>1, <2>2, <3>1, <3>2, <3>4 DEF JournalsInOrder, Schemas
    <3> QED BY <3>3, <3>4
  <2>4. MarkerDescribed'
    BY <1>2, <2>1 DEF WriteJournal, MarkerDescribed
  <2>5. StepPrepared'
    <3>1. database.version > First => journal'[database.version - 1].phase = "complete"
      BY <1>2, <2>1, <2>2 DEF WriteJournal, TypeOK, Schemas
    <3> QED
      BY <1>2, <2>1, <3>1 DEF WriteJournal, ResumeInvariant, StepPrepared, TypeOK
  <2> QED BY <1>0, <2>3, <2>4, <2>5 DEF ResumeInvariant
<1>3. CASE WriteMarker
  <2>1. /\ config.schema = source /\ journal[source].original = config
        /\ database.version = source
    BY <1>3 DEF WriteMarker, ResumeInvariant, StepInvariant, VersionsAgree, TypeOK,
                Schemas, Marker
  <2>2. /\ ~database.active /\ journal[source].phase = "backed_up"
        /\ backup[source] = [version |-> source, work |-> database.work]
    BY <1>3 DEF WriteMarker, ResumeInvariant, StepPrepared
  <2>3. source \in Candidates'
    BY <1>3, <2>1, <2>2 DEF WriteMarker, Candidates, TypeOK
  <2>4. MarkerDescribed'
    BY <1>3, <2>1, <2>2, <2>3 DEF WriteMarker, MarkerDescribed, TypeOK
  <2>5. JournalsInOrder'
    BY <1>3 DEF WriteMarker, ResumeInvariant, JournalsInOrder
  <2>6. StepPrepared'
    BY <1>3 DEF WriteMarker, ResumeInvariant, StepPrepared
  <2> QED BY <1>0, <2>4, <2>5, <2>6 DEF ResumeInvariant
<1>4. CASE UpgradeDatabase
  <2>1. /\ config.schema = Marker /\ database.version = source /\ source < VERSION
        /\ source \in Schemas
    BY <1>4 DEF UpgradeDatabase, ResumeInvariant, StepInvariant, TypeOK
  <2>2. journal[source].phase = "backed_up"
    BY <1>4 DEF UpgradeDatabase, ResumeInvariant, StepPrepared
  <2>3. /\ database'.version = source + 1 /\ source + 1 \in Schemas
        /\ database'.active = database.active /\ database'.work = database.work
    BY <1>4, <2>1, NextSchema DEF UpgradeDatabase, TypeOK
  <2>4. JournalsInOrder'
    BY <1>4, <2>1, <2>2, <2>3 DEF UpgradeDatabase, ResumeInvariant, JournalsInOrder,
                                  Schemas
  <2>5. PICK t \in Schemas : /\ t \in Candidates /\ backup[t].version = t
                            /\ database.version \in {t, t + 1}
    BY <2>1 DEF ResumeInvariant, MarkerDescribed
  <2>6. t = source
    <3>1. source - 1 \in Schemas => journal[source - 1].phase = "complete"
      BY <2>1, <2>2 DEF ResumeInvariant, JournalsInOrder, Schemas
    <3>2. journal[t].phase # "complete"
      BY <2>5 DEF Candidates
    <3> QED BY <2>1, <2>5, <3>1, <3>2 DEF Schemas
  <2>7. MarkerDescribed'
    BY <1>4, <2>1, <2>3, <2>5, <2>6 DEF UpgradeDatabase, MarkerDescribed, Candidates
  <2>8. StepPrepared'
    BY <1>4, <2>2 DEF UpgradeDatabase, ResumeInvariant, StepPrepared
  <2> QED BY <1>0, <2>4, <2>7, <2>8 DEF ResumeInvariant
<1>5. CASE BlockedRestores \/ BlockedRecords
  <2>1. ~BlockedRestores
    BY DEF BlockedRestores, ResumeInvariant, MarkerDescribed, StepInvariant
  <2>2. ~BlockedRecords
    BY DEF BlockedRecords, ResumeInvariant, StepPrepared
  <2> QED BY <1>5, <2>1, <2>2
<1>6. CASE WriteConfig
  <2>1. /\ config'.schema = source + 1 /\ source + 1 # Marker
    <3>1. source \in Schemas /\ source + 1 # Marker
      BY DEF TypeOK, Schemas, Marker
    <3>2. journal[source].original \in ConfigType
      BY <3>1 DEF TypeOK, JournalType
    <3> QED BY <1>6, <3>1, <3>2 DEF WriteConfig, ConfigType
  <2>2. JournalsInOrder'
    BY <1>6 DEF WriteConfig, ResumeInvariant, JournalsInOrder
  <2>3. MarkerDescribed'
    BY <2>1 DEF MarkerDescribed
  <2>4. StepPrepared'
    BY <1>6, <2>1 DEF WriteConfig, ResumeInvariant, StepPrepared
  <2> QED BY <1>0, <2>2, <2>3, <2>4 DEF ResumeInvariant
<1>7. CASE CompleteJournal
  <2>1. /\ config.schema = source + 1 /\ config.schema # Marker
        /\ database.version = source + 1
    BY <1>7 DEF CompleteJournal, ResumeInvariant, StepPrepared, StepInvariant,
                VersionsAgree, TypeOK, Schemas, Marker
  <2>2. JournalsInOrder'
    BY <1>7, <2>1 DEF CompleteJournal, ResumeInvariant, JournalsInOrder, TypeOK,
                      JournalType, Schemas
  <2>3. MarkerDescribed'
    BY <1>7, <2>1 DEF CompleteJournal, MarkerDescribed
  <2>4. StepPrepared'
    BY <1>7 DEF CompleteJournal, ResumeInvariant, StepPrepared, TypeOK, JournalType
  <2> QED BY <1>0, <2>2, <2>3, <2>4 DEF ResumeInvariant
<1> QED BY <1>1, <1>2, <1>3, <1>4, <1>5, <1>6, <1>7

LEMMA NextResume ==
  ASSUME TypeOK, ResumeInvariant, [Next]_vars, Activities = {}
  PROVE  ResumeInvariant'
<1> USE DEF store, migrator, users
<1>0. StepInvariant'
  BY NextStep DEF ResumeInvariant
<1>1. ASSUME NEW t \in Schemas \ {First}, MigrateStarts(t) PROVE ResumeInvariant'
  <2>1. \A c \in Clients : client'[c] = client[c] /\ seen'[c] = seen[c]
    BY <1>1 DEF MigrateStarts
  <2> QED BY <1>0, <1>1, <2>1, OutsideResume DEF MigrateStarts, Step
<1>2. CASE Migrate
  BY <1>0, <1>2, ReadingResume, WritingResume DEF Migrate
<1>3. CASE Interrupted
  <2>1. JournalsInOrder' /\ ClientsOnSchema' /\ StepPrepared'
    BY <1>3 DEF Interrupted, ResumeInvariant, JournalsInOrder, ClientsOnSchema, StepPrepared
  <2>2. CASE UNCHANGED backup
    BY <1>0, <1>3, <2>1, <2>2
       DEF Interrupted, ResumeInvariant, MarkerDescribed, Candidates
  <2>3. CASE phase = "backup"
    <3>1. config'.schema = source /\ source # Marker
      BY <1>3, <2>3, MigrationAssumption
         DEF Interrupted, ResumeInvariant, StepInvariant, TypeOK, Schemas, Marker
    <3> QED BY <1>0, <2>1, <3>1 DEF ResumeInvariant, MarkerDescribed
  <2> QED BY <1>3, <2>2, <2>3 DEF Interrupted
<1>4. ASSUME NEW c \in Clients, Client(c) PROVE ResumeInvariant'
  BY <1>0, <1>4, ClientResume
<1>5. CASE RunsEnd
  <2>1. config.schema # Marker /\ database'.version = database.version
    BY <1>5, MigrationAssumption DEF RunsEnd, TypeOK, Schemas, Marker
  <2>2. ClientsOnSchema'
    BY <1>5 DEF RunsEnd, ResumeInvariant, ClientsOnSchema
  <2> QED BY <1>0, <1>5, <2>1, <2>2, StoreResume DEF RunsEnd, Unlocked
<1>6. CASE BinaryReplaced \/ \E active \in BOOLEAN : LegacyWrite(active)
  BY <1>6 DEF BinaryReplaced, LegacyWrite
<1>7. CASE UNCHANGED vars
  <2>1. \A c \in Clients : client'[c] = client[c] /\ seen'[c] = seen[c]
    BY <1>7 DEF vars
  <2> QED BY <1>0, <1>7, <2>1, OutsideResume DEF vars
<1> QED BY <1>1, <1>2, <1>3, <1>4, <1>5, <1>6, <1>7 DEF Next

\* With clients that know the lock and leave the launcher alone, the journals
\* follow one another and the marker is always described by one of them.
THEOREM ResumptionCorrect == Activities = {} /\ Spec => [](TypeOK /\ ResumeInvariant)
<1> SUFFICES ASSUME Activities = {} PROVE Spec => [](TypeOK /\ ResumeInvariant)
  OBVIOUS
<1>1. Init => TypeOK /\ ResumeInvariant
  BY InitType, InitResume
<1>2. ResumeInvariant => StepInvariant
  BY DEF ResumeInvariant
<1>3. TypeOK /\ ResumeInvariant /\ [Next]_vars => (TypeOK /\ ResumeInvariant)'
  BY <1>2, NextType, NextResume
<1> QED BY <1>1, <1>3, PTL DEF Spec

\* An interrupted migration that left the marker can be resumed, unless a
\* client rewrites the launcher behind it.
THEOREM AlwaysResumable == Activities = {} /\ Spec => []Resumable
<1>1. TypeOK /\ ResumeInvariant => Resumable
  <2> SUFFICES ASSUME TypeOK, ResumeInvariant, config.schema = Marker
               PROVE  \E s \in Schemas : /\ Candidates = {s} /\ backup[s].version = s
                                         /\ database.version \in {s, s + 1}
    BY DEF Resumable
  <2>1. PICK s \in Schemas : /\ s \in Candidates /\ backup[s].version = s
                            /\ database.version \in {s, s + 1}
    BY DEF ResumeInvariant, MarkerDescribed
  <2>2. Candidates = {s}
    BY <2>1, OneCandidate DEF ResumeInvariant
  <2> QED BY <2>1, <2>2
<1> QED BY <1>1, ResumptionCorrect, PTL

LEMMA BackupStep ==
  ASSUME TypeOK, ResumeInvariant, [Next]_vars
  PROVE  /\ database'.version # database.version =>
              backup[database.version] =
                [version |-> database.version, work |-> database.work]
         /\ \A s \in Schemas : s < database.version => backup'[s] = backup[s]
<1>1. ASSUME database'.version # database.version
      PROVE  backup[database.version] =
               [version |-> database.version, work |-> database.work]
  <2>1. phase = "marked"
    BY <1>1, UpgradeStep DEF ResumeInvariant
  <2> QED BY <2>1 DEF ResumeInvariant, StepInvariant, StepPrepared
<1>2. \/ UNCHANGED backup
      \/ phase = "backup" /\ \E b : backup' = [backup EXCEPT ![source] = b]
  BY DEF Next, Migrate, Client, vars, store, migrator, users, Step,
         MigrateStarts, CompletePrevious, MigrateReturns, StepStarts, StepResumes,
         MigrateRefuses, CopyBackup, WriteJournal, WriteMarker, UpgradeDatabase,
         BlockedRestores, BlockedRecords, WriteConfig, CompleteJournal, Interrupted,
         ReadConfig, SeedLauncher, RecoverBinary, Open, Close, Write, ConfigureLimits,
         RunsEnd, LegacyWrite, BinaryReplaced
<1>3. phase = "backup" => source = database.version
  BY MigrationAssumption
     DEF ResumeInvariant, StepInvariant, VersionsAgree, TypeOK, Schemas, Marker
<1>4. \A s \in Schemas : s < database.version => backup'[s] = backup[s]
  <2> SUFFICES ASSUME NEW s \in Schemas, s < database.version, phase = "backup",
                      NEW b, backup' = [backup EXCEPT ![source] = b]
               PROVE  backup'[s] = backup[s]
    BY <1>2
  <2>1. s # source /\ backup \in [Schemas -> BackupType]
    BY <1>3 DEF TypeOK, Schemas
  <2> QED BY <2>1
<1> QED BY <1>1, <1>4

\* At the upgrade the backup of the old schema holds exactly what the database
\* holds, and afterwards nothing touches it.
THEOREM BackupsExact == Activities = {} /\ Spec => BackupExact
<1>1. TypeOK /\ ResumeInvariant /\ [Next]_vars => [BackupHolds]_vars
  BY BackupStep DEF BackupHolds
<1> QED BY <1>1, ResumptionCorrect, PTL DEF Spec, BackupExact
=============================================================================
