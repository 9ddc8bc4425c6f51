----------------------------- MODULE Migration -----------------------------
(***************************************************************************)
(* The explicit upgrade of a store (migration.py): config.json, the        *)
(* database, one journal and one backup per schema, and the clients that   *)
(* open and use the store around it (store.py).                            *)
(*                                                                         *)
(* "migrate" holds the lifecycle lock exclusively from its start to its    *)
(* end or interruption, so a client's locked section is one action that    *)
(* happens while no migration runs; what a client reads before it takes    *)
(* the lock is an action of its own.                                       *)
(***************************************************************************)
EXTENDS Integers, FiniteSets

CONSTANTS
  First,          \* the oldest schema a store can have (3)
  VERSION,        \* the schema of this code
  Clients,        \* store objects of client processes and workers
  MaxLimit,       \* bound: largest max_parallel and max_queued configured
  MaxBinary,      \* bound: identities the installed Claude binary takes
  MaxWork,        \* bound: client transactions that change the tables
  MaxInterrupts,  \* bound: interrupted migrations
  Activities      \* what else happens around the upgrade

ActivityKinds == {"relink",   \* clients seed the launcher or recover the binary
                  "legacy"}   \* clients that predate the lock write runs

ASSUME MigrationAssumption ==
  /\ First \in Nat \ {0} /\ VERSION \in Nat /\ First <= VERSION
  /\ MaxLimit \in Nat \ {0} /\ MaxBinary \in Nat \ {0}
  /\ MaxWork \in Nat /\ MaxInterrupts \in Nat
  /\ Activities \subseteq ActivityKinds

Schemas == First..VERSION
Marker  == 0   \* config.json "schema": "migrating"

QueueSchema == 5   \* the schema that brings the queue and its limit
Hundred     == 0   \* stands for its default, 100, written or not

Phases == {"idle", "loop", "backup", "copied", "journalled", "marked",
           "blocked", "committed", "configured"}

VARIABLES
  config,     \* config.json
  database,   \* user_version, what the tables hold, whether a run is active
  journal,    \* migration-<source>-<target>.json of each source
  backup,     \* schema-<source>-backup.sqlite3 of each source
  phase,      \* where migrate stands; it holds lifecycle.lock unless "idle"
  source,     \* migrate's local variable: the schema it upgrades from
  target,     \* migrate's argument
  client,     \* what each client is doing
  seen,       \* each client's Store.config
  installed,  \* the Claude binary that exists
  interrupts  \* interrupted migrations

store    == <<config, database, journal, backup>>
migrator == <<phase, source, target, interrupts>>
users    == <<client, seen, installed>>
vars == <<config, database, journal, backup, phase, source, target, client, seen,
          installed, interrupts>>

\* limit is max_parallel, queued is max_queued (runtime_limits).
ConfigType == [schema: Schemas \union {Marker}, limit: 1..MaxLimit,
               queued: 0..MaxLimit, launcher: BOOLEAN, binary: 1..MaxBinary]
JournalType == [phase: {"none", "backed_up", "blocked_active", "complete"},
                original: ConfigType]
\* version 0: no backup, or one torn by an interrupted copy.
BackupType == [version: Schemas \union {0}, work: 0..MaxWork]

NoBackup == [version |-> 0, work |-> 0]

TypeOK ==
  /\ config \in ConfigType
  /\ database \in [version: Schemas, work: 0..MaxWork, active: BOOLEAN]
  /\ journal \in [Schemas -> JournalType]
  /\ backup \in [Schemas -> BackupType]
  /\ phase \in Phases /\ source \in Schemas /\ target \in Schemas
  /\ client \in [Clients -> {"closed", "opening", "open"}]
  /\ seen \in [Clients -> ConfigType]
  /\ installed \in 1..MaxBinary
  /\ interrupts \in 0..MaxInterrupts

\* A store as the code of schema First left it.
Init ==
  /\ config = [schema |-> First, limit |-> 1, queued |-> Hundred,
               launcher |-> FALSE, binary |-> 1]
  /\ database = [version |-> First, work |-> 0, active |-> FALSE]
  /\ journal = [s \in Schemas |-> [phase |-> "none", original |-> config]]
  /\ backup = [s \in Schemas |-> NoBackup]
  /\ phase = "idle" /\ source = First /\ target = First
  /\ client = [c \in Clients |-> "closed"]
  /\ seen = [c \in Clients |-> config]
  /\ installed = 1
  /\ interrupts = 0

-----------------------------------------------------------------------------
(* What migrate reads.                                                       *)

\* The sources whose unfinished journal describes the marked config.json.
Candidates ==
  {s \in Schemas : /\ journal[s].phase \in {"backed_up", "blocked_active"}
                   /\ journal[s].original.schema = s
                   /\ [journal[s].original EXCEPT !.schema = Marker] = config}

\* The journal of the step that led to the present schema is not complete.
JournalOpen ==
  /\ config.schema > First /\ config.schema = database.version
  /\ journal[config.schema - 1].phase \in {"backed_up", "blocked_active"}

Upgraded == config.schema = target /\ database.version = target

\* _step from a plain configuration passes its checks.
MayStart ==
  /\ config.schema # Marker /\ config.schema < target
  /\ database.version = config.schema /\ ~database.active

\* Mutant: the database must not have been changed yet.
MayResumeUnchanged(s) ==
  /\ config.schema = Marker /\ Candidates = {s} /\ s < target
  /\ backup[s].version = s
  /\ database.version = s

\* _step from the marker passes its checks.
MayResume(s) ==
  /\ config.schema = Marker /\ Candidates = {s} /\ s < target
  /\ backup[s].version = s
  /\ database.version = s \/ (database.version = s + 1 /\ ~database.active)

-----------------------------------------------------------------------------
(* migrate and its _step.                                                    *)

Step(from, to) == phase = from /\ phase' = to

MigrateStarts(t) ==
  /\ Step("idle", "loop")
  /\ target' = t
  /\ UNCHANGED <<store, users, source, interrupts>>

\* The head of the loop: complete the previous journal, return, ...
CompletePrevious ==
  /\ phase = "loop" /\ JournalOpen
  /\ journal' = [journal EXCEPT ![config.schema - 1].phase = "complete"]
  /\ UNCHANGED <<config, database, backup, migrator, users>>

MigrateReturns ==
  /\ Step("loop", "idle")
  /\ ~JournalOpen /\ Upgraded
  /\ UNCHANGED <<store, users, source, target, interrupts>>

\* ... start or resume a step, ...
StepStarts ==
  /\ Step("loop", "backup")
  /\ ~JournalOpen /\ MayStart
  /\ source' = config.schema
  /\ UNCHANGED <<store, users, target, interrupts>>

StepResumes(s) ==
  /\ Step("loop", IF database.version = s THEN "marked" ELSE "committed")
  /\ MayResume(s)
  /\ source' = s
  /\ UNCHANGED <<store, users, target, interrupts>>

\* ... or raise an error.
MigrateRefuses ==
  /\ Step("loop", "idle")
  /\ ~JournalOpen /\ ~Upgraded /\ ~MayStart /\ ~\E s \in Schemas : MayResume(s)
  /\ UNCHANGED <<store, users, source, target, interrupts>>

CopyBackup ==
  /\ Step("backup", "copied")
  /\ backup' = [backup EXCEPT
       ![source] = [version |-> database.version, work |-> database.work]]
  /\ UNCHANGED <<config, database, journal, users, source, target, interrupts>>

WriteJournal ==
  /\ Step("copied", "journalled")
  /\ journal' = [journal EXCEPT ![source] = [phase |-> "backed_up", original |-> config]]
  /\ UNCHANGED <<config, database, backup, users, source, target, interrupts>>

\* Mutant: the marker is forgotten.
NoMarker ==
  /\ Step("journalled", "marked")
  /\ UNCHANGED <<store, users, source, target, interrupts>>

WriteMarker ==
  /\ Step("journalled", "marked")
  /\ config' = [config EXCEPT !.schema = Marker]
  /\ UNCHANGED <<database, journal, backup, users, source, target, interrupts>>

\* The transaction that looks for active runs and executes the DDL.
UpgradeDatabase ==
  /\ Step("marked", "committed")
  /\ ~database.active
  /\ database' = [database EXCEPT !.version = source + 1]
  /\ UNCHANGED <<config, journal, backup, users, source, target, interrupts>>

\* A client older than the lock has an active run: reopen the old schema.
BlockedRestores ==
  /\ Step("marked", "blocked")
  /\ database.active
  /\ config' = journal[source].original
  /\ UNCHANGED <<database, journal, backup, users, source, target, interrupts>>

BlockedRecords ==
  /\ Step("blocked", "idle")
  /\ journal' = [journal EXCEPT ![source].phase = "blocked_active"]
  /\ UNCHANGED <<config, database, backup, users, source, target, interrupts>>

\* The step to the schema of the queue sets its limit, whatever was configured.
WriteConfig ==
  /\ Step("committed", "configured")
  /\ config' = [journal[source].original EXCEPT
       !.schema = source + 1,
       !.queued = IF source + 1 = QueueSchema THEN Hundred ELSE @]
  /\ UNCHANGED <<database, journal, backup, users, source, target, interrupts>>

CompleteJournal ==
  /\ Step("configured", "loop")
  /\ journal' = [journal EXCEPT ![source].phase = "complete"]
  /\ UNCHANGED <<config, database, backup, users, source, target, interrupts>>

\* The process dies or an error ends it; a copy in progress is torn.
Interrupted ==
  /\ phase # "idle" /\ interrupts < MaxInterrupts
  /\ phase' = "idle" /\ interrupts' = interrupts + 1
  /\ \/ UNCHANGED backup
     \/ phase = "backup" /\ backup' = [backup EXCEPT ![source] = NoBackup]
  /\ UNCHANGED <<config, database, journal, users, source, target>>

-----------------------------------------------------------------------------
(* Store: what clients do.                                                   *)

Unlocked == phase = "idle"

\* _same_fixed_config: all but the limits.
SameFixed(a, b) ==
  [a EXCEPT !.limit = 1, !.queued = Hundred] = [b EXCEPT !.limit = 1, !.queued = Hundred]

\* Store.db lets the client in.
Admitted(c) ==
  /\ SameFixed(config, seen[c]) /\ config.schema # Marker
  /\ database.version = config.schema

\* Store.__init__ reads config.json without the lock, ...
ReadConfig(c) ==
  /\ client[c] = "closed" /\ config.schema # Marker
  /\ client' = [client EXCEPT ![c] = "opening"]
  /\ seen' = [seen EXCEPT ![c] = config]
  /\ UNCHANGED <<store, migrator, installed>>

\* ... records the launcher of an older store, ...
SeedLauncher(c) ==
  /\ "relink" \in Activities /\ Unlocked
  /\ client[c] = "opening" /\ ~seen[c].launcher /\ seen[c].binary = installed
  /\ IF config.launcher \/ config.binary # seen[c].binary
     THEN seen' = [seen EXCEPT ![c] = config] /\ UNCHANGED config
     ELSE /\ ~database.active
          /\ config' = [config EXCEPT !.launcher = TRUE]
          /\ seen' = [seen EXCEPT ![c] = config']
  /\ UNCHANGED <<database, journal, backup, migrator, client, installed>>

\* ... replaces a Claude binary that is gone, ...
RecoverBinary(c) ==
  /\ "relink" \in Activities /\ Unlocked
  /\ client[c] = "opening" /\ seen[c].binary # installed
  /\ config.binary # installed => ~database.active
  /\ config' = [config EXCEPT !.binary = installed,
                              !.launcher = @ \/ config.binary # installed]
  /\ seen' = [seen EXCEPT ![c] = config']
  /\ UNCHANGED <<database, journal, backup, migrator, client, installed>>

\* ... and opens the database once.
Open(c) ==
  /\ Unlocked /\ client[c] = "opening" /\ Admitted(c)
  /\ client' = [client EXCEPT ![c] = "open"]
  /\ seen' = [seen EXCEPT ![c] = config]
  /\ UNCHANGED <<store, migrator, installed>>

\* A process ends; every error of its store ends it too.
Close(c) ==
  /\ client[c] # "closed"
  /\ client' = [client EXCEPT ![c] = "closed"]
  /\ UNCHANGED <<store, migrator, seen, installed>>

\* A write transaction of any other module: it may leave a run active.
Write(c, active) ==
  /\ Unlocked /\ client[c] = "open" /\ Admitted(c)
  /\ database.work < MaxWork
  /\ database' = [database EXCEPT !.work = @ + 1, !.active = active]
  /\ seen' = [seen EXCEPT ![c] = config]
  /\ UNCHANGED <<config, journal, backup, migrator, client, installed>>

ConfigureLimits(c, n, q) ==
  /\ Unlocked /\ client[c] = "open" /\ SameFixed(config, seen[c])
  /\ config' = [config EXCEPT !.limit = n, !.queued = q]
  /\ seen' = [seen EXCEPT ![c] = config']
  /\ UNCHANGED <<database, journal, backup, migrator, client, installed>>

\* The active runs end: their workers or a client commit it.
RunsEnd ==
  /\ Unlocked /\ database.active
  /\ config.schema = database.version
  /\ database' = [database EXCEPT !.active = FALSE]
  /\ UNCHANGED <<config, journal, backup, migrator, users>>

\* A schema-3 client from before the lock writes the table "runs", until the
\* upgrade of that schema is complete.
LegacyWrite(active) ==
  /\ "legacy" \in Activities
  /\ config.schema \in {First, Marker} /\ database.version <= First + 1
  /\ database.work < MaxWork
  /\ database' = [database EXCEPT !.work = @ + 1, !.active = active]
  /\ UNCHANGED <<config, journal, backup, migrator, users>>

\* Claude updates itself.
BinaryReplaced ==
  /\ "relink" \in Activities /\ installed < MaxBinary
  /\ installed' = installed + 1
  /\ UNCHANGED <<store, migrator, client, seen>>

-----------------------------------------------------------------------------
Migrate ==
  \/ CompletePrevious \/ MigrateReturns \/ StepStarts \/ MigrateRefuses
  \/ \E s \in Schemas : StepResumes(s)
  \/ CopyBackup \/ WriteJournal \/ WriteMarker \/ UpgradeDatabase
  \/ BlockedRestores \/ BlockedRecords \/ WriteConfig \/ CompleteJournal

Client(c) ==
  \/ ReadConfig(c) \/ SeedLauncher(c) \/ RecoverBinary(c) \/ Open(c) \/ Close(c)
  \/ \E active \in BOOLEAN : Write(c, active)
  \/ \E n \in 1..MaxLimit, q \in 0..MaxLimit : ConfigureLimits(c, n, q)

Next ==
  \/ \E t \in Schemas \ {First} : MigrateStarts(t)
  \/ Migrate \/ Interrupted
  \/ \E c \in Clients : Client(c)
  \/ RunsEnd \/ BinaryReplaced
  \/ \E active \in BOOLEAN : LegacyWrite(active)

Spec == Init /\ [][Next]_vars

\* A running migration goes on, the operator repeats it after an interruption
\* ("run the same command"), and active runs end.
Fairness ==
  /\ WF_vars(Migrate) /\ SF_vars(MigrateStarts(VERSION)) /\ SF_vars(RunsEnd)

FairSpec == Spec /\ Fairness

-----------------------------------------------------------------------------
(* Safety.                                                                   *)

\* Whenever config.json names a schema, the database has it: a crash at any
\* boundary leaves the old store, the marker or the new store.
VersionsAgree == config.schema # Marker => config.schema = database.version

\* The database is upgraded by one version, behind the marker and while no run
\* is active, even when clients from before the lock are at work.
UpgradeExclusive ==
  [][database'.version # database.version =>
       /\ database'.version = database.version + 1
       /\ config.schema = Marker /\ ~database.active]_vars

\* At the upgrade the backup of the old schema holds exactly what the database
\* holds, and afterwards nothing touches it.
BackupHolds ==
  /\ database'.version # database.version =>
       backup[database.version] =
         [version |-> database.version, work |-> database.work]
  /\ \A s \in Schemas : s < database.version => backup'[s] = backup[s]

BackupExact == [][BackupHolds]_vars

\* An upgrade changes one thing of what an operator or a client configured, not
\* even more when others used the store between its interruption and the end: the
\* step to the schema of the queue puts the default for max_queued, and it does so
\* even when another value was configured before.
Masked(k) == [k EXCEPT !.schema = Marker]

SettingsAfter ==
  IF phase = "committed" /\ config'.schema = QueueSchema
  THEN [Masked(config) EXCEPT !.queued = Hundred]
  ELSE Masked(config)

SettingsKept == [][phase # "idle" => Masked(config') = SettingsAfter]_vars

\* "The saved journal, DB version and private backup allow it to finish": an
\* interrupted migration that left the marker can be resumed.
Resumable ==
  config.schema = Marker /\ phase = "idle" =>
    \E s \in Schemas : /\ Candidates = {s} /\ backup[s].version = s
                       /\ database.version \in {s, s + 1}

(* The inductive invariants behind the safety properties.                    *)

\* What migrate wrote before each of its points is still there.
StepInvariant ==
  /\ VersionsAgree
  /\ phase \in {"backup", "copied", "journalled"} =>
       config.schema = source /\ source < VERSION
  /\ phase = "journalled" => journal[source].original = config
  /\ phase \in {"marked", "committed"} =>
       /\ source < VERSION /\ config.schema = Marker
       /\ journal[source].original.schema = source
       /\ [journal[source].original EXCEPT !.schema = Marker] = config
       /\ database.version = IF phase = "marked" THEN source ELSE source + 1

\* Journals are opened and completed one after the other.
JournalsInOrder ==
  \A s \in Schemas :
    /\ s > database.version => journal[s].phase = "none"
    /\ s < database.version - 1 => journal[s].phase = "complete"
    /\ s = database.version - 1 =>
         /\ journal[s].phase # "none"
         /\ journal[s + 1].phase # "none" => journal[s].phase = "complete"

\* Behind the marker there is one open journal, and its backup is exact until
\* the database is upgraded.
MarkerDescribed ==
  config.schema = Marker =>
    /\ ~database.active
    /\ \E s \in Schemas :
         /\ s \in Candidates /\ backup[s].version = s
         /\ \/ /\ database.version = s
               /\ backup[s] = [version |-> s, work |-> database.work]
            \/ database.version = s + 1

\* A step keeps what it found while it prepares the marker.
StepPrepared ==
  /\ phase \in {"backup", "copied", "journalled"} =>
       /\ ~database.active
       /\ database.version > First => journal[database.version - 1].phase = "complete"
  /\ phase \in {"copied", "journalled", "marked"} =>
       backup[source] = [version |-> source, work |-> database.work]
  /\ phase \in {"journalled", "marked", "committed"} => journal[source].phase = "backed_up"
  /\ phase = "configured" => config.schema = source + 1
  /\ phase # "blocked"
  /\ \A s \in Schemas : journal[s].phase # "blocked_active"

\* An open store was opened on a schema, never on the marker.
ClientsOnSchema == \A c \in Clients : client[c] = "open" => seen[c].schema # Marker

\* Inductive when all clients know the lock and none rewrites the launcher.
ResumeInvariant ==
  StepInvariant /\ JournalsInOrder /\ MarkerDescribed /\ StepPrepared /\ ClientsOnSchema

(* Liveness.                                                                 *)

\* Repeating the command upgrades the store, whatever interrupted it.
MigrationCompletes == <>(config.schema = VERSION /\ database.version = VERSION)
=============================================================================
