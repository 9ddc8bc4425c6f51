# Formal models of claude-control

`claude-control` lets Codex run Claude Code sessions as managed, detached
executions: a Python controller (`src/plugins/claude-control/scripts/claude_control`)
keeps its state in a private directory (one SQLite database, `config.json`, one
directory per run), starts a worker process per run, and builds tasks, queues,
messages, workflows, workspaces and compositions on top of those runs. This
directory holds TLA+ models of it, the TLC configurations that check them
and TLAPS proofs about them. Paths below are relative to the package above
unless they start with `src/`.

- [1. Inventory](#1-inventory)
- [2. Plan](#2-plan)
- [3. Modules](#3-modules)
- [4. Runs](#4-runs)
- [5. Fairness](#5-fairness)
- [6. Proofs](#6-proofs)
- [7. What the models leave out](#7-what-the-models-leave-out)
- [8. What the models found](#8-what-the-models-found)
- [9. How to run](#9-how-to-run)

## 1. Inventory

Nothing runs permanently. Every command of the CLI is a client process; what
persists is the store, the workers, and the processes they start. All of them
meet in SQLite transactions (`BEGIN IMMEDIATE`), a few lock files and signals.

| Component | State it keeps | Operations | Meets |
|---|---|---|---|
| Run lifecycle (`store.py`, `runner.py`, `platform/host.py`) | tables `sessions`, `runs`; `invocation.json`, `result.json`, `worker.lock` of each run; worker, wrapper and process group | start, followup, restart, resume an unstarted turn, stop, refresh, reconcile; claim, launch, watch, kill, commit; exec wrapper | everything below reserves runs; workspace commands share its capacity |
| Stream protocol (`protocol.py`) | none: a fold of the lines of one process | parse, validate | gives runs and harness turns their verdict |
| Tasks (`tasks.py`, `task_contracts.py`, `assignments.py`) | `tasks`, `task_revisions`, `task_runs`, `decisions` | create, submit, retry, revise, review, accept | reserves runs, supersedes queue entries, selects messages |
| Dependencies and queue (`scheduler.py`) | `queue_entries`, `dependency_sets`, `task_dependencies`, `execution_inputs` | enqueue, dequeue, tick, dispatch | reserves tasks' runs, launches workers |
| Messages (`messages.py`) | messages, cancellations, selections, bindings | enqueue, cancel, select, bind | selected by a revision, bound by a submission |
| Workflows (`workflow.py`, `workflow_contracts.py`) | `workflows`, `workflow_runs`, coordinator lock | create, advance, stop, run; guards on tasks, queue and messages | creates the tasks and turns of a worker and of a reviewer |
| Workspaces (`workspace.py`, `workspace_contracts.py`, `workspace_files.py`, `workspace_sandbox.py`) | `workspaces`, calls, requests, receipts, commands, exports, applications; `tree` and `frozen` directories | create, bind, advance, check, freeze, export, apply, stop, reconcile | runs of an editor, command slots, the source repository |
| Compositions (`composition.py`) | `compositions`, members, results, gates | create, advance through plan, editor and reviewer, accept guards, dispatch, stop | a workflow and two workspaces |
| Store configuration and migration (`migration.py`, `schema.py`, `store.py`) | `config.json`, `user_version`, journals, backups, `lifecycle.lock` | migrate, open, seed the launcher, recover the binary, configure limits | excludes every database operation |
| Observation ledger (`observation.py`, `schema.py`) | append-only events, one baseline | begin, append by triggers, replay, events | reads every table |
| Harness (`harness_cli.py`) | one `task.json` per task, task and admission locks, a clone | start, follow up, reconcile, check, approve, limits | starts Claude by itself |
| Operator terminals (`terminal_cli.py`, `platform/operator_leases.py`) | registry of requests and terminals, leases | start, attach, stop, shell | the lease keeps shell and apply apart |
| Windows supervisor (`windows_process.py`, Rust helper) | suspended child, job object, pipes of requests and replies | hello, create, resume, stop, abort | replaces wrapper and process group on Windows |
| Monitoring, command line, installer, viewer | none of the controller's | read, parse, format, stage files | |

What makes each of them correct, and what is hard about it:

- **Run lifecycle.** An execution never outlives its row's active status; one
  turn per session; capacity; a conversation is created once and resumed only
  when it exists; a cancelled run does not execute; an uncertain run stays in
  quarantine until somebody who can see its processes says they are gone; every
  run ends. Hard: worker, wrapper, Claude and clients interleave at every
  transaction; any of them may die; PIDs mean nothing across boots and PID
  namespaces; files may be lost.
- **Stream protocol.** Exactly the streams that can be trusted are validated.
  Hard: a process may be cut off after any line, and lines may be out of order.
- **Tasks.** A revision executes once, in exactly the context it was reviewed
  in. Hard: sessions are shared with other tasks and with plain follow-ups.
- **Dependencies and queue.** Inputs are accepted results of exact revisions; no
  cycles; no entry starves or is given up wrongly. Hard: everything is
  re-evaluated at admission while parents move.
- **Messages.** A message is delivered by one run, or again only when that run
  failed and stopped. Hard: cancellation and restarts race submission.
- **Workflows.** Exactly the planned turns within the call budget, and nobody
  else moves an owned task. Hard: coordinator crashes, stop during a turn.
- **Workspaces.** Operations are performed at most once, checks run only on their
  own slot, what is exported is what the last report was about, apply happens at
  most once. Hard: file system effects outside transactions; crash between intent
  and receipt; a stop that takes no lock.
- **Compositions.** Phases in order, with the gates' evidence, all of one commit,
  and the two acceptance boundaries hold. Hard: many transactions per phase,
  children that can be driven without their composition.
- **Migration.** The database and the configuration agree at every crash; the
  upgrade is exclusive, backed up and resumable. Hard: crash points between
  four durable files; clients from before the lock.
- **Observation.** The fold of the ledger equals the tables. Hard: triggers name
  their columns one by one, and pages are read without a transaction.
- **Harness.** One turn at a time; approval binds the exact evidence. Hard: the
  turn is started before it is recorded.
- **Terminals.** One terminal per request; apply excludes the shell. Hard: lost
  answers of background launches, leases of dead processes.
- **Windows supervisor.** A child runs only after it was recorded, and is killed
  with its owner. Hard: lost replies, events that overtake replies.

`PROJECT.json` lists every component with its status, and under "hazards" each
hard spot at its line with the properties that watch it.

## 2. Plan

The order follows what carries the most: the run lifecycle is under everything,
tasks and queue are the main client of it, migration guards the store itself,
workflows, workspaces and compositions are the automation on top, and the host
services stand beside them.

| # | Module | Composes | State |
|---|---|---|---|
| 1 | `RunLifecycle`, implementing `ExecutionSlots` and `RunLife` | | done, proved |
| 2 | `TaskQueue`, implementing `RunLife` | an abstraction of `RunLifecycle`'s runs | done, proved |
| 3 | `Migration` | clients of the store | done, proved |
| 4 | `Workflow`, implementing `BoundedReview` | two tasks, their entries and runs, as `TaskQueue` and `RunLifecycle` let them move | done, proved |
| 5 | `Messages` | revisions, runs and session restarts of one task | done, proved |
| 6 | `Workspace`, `SourceApply` | the coordinator's runs and commands; the source with its lease | done, proved |
| 7 | `Composition` | the states of a workflow and of two workspaces | done, proved |
| 8 | `Harness`, `Terminals` | | done, proved |
| 9 | `WindowsSupervisor` | client, pipes, helper and child | done, proved |
| 10 | `Observation`, `Stream` | the migrations and writers of the ledger; the three callers of the parser | done, proved |

What is left. Every safety property that a run checks is a theorem now. The native Windows path of
`runner.py` could become a second instance of `RunLifecycle` over `WindowsSupervisor`.

## 3. Modules

### RunLifecycle (`store.py`, `runner.py`, `platform/host.py`)

One action is one write transaction, one durable file write or one event of a
process. A row of `row` is a row of table `runs`; its booleans abstract the
columns `started`, `child_pid`, `result_sha`, `cancel_requested`, `reason`, and the
30 second age (`expired`). Rows are numbered by rowid and a conversation
(`backend`) by the run it was made for.

| Actor | Variables | Actions |
|---|---|---|
| client | `reconciling` (the lock a `reconcile` call holds between its checks and its update) | `Start`, `Followup`, `Restart`, `ResumeUnstarted` (`reserve_in`), `Spawn`, `SpawnFails` (`launch_worker`), `GetRun`, `Stop`, `Refresh`, `ReconcileCheck`, `ReconcileCommit`, `ConfigureLimits` |
| worker | `worker` (its point in `run_worker`), `reason`, `sigterm` (local variables) | `Claim` ... `CommitResult`, and the exception handler `HandlerCleans`/`HandlerQuarantines` after `WorkerFails` |
| wrapper and Claude | `group`: `wrapper` before the exec record, `armed` after it, `claude` after `execve`, `residue` when the leader is gone and a descendant is not, `dead` | `WrapperRecords`, `WrapperRefuses`, `WrapperAborts`, `Exec`, `ClaudeExits` |
| workspaces | `commands` | `BeginCommand`, `EndCommand` |
| environment | `boot`, `binary`, `invocation`, `result`, `outcome` | crashes of workers, reconcilers and groups, signals, the deadline, a lost result file, a new binary, a reboot |

What Claude's stream says (`protocol.py`) is the nondeterministic `outcome`. The
constant `Faults` selects the environment's faults for a run. `Refresh` is a
transaction of its own, as `Store.refresh` is, although most commands call it
first.

`ExecutionSlots` is what all this promises about execution: sessions hold slots
acquired within the limit in force, execute only while they hold one, and give it
back only when the execution is over. `SlotsImplemented` maps the sessions of
active rows to its holders and those with a live, recorded process group to its
executing ones.

`RunLife` is what it promises about turns: which may be reserved (`Begin`, `Resume`, `Repeat`), what
may become of each (`Moves`), and that nothing is taken back but a completed turn whose result is lost.
`LifeStatus` maps a row to it: an active run is pending, in doubt (`unknown`) or alive; an ended one
completed, never started (`_never_started`), never executed (`backend_unstarted`), divergent
(the session is blocked) or failed. `TaskQueue` implements the same specification, so what it assumes of runs
and what the lifecycle does with them meet there.

### TaskQueue (`tasks.py`, `scheduler.py`)

One action is one write transaction, except the dispatcher's: `tick` considers the
waiting entries one by one under savepoints, so `cursor` is its position and no
other writer moves while it is in its transaction (`Unlocked`). `Admissible` is the
conjunction of everything `submit_in`, `materialize` and `reserve_in` check;
`BlockedForGood` and `BlockedForNow` are the error codes inside and outside
`TERMINAL_BLOCKS`. A revision records the context it expects (`version`: parent
run, conversation, acknowledgement); `pinned` and `edges` are its fixed dependencies.
`Reaches` says what the frontier loop of `_check_graph` finds: the node is in every set that
holds the start and is closed under dependencies.

The life of a run is abstracted to `RunStep`: `unstarted` is what `_never_started`
recognises, `unexecuted` what only `backend_unstarted` does, `failed` and `divergent` have
executed. `ForeignTurn` is a plain follow-up or restart of a session that a task
also uses; the follow-up needs a turn that started (`resume_source` in `reserve_in`). `LifeImplemented`
maps all this to `RunLife`.

A tick that reaches its deadline commits what it has (`TickEnd` with the activity
`deadline`). Entries that are enqueued after the dispatcher read its candidates are
later ones, so ending the tick early covers them.

### Migration (`migration.py`, `store.py`)

`migrate` is a process with one action per durable write (backup, journal, marker,
DDL transaction, configuration, journal) and an interruption between any two; it
holds the lifecycle lock unless `phase` is `idle`. Its loop head first completes a
journal left open, then starts or resumes a step. Clients (`Store.__init__`,
`Store.db`, `configure_limits`, `_seed_legacy_launcher`, `_recover_missing_binary`) hold
the lock within one action, but read `config.json` for the first time without it
(`ReadConfig`). Of `config.json` there are the schema, `max_parallel`, `max_queued`, the launcher and the
binary; the other two limits behave like the first. `configure_limits` accepts `max_queued` on
every schema, and the step to schema 5 then puts its default in its place (`WriteConfig`): the one
setting that an upgrade changes, which `SettingsKept` says exactly. `LegacyWrite` is the schema-3 client of the comment in `Store.db` that
predates the lock. `Marker` stands for `"migrating"`, `work` counts what transactions
added to the tables, and a torn backup is one without a version.

### Workflow (`workflow.py`, with `tasks.py` and `scheduler.py`)

One workflow, whose row is `policy` and `flow`. `step` and `receipt` are the tables
`workflow_steps` and `workflow_runs`, indexed by phase and round; `task` holds each
member's current revision, the run and the parent it expects, and the latest turn of
its session. `create` is the initial state.

`Advance` is one transaction of `advance`: either `_advance_in` goes on (`Prepare`) or
something it reads makes it raise, and `_halt` hands the workflow to Codex. `Obstructed`
collects what raises before anything is prepared; `Proceed` adds what rolls back to the
savepoint. `Admit` is the part of a `tick` that reserves this workflow's run, by the workflow's
own dispatch or by any other; `Refuse` is the same transaction rolled back. `Stop`,
`StopRun` and `FinishStop` are the transactions of `stop`. Several coordinators may run: none
keeps anything between two transactions, so a crash of one is a pause here.

A member's run moves as `RunLifecycle` lets it (`RunStep`, quarantine, a lost result);
`alive` is its worker, which outlives its commit for a moment. Since `mutation_guard` refuses
every public change of an owned task, its revision moves only in `Prepare`; but
`followup` and `restart` take sessions by name and do not look at owners
(`ForeignTurn`), and Codex may accept at any time. `clock` is the wall clock against the
dispatch window. A report is reduced to what the next step is decided by.

`BoundedReview` is the promise of `src/docs/workflows.md`: proposals and reviews take turns
within both budgets, a proposal only when its review can be paid for, none after the
end of automation.

### Messages (`messages.py`)

Messages of one task: its revisions, their selections, its runs and its session's
conversation. `Enqueue`, `Cancel`, `Revise` (which selects), `Submit` and `Retry` (which bind in the
transaction that reserves the run) are one transaction each; `RestartSession` and
`RunMoves` are what happens between them, a completed run whose result is found damaged included. `Target` is the check that
a message still belongs to the session's conversation, and `StoppedFailure` the
evidence a redelivery needs.

### Workspace (`workspace.py`, `workspace_contracts.py`, `workspace_files.py`, `workspace_sandbox.py`)

One workspace. `coord` is the process that holds `coordinator.lock` and where it is
between its transactions, `launcher` the process of a check. The operations of a report
are recorded together (`Request`) before the first is begun (`Begin`), and each gets a receipt
(`Record`) after its effect; `performed` counts the effects. A batch that a crash
interrupted is not resumed: the next coordinator hands the workspace to Codex (`Enter`). A check takes a slot (`command`), forks a launcher, which records
itself before it executes, and gives the slot back with the receipt; `Reconcile` frees it after
a crash. `Freeze`, verification and `RecordExport` are separate steps, and `Stop`, `FinishStop` and
`Reconcile` are other processes without the coordinator's lock where the code takes none. A report is
reduced to its kind. `Raise` is what a pass finds wrong in what it reads (`Obstructed`);
`Obstacle` is a file that cannot be read any more, which may happen and need not. The environment damages
the tree (`Tamper`), fills the capacity (`LoadChanges`) and kills coordinators. That somebody else
takes a turn in the workspace's session (`session_busy`) is not modelled: it makes a pass wait as a full
host does, or diverges the context.

### SourceApply (`workspace.py`, `terminal_cli.py`, `platform/operator_leases.py`)

`workspace apply` of a finished workspace against the source repository: appliers
with operation ids, the project's lease, `git apply` as a child that may outlive its
applier, the operator's shell, and a user who edits in the shell or in an editor. A
lease is released with its process even if a child of it lives on.

### Composition (`composition.py`)

One composition with its plan's workflow and two workspaces, which move by
themselves as `Workflow` and `Workspace` let them, and may be run, accepted and stopped
without their composition. `creator` are two processes with the same create request; `ledger` is
what `task_operations` keeps of the pin and the gates. `coord` holds the lock of run, dispatch or
stop and may die between any two writes: `Dies`. A dispatcher of several compositions takes its
snapshot, then reads each and calls run (`DispatchReads`, `DispatchCalls`); one it finds busy is out
until the next dispatch. `_finish_stop` asks each child for its status, which verifies the frozen result of
a finished one and raises when it is damaged (`composition.py:1407`, `workspace.py:813`): `StopRaises` ends
that attempt, and every later one, so `CompositionSettles` excepts such a child (`Damaged`). `Fails` is what `_halt` makes of an error. `AcceptPlan` and `AcceptEditor` are the
decisions of Codex under the accept guards. A composition whose present child was stopped
directly stays active, which `CompositionSettles` excludes by name (`ChildWasStopped`). A halted
composition that is run again may create and bind its editor and yet not advance.
A repeated create with changed role defaults or another cached scout is refused
(`Refuse`).

### Harness (`harness_cli.py`)

`task` is `task.json` and `holder` the command under `task.lock`. `silent` and `working` are the
turns whose Claude lives before and after it got its prompt: a Claude without its
prompt ends when its command dies, one with it works on. `Dies` takes a command away at any of its
points. `produced` and `passed` are histories, against which an approval is measured.
`_process_alive` looks into the `/proc` of the command that asks and compares no PID namespace, so
`Reconcile` is made from inside Claude's namespace or from outside of it, where nothing is seen to
live; `astray` remembers the tasks given up from outside while their Claude lived. `TurnsHeld` is about
all others; section 8 has what happens to these.

### Terminals (`terminal_cli.py`)

`file` is the request written before the launch, `agent` the runtime's list, `descriptor` what the
controller keeps. A client that times out looks for the agent of the request's unique
name and adopts it; an agent may be hidden from the list for a while, and others create
agents too. That the agent a launch answers with is the one it created is taken from the runtime
(`terminal_cli.py:443-450`).

### WindowsSupervisor (`windows_process.py`, `windows_wsl_sandbox.py`, Rust helper)

The client, two pipes (`requests`, `frames`) and the helper. Requests are answered in order, the
exit event may come between (`DeferEvent` keeps it in `pending`). `kind` tells the two callers apart,
whose errors are mapped differently (`Fails`). When the pipes close or the helper dies,
the job and with it the child ends.

### Observation (`observation.py`, `schema.py`)

The ledger from the two migrations that begin it on. A transaction is one `Statement` upon
another, each of which fires the triggers, and a `Commit`: `Watched` are the columns of
the update trigger's condition. One node has several projected columns (a workflow)
and one has one (a run); one edge stands for the nine kinds. A rolled-back transaction
takes its events along and is no step. `reader` is one replay or one caller of
`events`: it selects a page (`ReadPage`, `FollowPage`), folds it row by row (`FoldRow`) and goes on or ends
(`EndPage`), with the writers in between. `past` remembers what was projected at each cursor.

### Stream (`protocol.py`)

`parse_stream` line by line (one event is one line of `splitlines`, which also splits at U+2028,
U+2029 and U+0085) for its three callers (a run, a run with a JSON schema, the
harness with native tools). A line is reduced to what the verdict depends on and
has one oddity at most. `Trustworthy` says of the whole stream, without the parser's variables, what a
caller may rely on.

### Model-checking modules

`MCRunLifecycle`, `MCTaskQueue`, `MCWorkflow`, `MCMigration`, `MCWorkspace`, `MCComposition` and `MCHost` give
TLC its model values. Three of them join instances, so that one run answers what
would otherwise take several: `MCTaskQueue` and `MCMigration` have a variable `scenario`, chosen
initially, that restricts the steps to a smaller instance; `MCRunLifecycle` explores the union of
two kinds of behaviours (`CompetingOrAlone`). `MCHost` has the variables of six components
that share none, and lets one of them run while the others have not begun: a
property that holds of every such behaviour holds of each component, and mixing
components that cannot disturb each other would only multiply states. `MCMigration`'s scenario
"observed" runs `Observation` alone.

## 4. Runs

All runs are exhaustive within their bounds. `CHECK_DEADLOCK FALSE` is set where every
bound can be used up: then nothing is left to do, and a store nobody calls may rest.

| Run | What it shows | Bounds | States |
|---|---|---|---|
| `RunFaults` | two turns of a session under every fault of one boot: `NoEscapedExecution`, `CompletedIsEvidenced`, `EveryRunSettles` | 1 session, 2 runs, 1 slot | 182 k |
| `RunCapacity` | two sessions and a command compete while the limit moves, or one session meets crashes, leftovers, a new binary and a reboot, seen from two PID namespaces: `SlotsImplemented`, `QuarantineHolds` | 2 sessions, 2 runs, limit 1..2, 1 command, 2 boots, 2 binaries, 2 namespaces | 1129 k |
| `RunResume` | a violation, see section 8 | 3 runs, no faults | |
| `QueueTasks` | two tasks that share a session with turns that bypass them; or a dependency and its child while both tasks move, are submitted by hand and dequeued: `RevisionExecutesOnce`, `ContextExact`, `ConversationMatches`, `InputsAccepted`, `QueueConsistent`, `GivenUpForGood` | 2 tasks, 2 revisions, 3 runs, or 2 runs and 2 entries | 813 k |
| `QueueOrder` | dependencies declared in any order and liveness of the queue: `DependenciesAcyclic`, `EntriesServed` | 3 tasks, 3 entries, 1 slot | 34 k |
| `WorkflowTurns` | a workflow under acceptance, stop, foreign turns, clock changes, refusals, lost results and quarantine: `TurnsAnswerEachOther`, `ApprovalExact`, `WorkflowConcludes` | 1 revision, 3 or 6 calls | 169 k |
| `MigrationSteps` | three steps with present clients, two with clients old and new, interrupted and repeated: `VersionsAgree`, `CompletesAtPresent`; the ledger they begin: `ReplayExact` | schemas 3..6, 1 client, 1 limit (`max_queued`) that changes, 2 transactions, 2 interruptions; 1 workflow, 1 run, 1 operation, 5 events, pages of 2 | 703 k |
| `MigrationResume` | a violation, see section 8 | schemas 3..4, 2 clients | |
| `WorkspaceLoop` | calls, operations and checks, crashes, stop, tampering, a full host: `LimitHolds`, `OperationsOnce`, `CallsInformed`, `ExportExact`, `StoppedIsQuiet`, `WorkspaceConcludes` | 3 calls, 2 actions, 2 contents, 1 slot | 84 k |
| `CompositionPhases` | a composition from racing creates to its verdict, or to its stop: `SourcePinned`, `PhasesEarned`, `AcceptanceVetted`, `StopComplete`, `CompositionSettles` | 2 creators, 2 commits, 2 runs of the plan, 1 crash | 663 k |
| `CompositionVeto` | a violation, see section 8 | the same | |
| `HostServices` | `TurnsHeld`, `ApprovedExact` (harness); `AppliedOnce`, `LeaseProtects` (apply); `TerminalsOwned`; `ReportHolds`, `SupervisionEnds` (Windows); `DeliveredOnce`, `DeliveryExact` (messages); `VerdictExact` (stream) | 2 harness tasks with 2 turns, 1 commit; 2 appliers, 2 edits; 1 terminal client, 2 requests, 2 agents; 1 child; 2 messages, 3 revisions, 2 runs; 3 lines | 381 k |

Why the bounds suffice. What the lifecycle protects is between a turn and its
successor in a session, or between two sessions and a slot: two rows show it. Resuming
the wrong conversation takes a third turn (create, restart, resume). Two namespaces
and two boots are the smallest with a foreign and an old one. For tasks, two of
them share a session or form a dependency, and a second revision is needed for
anything to be stale; two runs are a parent and its child, three a parent, an attempt
and a turn in between. The graph needs three nodes for an indirect cycle, the order
three entries to be skipped over. A migration needs two steps for a stale journal of
an earlier one and three for a journal that is neither the present nor the last. One
revision takes a workflow through every kind of step; three calls end it by the call
budget, six by the revision budget.

In a workspace, an operation is stale or repeated relative to the one before it in
its call, and a call relative to the call before: two operations and three calls hold a
first, a middle and a last of each, and one slot makes every admission a conflict. A
composition has one of each child; a plan revised once is the smallest that leaves an
accepted plan behind, and one crash at any point is followed by a coordinator that
runs to the end. Two creators and two commits are the smallest race for the pin. In
the harness and the terminals a lost command meets its successor, so two turns or
requests suffice; that two terminal clients race for the lock, and approvals over several commits, are
covered by the theorems `TerminalsStayOwned` and `HarnessApprovedExact` alone. Two appliers contend for one application. A message delivered again
needs two runs. For the ledger, five events are a baseline, a reservation of two
and an end of two, more than two pages. Every stream of three lines holds what one
can have before, between and after an assistant and a result.

The theorems of section 6 hold for every value of these constants.

Every module has a type invariant `TypeOK`, which its theorems rest on. They are not listed among
the properties of a run because they say nothing about the code.

Each property is also checked against a mutant of a definition (`PROJECT.json`,
"mutants"): the operators marked `Mutant` stand beside what they change and are not
part of the specifications.

## 5. Fairness

- `RunLifecycle!FairSpec`: a live worker is scheduled (weak fairness of `WorkerStep`),
  time passes, and in every PID namespace some client calls the controller again and
  again, each call beginning with `refresh`. Nothing is assumed of Claude, of its
  group, of whoever created the run, or of operators.
- `TaskQueue!FairSpec`: somebody dispatches again and again (weak fairness of the
  dispatcher's steps, as `dispatch` loops over `tick`); pending and live runs end
  (strong fairness, for their writes wait for the lock between two ticks, as SQLite's
  10 second busy timeout does). That they end is what `EveryRunSettles` shows, with the turn
  timeout as the reason that a live one does. Runs in quarantine are not assumed to be
  reconciled: `EntriesServed` excludes them.
- `Migration!FairSpec`: a running migration goes on, the operator repeats the command
  after an interruption, as `src/docs/tasks.md` asks, and active runs end.
- `Workflow!FairSpec`: `workflow run` is called while the workflow is active or stopping
  (its loop calls `advance`, `tick` and `_finish_stop`), the runs that fill the capacity end,
  and so do its own. Quarantine needs an operator: `WorkflowConcludes` excludes it for
  stopping, while an active workflow with such a run is handed to Codex.
- `Workspace!FairSpec`: `workspace run` is called again and again while the workspace is
  active or operating, `status` while it is stopping, and `reconcile` when a check is in doubt; a
  coordinator that is not killed goes on; launchers end by their timeout, runs as
  `EveryRunSettles` shows. Strong fairness is used where another process may take the lock or the
  slot in between. No fault is assumed to happen, neither `Obstacle` nor any other. Of the executions of
  others nothing is assumed either: the code tries a pass that is refused for capacity again without
  end (`workspace.py:733-736`), so others can starve a workspace, and `WorkspaceConcludes` promises
  the end of an active one only where they leave room for good (`RoomAtLast`). A stop takes
  no slot and ends in any case.
- `Composition!FairSpec`: `composition run` loops while the composition is active or stopping, and
  children end by themselves, which `WorkflowConcludes` and `WorkspaceConcludes` show of
  children that are run (and not starved). Crashes are bounded (`MaxCrashes`), since a coordinator that always
  dies completes nothing.
- `WindowsSupervisor!FairSpec`, repeated in `MCHost`: client and helper read their pipes, time limits
  run out (`SendStop`), and a helper whose pipes are closed ends. Nothing is assumed of the child.

## 6. Proofs

`RunLifecycleProofs` (for all sessions, namespaces, bounds and faults):
`TypeCorrect`; `LifecycleCorrect`, the inductive invariant; and from it
`ExecutionContained`, `SessionExclusive`, `CreationUnique`, `TerminalRunsFinal`,
`QuarantineSound`, `CancelEffective`, `CapacityKept`, `CompletionEvidenced` and the refinements
`SlotsRefined` and `LifeRefined`.

`LifecycleInvariant` is needed because none of the safety properties is inductive.
That an execution is contained depends on what the row says at each point of the
worker (`WorkersMatchRows`), on an execution being recorded in the present boot
(`ExecutionsRecorded`), and on a reconcile call's observation staying true until its
update (`ReconcilersRight`). That a session is exclusive depends on earlier turns
having ended (`EarlierTurnsEnded`); that a conversation is created once on its owner
and order (`BackendsOwned`, `CreationsFirst`). The refinement adds a counting argument
for the slots: one step adds at most one active row, and each holder has one.

`MigrationProofs`: `StepsCorrect` (types and `StepInvariant`: what migrate wrote before
each of its points is still there) gives `VersionsAgreed`, `UpgradesExclusive` and
`SettingsSurvive` (which has the exception of `max_queued` at schema 5) without any assumption on the clients. `ResumptionCorrect` adds that
journals are opened and completed one after the other and that the marker is described
by one of them; it gives `AlwaysResumable` and `BackupsExact`. These assume
`Activities = {}`: no client older than the lock writes behind the backup, and none
rewrites the launcher behind the marker. The run `MigrationResume` shows what happens
otherwise.

`WorkflowProofs`: `FlowCorrect` is the inductive invariant, and gives `TypeCorrect`,
`TurnsAnswered`, `QueueOwned`, `StopEstablished`, `ApprovalsExact` and the refinement
`BoundedReviewRefined`, for all budgets and whatever happens besides. The argument
numbers the steps (`Turn`): receipts are exactly the first `nrun` steps, the present step
is the last of them or the next (`ReceiptsCounted`), each run is its own step's with the
run before it as its source (`SourcesPinned`, `RunsOfSteps`), and every run before the
present step has ended with the report the next step needed (`ReportsRight`), which no
later event takes away. An approval is then about the run just before the review,
because that is what the worker's task still has as its run.

`CompletionEvidenced` needs besides that a stream reports success only of a recorded execution and
that `result.json` is written before the worker can commit (`EvidenceInvariant`).

`LifeRefined` adds `LifeKnown`: nothing has started before the launch, a recorded result is the last
word of a worker that is gone with its group, and a divergence is recorded in the session by the same
transaction. Each step then moves at most the run it is about (`OnlyAdvances`), except `Refresh`, which
may end many, and a reservation, which begins one and may find the last one damaged.

`TaskQueueProofs`: `QueueInvariantHolds` gives the six invariants of `QueueTasks`, and
`DependenciesStayAcyclic` adds the one of `QueueOrder`. The properties are parts of the invariant,
which holds together by the numbering: a conversation has the number of its first run, a
session is in the conversation of its latest turn, and all turns before that one are over
(`SessionsPlaced`, `TurnsSettled`). With that, what `Admissible` compares (the latest turn, the
recorded conversation, what never started) decides about all earlier turns. What an entry was
given up for cannot be undone: a context that moved on and a parent that was revised
(`GivenUpWithCause`). That no cycle is closed is shown of sets: a set of revisions in which each one
depends on another would contain what the new edges start from, and what they start from is
reached. `QueueLifeRefined` needs nothing beyond `QueueInvariant`; `EveryMoveReckoned` adds that
`TaskQueue` allows every move of `RunLife` (with the activities `quarantine` and `lost_result`), so that
none the lifecycle makes is missing from what is proved of the queue; what `Refresh` ends at
once, it ends one by one.

`WorkspaceProofs`: `WorkspaceInvariantHolds` is inductive, with the operations of a report counted at
each point of the coordinator: effects and receipts of the last call differ by the one operation
that is under way, which only the coordinator that began it records (`CoordinatorKnows`), and no
report that is answered asked for more (`CallsChained`, `RevisionKnown`). A slot belongs to the open
command, not to its coordinator, so whoever executes still has it after a crash (`SlotsHeld`,
`ChecksKnown`). What is exported is the tree of the last report because the coordinator compared it
and nothing but an outsider writes before the export is recorded (`TreesKnown`, `CoordinatorKnows`).

`CompositionProofs`: `CompositionInvariantHolds` relates the phase, the members, the results and the
ledger (`PhaseKnown`, `GateKnown`), what the coordinator carries between two writes and what it may
still find when it died there (`CoordinatorKnows`), what the creators carry towards the pin
(`CreatorsKnow`), and how far a stop has come with each child (`StopKnown`). `SourceStaysPinned`,
`PhasesAreEarned`, `AcceptanceIsVetted` and `StopIsComplete` are parts of it.

`HostProofs`: for each of the six components that `MCHost` joins, an inductive invariant and from it
the properties of `HostServices`, of the component's own specification; then
`ComponentsImplemented`, that every behaviour of `HostSpec` is one of each component, and
`HostPromises`, that it has all nine. `HarnessTurnsHeld` leaves out the tasks in `astray`. `StreamVerdictExact` needs no induction over the lines
as data: each value that `parse_stream` collects is described by quantifiers over the lines read so
far (`ResultsCounted`, `ModelsCollected`, `SessionsCollected`, `ToolsCounted`, `ErrorsNoted`), one line keeps
the description, and the verdict follows from it. The invariants of the supervisor say of every
request and reply that lies in a pipe what is true of the child whenever it arrives (`PipesTrue`).
The theorems need no bounds on turns, commits, lines and messages.

`ObservationProofs`: `ObservationInvariantHolds` gives `ReplayStaysExact`, for any workflows, runs and
operations and any size of a page. No induction over the ledger is needed, because `past` remembers
what was projected when each event was appended: every event `Leads` from what was there before
it to what was there after it (`HistoryLed`), a page is a piece of the ledger, which only grows
(`PageKnown`), and the view agrees with `past` at the cursor (`ViewKnown`); one row folded keeps that,
whatever was committed since the page was selected. A trigger turns the set of changes of a statement into
a sequence (`SetToSeq`), of which the proof needs only that a statement changes at most one row, edge or
telemetry; the migration to schema 15 appends one event for each operation, which is followed one by one.
`ScenariosReplayExactly` carries the result over to the specification of the run `MigrationSteps`.

Each inductive invariant was checked on the instance of its component's run before it was
proved. A property that a theorem establishes for all constants is not always checked again
by a run: `OneTurnPerSession`, `ConversationCreatedOnce`, `TerminalIsFinal`,
`CancelPreventsExecution`, `CapacityRespected`, `LifecycleInvariant` and `LifeImplemented` of
`RunLifecycle`, `LifeImplemented` of `TaskQueue`, `EntriesOfPresentStep`, `StoppedIsQuiet` and `BoundsRespected` of `Workflow`,
`UpgradeExclusive`, `SettingsKept`, `BackupExact`, `StepInvariant` and `ResumeInvariant` of
`Migration`, and the type invariants.

Only model-checked: all liveness properties (`EveryRunSettles`, `EntriesServed`,
`CompletesAtPresent`, `WorkflowConcludes`, `WorkspaceConcludes`, `CompositionSettles`,
`SupervisionEnds`: liveness and ENABLED are out of the prover's reach). No module declares a
RECURSIVE operator.

The only assumptions are the named ones on the constants, which TLC evaluates in every
run: `SessionAssumption`, `BoundAssumption`, `FaultAssumption`, `QueueAssumption`,
`MigrationAssumption`, `WorkflowAssumption`, `WorkspaceAssumption`, `CompositionAssumption` and
`SourceApplyAssumption` where the module declares them; those of `Harness`, `Terminals`,
`WindowsSupervisor`, `Messages` and `Stream` as `HostAssumption` of `MCHost`, and that of
`Observation` as `LedgerAssumption` of `MCMigration`, which only instantiate them.

## 7. What the models leave out

- Windows, in the run lifecycle: the caller of the helper is in `WindowsSupervisor`, which
  knows of its run no more than a row that others may move. The frames, the Win32
  calls and console control are not modelled.
- A descendant that leaves the process group (`setsid`): the code does not look for
  it, and `residue` means members of the group only.
- PID reuse: identities carry the start time, and the models take them as unique.
- The namespace of a worker is chosen at `Claim`; that a client and its worker may be
  in different ones is covered, a namespace that ends is a crash of all its processes.
- Session names, request ids and operation ids: a repeated request returns the first
  answer, a stutter here, but for create of a composition, apply and terminals, where the
  repetition is the point. Effort preflight, prompt sizes and snapshot errors are
  further refusals of an admission.
- Advisory reviews (decisions of kind `review`) are read by nothing modelled.
- In `TaskQueue`, the guards by which workflows and workspaces own tasks (`Workflow`
  and `Workspace` have their own), and selected messages (`Messages` has its own revisions).
- In `Workflow`, `Workspace` and `Composition`, texts: envelope, report, instructions, digests. A
  digest that no longer fits is a lost result, a damaged tree or a refusal.
- In `Workspace`, the path selectors of a policy, modes, the formats of snapshot and diff,
  bubblewrap's arguments and the file transfer to WSL.
- In `Migration`, the DDL itself, damage to a backup by others (the code refuses and
  waits for its return), the role defaults and the two message limits of `config.json`, and
  `check_host_and_principal`.
- In `Observation`, rows that others corrupted, which `_decode` refuses, and the exporters,
  which format what was read. In `Stream`, the command line, the size bound and the texts.
- In `Harness` and `Terminals`, catalogs, transcripts, init and doctor, which only read or
  write what nothing else depends on.
- Not modelled at all: monitoring and local detail (`monitor.py`, `local_detail.py`,
  `provider_usage.py`, `orchestration.py`, `evaluation.py`) project tables and parse
  provider logs, and change no state; the command line passes arguments to the
  handlers modelled; the installer stages files; the viewer calls the command line and
  draws.

Hazards that no property of a run covers: that a follow-up does not rely on a completed run whose
result was damaged since (`store.py:608`) is a guard of the follow-up's own transaction;
`CompletedIsEvidenced` asks only that the result was written. That a worker turn leaves room for its
review in the call budget (`workflow.py:514`) is the theorem `BoundedReviewRefined`;
`TurnsAnswerEachOther` does not see the budget.

Things seen while reading that no property covers: a `max_queued` that was configured before schema 5
is overwritten by that step (`migration.py:222`); the binary's identity is checked
before the wrapper executes it; a divergence is forgotten when the worker crashes
between reading the stream and its commit; a started run without `invocation.json` can
only be followed by a restart; `reserve_in` leaves the run's directory behind when its
transaction is rolled back; an entry blocked by `context_uncertain` waits until its
task is revised. The time of a workflow's first reservation is projected but its
`UPDATE` (`workflow.py:234`) fires no trigger, so a replay has it only with the
workflow's next event, while the header of `observation.py` promises the exact state at
each event; `ReplayExact` allows just this lag (`Agrees`). Operations that ran at schema 14 have only their
final state in the ledger, summarised by the step to 15, though the history may be
called "complete".

## 8. What the models found

**A follow-up resumes a conversation nobody created** (`RunResume`,
`ResumeContinuesConversation`; `store.py:848`). A session executes a turn; a restart gives
it a fresh conversation, and that run is stopped before it starts. An acknowledged
follow-up then looks for the latest executed run of the session, not of the
conversation, finds the old one, and reserves `--resume` of the fresh conversation.
The code's own message ("Cannot identify the Claude binary used by this backend
conversation.") and `src/docs/tasks.md:175-177` mean the conversation; tasks take the right
path (`backend_unstarted`), which `ConversationMatches` checks.

**An interrupted migration that cannot be resumed** (`MigrationResume`, `Resumable`;
`store.py:412`). Launcher seeding and binary recovery rewrite `config.json` under the
lifecycle lock without looking at its schema. A client that read the file before the
migration took the lock, and gets the lock after the migration died behind its marker,
changes the marked file, and no journal matches it any more. It takes a client that
should have been stopped, which is what the lock is for.

**An editor accepted against its reviewer** (`CompositionVeto`, `VetoHolds`;
`composition.py:1123`). `_materialize_editor` creates and binds the editor's workspace before it
records it as a member. If the coordinator dies in between, the accept guard does not
know the workspace as a composition's, and it can be run and its result accepted with
the workspace's own commands. The resumed composition adopts it, has it reviewed, and
reports "accepted" whatever the reviewer says, while `src/docs/compositions.md:211-212`
promises that "`revise` and `blocked` veto editor acceptance". `AcceptanceVetted` shows that
the guard holds for an editor that is a member.

**A live Claude that reconcile takes for gone** (no run of its own; `harness_cli.py:467`). `_process_alive`
compares the pid, the start time and the boot with the `/proc` of the command that asks
(`platform/host.py:53-57`). The pid means nothing there when that command is in another PID
namespace of the same boot, and the run lifecycle compares namespaces for just this reason
(`store.py:652`). When the command of a turn died and its Claude works on, such a reconcile makes
the turn `unknown`, while `src/README.md:484-486` says that reconcile refuses as long as the recorded
process is actually alive. From then on an acknowledged follow-up starts a second Claude in the
same clone. The model has the step (`Reconcile(t, FALSE)`); `TurnsHeld` excepts the tasks it was taken
for (`astray`), and TLC finds the behaviour when the exception is removed (`Tasks` for `Tasks \ astray`).
What holds without exception is `ApprovedExact`: whoever writes such a clone, what is approved is what
a turn left and a check saw. Inside one namespace `TurnsHeld` has no exception.

## 9. How to run

```
tlc -workers 2 -config RunFaults.cfg MCRunLifecycle.tla      # RunCapacity, RunResume
tlc -workers 2 -config QueueTasks.cfg MCTaskQueue.tla        # QueueOrder
tlc -workers 2 -config WorkflowTurns.cfg MCWorkflow.tla
tlc -workers 2 -config MigrationSteps.cfg MCMigration.tla
tlc -workers 2 -config MigrationResume.cfg Migration.tla
tlc -workers 2 -config WorkspaceLoop.cfg MCWorkspace.tla
tlc -workers 2 -config CompositionPhases.cfg MCComposition.tla   # CompositionVeto
tlc -workers 2 -config HostServices.cfg MCHost.tla
tlapm RunLifecycleProofs.tla
tlapm MigrationProofs.tla
tlapm WorkflowProofs.tla
tlapm TaskQueueProofs.tla
tlapm WorkspaceProofs.tla
tlapm CompositionProofs.tla
tlapm ObservationProofs.tla
tlapm HostProofs.tla            # the longest, about six minutes
```

Every configuration names its specification, constants and properties; the `MC`
modules only add model values, symmetry and the scenarios of section 3.
