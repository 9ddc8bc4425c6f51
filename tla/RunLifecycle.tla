--------------------------- MODULE RunLifecycle ---------------------------
(***************************************************************************)
(* The life of a managed run: the rows of the tables "runs" and "sessions" *)
(* (store.py), the detached worker that owns a run, the exec wrapper and   *)
(* the Claude process group it starts (runner.py, POSIX path), and the     *)
(* client calls that reserve, stop, refresh and reconcile runs.            *)
(*                                                                         *)
(* One action is one BEGIN IMMEDIATE transaction, one durable file write   *)
(* or one process event: everything two processes can interleave.  Runs    *)
(* are numbered by rowid; a client call made of several transactions is    *)
(* the sequence of its actions, with any other action between them.        *)
(***************************************************************************)
EXTENDS Integers, FiniteSets

CONSTANTS
  Sessions,     \* managed sessions that may be created
  NoSession,    \* the session of a row that does not exist yet
  Namespaces,   \* PID namespaces in which workers and clients run
  MaxRuns,      \* bound: rows ever inserted in "runs"
  MaxLimit,     \* bound: largest max_parallel an operator configures
  MaxCommands,  \* bound: workspace commands open at once
  MaxBoot,      \* bound: host boots
  MaxBinary,    \* bound: identities the configured Claude binary takes
  Faults        \* which faults the environment may inject

FaultKinds == {"crash", "error", "signal", "residue", "lost_result"}

ASSUME SessionAssumption == NoSession \notin Sessions
ASSUME BoundAssumption ==
  /\ MaxRuns \in Nat /\ MaxLimit \in Nat \ {0} /\ MaxCommands \in Nat
  /\ MaxBoot \in Nat \ {0} /\ MaxBinary \in Nat \ {0}
ASSUME FaultAssumption == Faults \subseteq FaultKinds

Runs == 1..MaxRuns

ACTIVE   == {"pending", "claimed", "launching", "running", "stopping", "unknown"}
TERMINAL == {"completed", "failed", "cancelled", "launch_failed", "interrupted"}
Statuses == ACTIVE \union TERMINAL \union {"absent"}

\* Where the worker of a run is in run_worker.
WorkerPoints == {"none", "spawned", "claimed", "launched", "opening", "watching",
                 "killing", "settling", "writing", "failing", "gone"}
\* What is alive of the process group the worker opened.
GroupStates == {"none", "wrapper", "armed", "claude", "residue", "dead"}
Outcomes == {"none", "success", "error", "divergent"}
Reasons  == {"none", "cancel", "limit", "refused"}

VARIABLES
  nrun,        \* rows inserted so far
  row,         \* table "runs"
  backend,     \* sessions.backend_id; 0 while the session does not exist
  blocked,     \* sessions.blocked
  limit,       \* config.json max_parallel
  commands,    \* workspace_commands without a receipt
  boot,        \* boot_id of the host
  binary,      \* identity of the configured Claude binary
  worker,      \* control point of each run's worker
  reason,      \* the worker's local variable "reason"
  sigterm,     \* the worker's local flag "stopping"
  group,       \* the run's process group
  outcome,     \* what the stream of an ended Claude says
  invocation,  \* binary identity in invocation.json, 0 without the file
  result,      \* the file result.json
  reconciling  \* runs whose worker.lock a reconcile call holds

tables  == <<nrun, row, backend, blocked>>
host    == <<limit, commands, boot, binary>>
procs   == <<worker, reason, sigterm, group, outcome>>
files   == <<invocation, result>>
rest    == <<nrun, backend, blocked, host, files, reconciling>>
vars    == <<nrun, row, backend, blocked, limit, commands, boot, binary, worker,
             reason, sigterm, group, outcome, invocation, result, reconciling>>

RowType == [status: Statuses, session: Sessions \union {NoSession},
            backend: 0..MaxRuns, resume: BOOLEAN, cancel: BOOLEAN,
            started: BOOLEAN, child: BOOLEAN, refused: BOOLEAN, sha: BOOLEAN,
            expired: BOOLEAN, ns: Namespaces \union {"none"}, boot: 0..MaxBoot]

FreshRow(s, b, resume) ==
  [status |-> "pending", session |-> s, backend |-> b, resume |-> resume,
   cancel |-> FALSE, started |-> FALSE, child |-> FALSE, refused |-> FALSE,
   sha |-> FALSE, expired |-> FALSE, ns |-> "none", boot |-> 0]

NoRow == [FreshRow(NoSession, 0, FALSE) EXCEPT !.status = "absent"]

TypeOK ==
  /\ nrun \in 0..MaxRuns
  /\ row \in [Runs -> RowType]
  /\ backend \in [Sessions -> 0..MaxRuns]
  /\ blocked \in [Sessions -> BOOLEAN]
  /\ limit \in 1..MaxLimit
  /\ commands \in 0..MaxCommands
  /\ boot \in 1..MaxBoot
  /\ binary \in 1..MaxBinary
  /\ worker \in [Runs -> WorkerPoints]
  /\ reason \in [Runs -> Reasons]
  /\ sigterm \in [Runs -> BOOLEAN]
  /\ group \in [Runs -> GroupStates]
  /\ outcome \in [Runs -> Outcomes]
  /\ invocation \in [Runs -> 0..MaxBinary]
  /\ result \in [Runs -> {"none", "intact", "damaged"}]
  /\ reconciling \subseteq Runs

Init ==
  /\ nrun = 0
  /\ row = [r \in Runs |-> NoRow]
  /\ backend = [s \in Sessions |-> 0]
  /\ blocked = [s \in Sessions |-> FALSE]
  /\ limit \in 1..MaxLimit
  /\ commands = 0
  /\ boot = 1
  /\ binary = 1
  /\ worker = [r \in Runs |-> "none"]
  /\ reason = [r \in Runs |-> "none"]
  /\ sigterm = [r \in Runs |-> FALSE]
  /\ group = [r \in Runs |-> "none"]
  /\ outcome = [r \in Runs |-> "none"]
  /\ invocation = [r \in Runs |-> 0]
  /\ result = [r \in Runs |-> "none"]
  /\ reconciling = {}

-----------------------------------------------------------------------------
(* What the code reads.                                                      *)

Status(r) == row[r].status
ActiveRuns == {r \in Runs : Status(r) \in ACTIVE}
Turns(s) == {r \in Runs : row[r].session = s}
IsLatest(r, s) == r \in Turns(s) /\ \A q \in Turns(s) : q <= r

\* The worker process exists.
WorkerAlive(r) == worker[r] \notin {"none", "gone"}
\* alive(worker_pid, worker_start, boot), asked in PID namespace n: a process of
\* another namespace is not found.
WorkerSeen(r, n) == row[r].boot = boot /\ row[r].ns = n /\ WorkerAlive(r)
\* child_exited(proc): the group leader has ended.
LeaderExited(r) == group[r] \in {"residue", "dead"}
\* group_alive: some member of the process group is alive.
GroupAlive(r) == group[r] \in {"wrapper", "armed", "claude", "residue"}
\* Claude, or a process it left in its group, can act on the project.
Executing(r) == group[r] \in {"armed", "claude", "residue"}

\* Mutant: only the recorded leader is looked for, not its group.
LeaderSeen(r, n) ==
  row[r].child /\ row[r].boot = boot /\ row[r].ns = n /\ group[r] \in {"armed", "claude"}

\* execution_alive(row), asked in namespace n: an execution recorded in this
\* boot still has members.
ExecutionSeen(r, n) ==
  row[r].child /\ row[r].boot = boot /\ row[r].ns = n /\ GroupAlive(r)

\* Mutant of HasCapacity: one slot too many.
HasCapacityInclusive == commands + Cardinality(ActiveRuns) <= limit

HasCapacity == commands + Cardinality(ActiveRuns) < limit

\* result_valid: the file still has the digest recorded at commit.
ResultValid(r) == result[r] = "intact"

\* backend_unstarted: every run of this backend stopped with no exec record.
BackendUnstarted(s, b) ==
  LET history == {r \in Turns(s) : row[r].backend = b}
  IN  /\ history # {}
      /\ \A r \in history :
           /\ Status(r) \in {"failed", "cancelled", "launch_failed", "interrupted"}
           /\ ~row[r].child

\* The latest run of the session with execution evidence was recorded with
\* the binary that is configured now (reserve_in, _assert_resume_binary).
ResumeBinaryKnown(s) ==
  \E source \in Turns(s) :
    /\ row[source].started
    /\ \A q \in Turns(s) : row[q].started => q <= source
    /\ invocation[source] = binary

\* The table after one row changes by the given record.
Put(r, new) == row' = [row EXCEPT ![r] = new]

-----------------------------------------------------------------------------
(* Store.reserve_in.                                                         *)

\* What every follow-up demands of the session's latest run.  ack is
\* --acknowledge-context.
ContextSettled(s, last, ack) ==
  /\ IsLatest(last, s)
  /\ ~blocked[s]
  /\ Status(last) \notin ACTIVE
  /\ ack \/ (Status(last) = "completed" /\ ResultValid(last))

\* A completed run found damaged inside the transaction becomes failed.
Verified(last) ==
  IF Status(last) = "completed" /\ ~ResultValid(last)
  THEN [row EXCEPT ![last] = [row[last] EXCEPT !.status = "failed"]]
  ELSE row

InsertRun(table, s, b, resume) ==
  /\ nrun < MaxRuns
  /\ HasCapacity
  /\ nrun' = nrun + 1
  /\ row' = [table EXCEPT ![nrun + 1] = FreshRow(s, b, resume)]
  /\ UNCHANGED <<blocked, host, procs, files, reconciling>>

\* start / delegate: a new session with a new backend conversation.
Start(s) ==
  /\ backend[s] = 0
  /\ backend' = [backend EXCEPT ![s] = nrun + 1]
  /\ InsertRun(row, s, nrun + 1, FALSE)

\* followup: resume the session's backend conversation.
Followup(s, ack) ==
  \E last \in Runs :
    /\ ContextSettled(s, last, ack)
    /\ ResumeBinaryKnown(s)
    /\ InsertRun(Verified(last), s, backend[s], TRUE)
    /\ UNCHANGED backend

\* restart: give the session a fresh backend conversation.
Restart(s) ==
  \E last \in Runs :
    /\ ContextSettled(s, last, TRUE)
    /\ backend' = [backend EXCEPT ![s] = nrun + 1]
    /\ InsertRun(Verified(last), s, nrun + 1, FALSE)

\* resume_unstarted: create the conversation a stopped run never created.
ResumeUnstarted(s) ==
  \E last \in Runs :
    /\ BackendUnstarted(s, backend[s])
    /\ ContextSettled(s, last, TRUE)
    /\ InsertRun(Verified(last), s, backend[s], FALSE)
    /\ UNCHANGED backend

-----------------------------------------------------------------------------
(* launch_worker, called once by the creator after its commit.               *)

Spawn(r) ==
  /\ r <= nrun /\ worker[r] = "none"
  /\ worker' = [worker EXCEPT ![r] = "spawned"]
  /\ UNCHANGED <<rest, row, reason, sigterm, group, outcome>>

SpawnFails(r) ==
  /\ "error" \in Faults
  /\ r <= nrun /\ worker[r] = "none"
  /\ worker' = [worker EXCEPT ![r] = "gone"]
  /\ Put(r, IF Status(r) = "pending"
            THEN [row[r] EXCEPT !.status = "launch_failed"] ELSE row[r])
  /\ UNCHANGED <<rest, reason, sigterm, group, outcome>>

-----------------------------------------------------------------------------
(* Client calls on existing runs.                                            *)

\* Mutant of the first reason to refresh: no claim deadline.
NeverExpired(r) == Status(r) = "pending" /\ FALSE

\* Nobody claimed the run within CLAIM_SECONDS.
LaunchExpired(r) == Status(r) = "pending" /\ row[r].expired

\* A client of namespace n can tell that the worker of a claimed run is dead.
Orphaned(r, n) ==
  /\ Status(r) \in ACTIVE \ {"pending", "unknown"}
  /\ row[r].boot # boot \/ row[r].ns = n
  /\ ~WorkerSeen(r, n)

\* The verdict of Store.refresh on one row, seen from PID namespace n.
Refreshed(r, n) ==
  CASE LaunchExpired(r) -> [row[r] EXCEPT !.status = "launch_failed"]
    [] Orphaned(r, n) ->
         [row[r] EXCEPT !.status =
            IF Status(r) = "claimed" THEN "launch_failed" ELSE "unknown"]
    [] OTHER -> row[r]

Refresh(n) ==
  /\ row' = [r \in Runs |-> Refreshed(r, n)]
  /\ UNCHANGED <<rest, procs>>

\* get_run: a completed run whose result.json is gone or altered fails.
GetRun(r) ==
  /\ Status(r) = "completed" /\ ~ResultValid(r)
  /\ Put(r, [row[r] EXCEPT !.status = "failed"])
  /\ UNCHANGED <<rest, procs>>

Stop(r) ==
  /\ Status(r) \in ACTIVE
  /\ Put(r, [row[r] EXCEPT !.cancel = TRUE,
         !.status = IF Status(r) = "pending" THEN "cancelled" ELSE Status(r)])
  /\ UNCHANGED <<rest, procs>>

\* reconcile up to the write: the caller in namespace n holds worker.lock and
\* has seen neither the worker nor its execution alive.
ReconcileCheck(r, n) ==
  /\ Status(r) = "unknown"
  /\ row[r].boot # boot \/ row[r].ns = n
  /\ ~WorkerAlive(r) /\ r \notin reconciling  \* worker.lock is free
  /\ ~WorkerSeen(r, n) /\ ~ExecutionSeen(r, n)
  /\ reconciling' = reconciling \union {r}
  /\ UNCHANGED <<tables, host, procs, files>>

ReconcileCommit(r) ==
  /\ r \in reconciling
  /\ reconciling' = reconciling \ {r}
  /\ Put(r, IF Status(r) = "unknown"
            THEN [row[r] EXCEPT !.status = "interrupted"] ELSE row[r])
  /\ UNCHANGED <<nrun, backend, blocked, host, procs, files>>

\* configure_limits may go below what is in use.
ConfigureLimits(n) ==
  /\ limit' = n
  /\ UNCHANGED <<tables, commands, boot, binary, procs, files, reconciling>>

\* Workspace checks share the capacity (workspace._check_command).
BeginCommand ==
  /\ commands < MaxCommands
  /\ HasCapacity
  /\ commands' = commands + 1
  /\ UNCHANGED <<tables, limit, boot, binary, procs, files, reconciling>>

EndCommand ==
  /\ commands > 0
  /\ commands' = commands - 1
  /\ UNCHANGED <<tables, limit, boot, binary, procs, files, reconciling>>

-----------------------------------------------------------------------------
(* run_worker.                                                               *)

WorkerMoves(r, from, to) ==
  /\ worker[r] = from
  /\ worker' = [worker EXCEPT ![r] = to]

\* The process ends: its locks are released and its local variables are gone.
WorkerEnds(r) ==
  /\ worker' = [worker EXCEPT ![r] = "gone"]
  /\ reason' = [reason EXCEPT ![r] = "none"]
  /\ sigterm' = [sigterm EXCEPT ![r] = FALSE]

WorkerExits(r, from) == worker[r] = from /\ WorkerEnds(r)

\* Holding worker.lock, claim the pending row within CLAIM_SECONDS.
Claim(r, n) ==
  /\ r \notin reconciling
  /\ Status(r) = "pending" /\ ~row[r].cancel /\ ~row[r].expired
  /\ WorkerMoves(r, "spawned", "claimed")
  /\ Put(r, [row[r] EXCEPT !.status = "claimed", !.ns = n, !.boot = boot])
  /\ UNCHANGED <<rest, reason, sigterm, group, outcome>>

\* The lock is held or the claim updates no row: exit.
ClaimRefused(r) ==
  /\ r \in reconciling \/ Status(r) # "pending" \/ row[r].cancel \/ row[r].expired
  /\ WorkerExits(r, "spawned")
  /\ UNCHANGED <<rest, row, group, outcome>>

\* The launch transaction: cancel now or record that the turn starts.
Launch(r) ==
  /\ ~row[r].cancel /\ ~sigterm[r]
  /\ WorkerMoves(r, "claimed", "launched")
  /\ Put(r, [row[r] EXCEPT !.status = "launching", !.started = TRUE])
  /\ UNCHANGED <<rest, reason, sigterm, group, outcome>>

LaunchCancelled(r) ==
  /\ row[r].cancel \/ sigterm[r]
  /\ WorkerExits(r, "claimed")
  /\ Put(r, [row[r] EXCEPT !.status = "cancelled"])
  /\ UNCHANGED <<rest, group, outcome>>

WriteInvocation(r) ==
  /\ WorkerMoves(r, "launched", "opening")
  /\ invocation' = [invocation EXCEPT ![r] = binary]
  /\ UNCHANGED <<tables, host, reason, sigterm, group, outcome, result, reconciling>>

OpenWrapper(r) ==
  /\ WorkerMoves(r, "opening", "watching")
  /\ group' = [group EXCEPT ![r] = "wrapper"]
  /\ UNCHANGED <<rest, row, reason, sigterm, outcome>>

\* One round of the monitor loop that leaves it: a cancel request first, then
\* the leader's exit, then the timeout or the output limit.
WatchInterrupts(r, why) ==
  /\ \/ why = "cancel" /\ (row[r].cancel \/ sigterm[r])
     \/ why = "limit" /\ ~row[r].cancel /\ ~sigterm[r] /\ ~LeaderExited(r)
  /\ WorkerMoves(r, "watching", "killing")
  /\ reason' = [reason EXCEPT ![r] = why]
  /\ Put(r, [row[r] EXCEPT !.status = "stopping"])
  /\ UNCHANGED <<rest, sigterm, group, outcome>>

WatchSeesExit(r) ==
  /\ ~row[r].cancel /\ ~sigterm[r] /\ LeaderExited(r)
  /\ WorkerMoves(r, "watching", "killing")
  /\ UNCHANGED <<rest, row, reason, sigterm, group, outcome>>

\* A Claude stopped before its result leaves a stream that is not a success.
GroupEnds(r, to) ==
  /\ group' = [group EXCEPT ![r] = to]
  /\ \E o \in IF group[r] = "claude" THEN {"error", "divergent"} ELSE {outcome[r]} :
       outcome' = [outcome EXCEPT ![r] = o]

\* kill_group returns once no member of the group is alive.
KillGroup(r) ==
  /\ WorkerMoves(r, "killing", "settling")
  /\ GroupEnds(r, "dead")
  /\ UNCHANGED <<rest, row, reason, sigterm>>

\* Read the final row, settle the reason, parse the stream, write result.json.
Settle(r) ==
  /\ WorkerMoves(r, "settling", "writing")
  /\ reason' = [reason EXCEPT ![r] =
       IF reason[r] # "none" \/ row[r].child THEN reason[r]
       ELSE IF row[r].refused THEN "refused"
       ELSE IF row[r].cancel THEN "cancel" ELSE "none"]
  /\ result' = [result EXCEPT ![r] = "intact"]
  /\ UNCHANGED <<tables, host, sigterm, group, outcome, invocation, reconciling>>

\* Mutant: an undisturbed exit is taken for a success.
VerdictOfExit(r) ==
  IF reason[r] = "none" THEN "completed"
  ELSE IF reason[r] = "cancel" THEN "cancelled" ELSE "failed"

\* The verdict of the commit transaction.
Verdict(r) ==
  IF outcome[r] = "success" /\ reason[r] = "none" THEN "completed"
  ELSE IF reason[r] = "cancel" THEN "cancelled" ELSE "failed"

CommitResult(r) ==
  /\ WorkerExits(r, "writing")
  /\ Put(r, [row[r] EXCEPT !.status = Verdict(r), !.sha = TRUE])
  /\ blocked' = IF outcome[r] = "divergent"
                THEN [blocked EXCEPT ![row[r].session] = TRUE] ELSE blocked
  /\ UNCHANGED <<nrun, backend, host, group, outcome, files, reconciling>>

\* Any exception inside the claimed section, kill_group's own included.
WorkerFails(r) ==
  /\ "error" \in Faults
  /\ worker[r] \in {"claimed", "launched", "opening", "watching", "killing",
                    "settling", "writing"}
  /\ worker' = [worker EXCEPT ![r] = "failing"]
  /\ UNCHANGED <<rest, row, reason, sigterm, group, outcome>>

\* The exception handler: failed when no owned child is left, else unknown.
HandlerCleans(r) ==
  /\ WorkerExits(r, "failing")
  /\ IF GroupAlive(r) THEN GroupEnds(r, "dead") ELSE UNCHANGED <<group, outcome>>
  /\ Put(r, [row[r] EXCEPT !.status = "failed"])
  /\ UNCHANGED rest

\* Mutant: a group that may be alive counts as a failed run.
HandlerGivesUp(r) ==
  /\ GroupAlive(r)
  /\ WorkerExits(r, "failing")
  /\ Put(r, [row[r] EXCEPT !.status = "failed"])
  /\ UNCHANGED <<rest, group, outcome>>

HandlerQuarantines(r) ==
  /\ GroupAlive(r)
  /\ WorkerExits(r, "failing")
  /\ Put(r, [row[r] EXCEPT !.status = "unknown"])
  /\ UNCHANGED <<rest, group, outcome>>

-----------------------------------------------------------------------------
(* exec_claude, the wrapper that becomes Claude.                             *)

MayExecute(r) ==
  Status(r) = "launching" /\ ~row[r].cancel /\ WorkerAlive(r) /\ ~row[r].child

\* The transaction that records the child before execve.
WrapperRecords(r) ==
  /\ group[r] = "wrapper" /\ MayExecute(r)
  /\ group' = [group EXCEPT ![r] = "armed"]
  /\ Put(r, [row[r] EXCEPT !.status = "running", !.child = TRUE])
  /\ UNCHANGED <<rest, worker, reason, sigterm, outcome>>

\* The effort check refuses, leaving its code in runs.reason.
WrapperRefuses(r) ==
  /\ "error" \in Faults
  /\ group[r] = "wrapper"
  /\ group' = [group EXCEPT ![r] = "dead"]
  /\ Put(r, [row[r] EXCEPT !.refused = @ \/ (Status(r) = "launching" /\ ~row[r].child)])
  /\ UNCHANGED <<rest, worker, reason, sigterm, outcome>>

WrapperAborts(r) ==
  /\ group[r] = "wrapper" /\ ~MayExecute(r)
  /\ group' = [group EXCEPT ![r] = "dead"]
  /\ UNCHANGED <<rest, row, worker, reason, sigterm, outcome>>

Exec(r) ==
  /\ group[r] = "armed"
  /\ group' = [group EXCEPT ![r] = "claude"]
  /\ UNCHANGED <<rest, row, worker, reason, sigterm, outcome>>

ClaudeExits(r, o, left) ==
  /\ group[r] = "claude"
  /\ left = "residue" => "residue" \in Faults
  /\ group' = [group EXCEPT ![r] = left]
  /\ outcome' = [outcome EXCEPT ![r] = o]
  /\ UNCHANGED <<rest, row, worker, reason, sigterm>>

-----------------------------------------------------------------------------
(* The environment.                                                          *)

\* Thirty seconds pass since the row was created.
DeadlinePasses(r) ==
  /\ Status(r) = "pending" /\ ~row[r].expired
  /\ Put(r, [row[r] EXCEPT !.expired = TRUE])
  /\ UNCHANGED <<rest, procs>>

WorkerSignalled(r) ==
  /\ "signal" \in Faults
  /\ WorkerAlive(r) /\ ~sigterm[r]
  /\ sigterm' = [sigterm EXCEPT ![r] = TRUE]
  /\ UNCHANGED <<rest, row, worker, reason, group, outcome>>

\* The worker dies, or its last write does: its locks are released.
WorkerCrashes(r) ==
  /\ "crash" \in Faults
  /\ WorkerAlive(r)
  /\ WorkerEnds(r)
  /\ UNCHANGED <<rest, row, group, outcome>>

\* The whole group dies on its own: killed, out of memory, execve refused.
GroupDies(r) ==
  /\ GroupAlive(r)
  /\ GroupEnds(r, "dead")
  /\ UNCHANGED <<rest, row, worker, reason, sigterm>>

\* Only a completed run's file is ever read back.
ResultDamaged(r) ==
  /\ "lost_result" \in Faults
  /\ Status(r) = "completed" /\ result[r] = "intact"
  /\ result' = [result EXCEPT ![r] = "damaged"]
  /\ UNCHANGED <<tables, host, procs, invocation, reconciling>>

ReconcilerDies(r) ==
  /\ "crash" \in Faults
  /\ r \in reconciling
  /\ reconciling' = reconciling \ {r}
  /\ UNCHANGED <<tables, host, procs, files>>

UpgradeBinary ==
  /\ binary < MaxBinary
  /\ binary' = binary + 1
  /\ UNCHANGED <<tables, limit, commands, boot, procs, files, reconciling>>

Reboot ==
  /\ boot < MaxBoot
  /\ boot' = boot + 1
  /\ worker' = [r \in Runs |-> IF r <= nrun THEN "gone" ELSE worker[r]]
  /\ group' = [r \in Runs |-> IF GroupAlive(r) THEN "dead" ELSE group[r]]
  /\ reason' = [r \in Runs |-> "none"]
  /\ sigterm' = [r \in Runs |-> FALSE]
  /\ reconciling' = {}
  /\ UNCHANGED <<tables, limit, commands, binary, outcome, files>>

-----------------------------------------------------------------------------
Client ==
  \/ \E s \in Sessions : \/ Start(s) \/ Restart(s) \/ ResumeUnstarted(s)
                         \/ \E ack \in BOOLEAN : Followup(s, ack)
  \/ \E r \in Runs : \/ Spawn(r) \/ SpawnFails(r) \/ GetRun(r) \/ Stop(r)
                     \/ ReconcileCommit(r)
                     \/ \E n \in Namespaces : ReconcileCheck(r, n)
  \/ \E n \in Namespaces : Refresh(n)
  \/ \E n \in 1..MaxLimit : ConfigureLimits(n)
  \/ BeginCommand \/ EndCommand

\* The steps a live worker takes by itself.
WorkerStep(r) ==
  \/ \E n \in Namespaces : Claim(r, n)
  \/ ClaimRefused(r) \/ Launch(r) \/ LaunchCancelled(r) \/ WriteInvocation(r)
  \/ OpenWrapper(r) \/ WatchSeesExit(r) \/ KillGroup(r) \/ Settle(r)
  \/ CommitResult(r) \/ HandlerCleans(r) \/ HandlerQuarantines(r)
  \/ \E why \in {"cancel", "limit"} : WatchInterrupts(r, why)

ChildStep(r) ==
  \/ WrapperRecords(r) \/ WrapperRefuses(r) \/ WrapperAborts(r) \/ Exec(r)
  \/ \E o \in {"success", "error", "divergent"}, left \in {"residue", "dead"} :
       ClaudeExits(r, o, left)

Environment ==
  \/ \E r \in Runs : \/ DeadlinePasses(r) \/ WorkerFails(r) \/ WorkerSignalled(r)
                     \/ WorkerCrashes(r) \/ GroupDies(r) \/ ResultDamaged(r)
                     \/ ReconcilerDies(r)
  \/ UpgradeBinary \/ Reboot

Next ==
  \/ Client
  \/ \E r \in Runs : WorkerStep(r) \/ ChildStep(r)
  \/ Environment

Spec == Init /\ [][Next]_vars

\* A live worker is scheduled, time passes, and in every PID namespace some
\* client keeps calling the controller (each call refreshes).
Fairness ==
  /\ \A r \in Runs : WF_vars(WorkerStep(r)) /\ WF_vars(DeadlinePasses(r))
  /\ \A n \in Namespaces : WF_vars(Refresh(n))

FairSpec == Spec /\ Fairness

-----------------------------------------------------------------------------
(* Safety.                                                                   *)

\* An execution never escapes its run: while Claude, a process it left behind
\* or a wrapper about to become it is alive, the run's row is active, so that
\* neither capacity nor the session is given to another turn (refresh,
\* reconcile, the handler of run_worker and exec_claude together).
NoEscapedExecution == \A r \in Runs : Executing(r) => Status(r) \in ACTIVE

\* A session has one turn at a time: the rows the index one_active_turn
\* counts, and, whatever became of the workers, the processes themselves.
OneTurnPerSession ==
  \A r, q \in Runs :
    /\ row[r].session = row[q].session
    /\ \/ Status(r) \in ACTIVE /\ Status(q) \in ACTIVE
       \/ Executing(r) /\ Executing(q)
    => r = q

\* Claude is asked to create a given backend conversation (--session-id) by
\* one execution at most: resume_unstarted is granted only when no wrapper of
\* an earlier run did or still can record an execution.
ConversationCreatedOnce ==
  \A r, q \in Runs :
    /\ row[r].child /\ ~row[r].resume
    /\ row[q].child /\ ~row[q].resume
    /\ row[r].backend = row[q].backend
    => r = q

\* A completed run is one whose recorded execution ended by itself with a
\* valid stream, leaving nothing alive, and whose result is on disk.
CompletedIsEvidenced ==
  \A r \in Runs : Status(r) = "completed" =>
    /\ row[r].child /\ row[r].sha
    /\ outcome[r] = "success"
    /\ ~GroupAlive(r)
    /\ result[r] # "none"

\* No step takes a slot the limit in force does not have: what is held may
\* exceed a lowered limit, and then only shrinks.
InUse == commands + Cardinality(ActiveRuns)
CapacityRespected == [][InUse' > InUse => InUse' <= limit]_vars

\* A terminal run stays as it ended, except a completed one whose result file
\* no longer proves it.
TerminalIsFinal ==
  [][\A r \in Runs : Status(r) \in TERMINAL =>
       \/ Status(r)' = Status(r)
       \/ Status(r) = "completed" /\ Status(r)' = "failed" /\ ~ResultValid(r)]_vars

\* A quarantined run leaves quarantine as interrupted, and only when neither
\* its worker nor any member of its recorded execution is alive.
QuarantineHolds ==
  [][\A r \in Runs : Status(r) = "unknown" /\ Status(r)' # "unknown" =>
       /\ Status(r)' = "interrupted"
       /\ ~WorkerAlive(r) /\ ~Executing(r)]_vars

\* A cancel that is recorded before the execution is recorded prevents it.
CancelPreventsExecution ==
  [][\A r \in Runs : row[r].cancel /\ ~row[r].child => ~row'[r].child]_vars

\* The run lifecycle implements the abstract slots: the sessions with an
\* active row hold them, those with a live process group execute.
Slots == INSTANCE ExecutionSlots WITH
  holders <- {row[r].session : r \in ActiveRuns},
  executing <- {row[r].session : r \in {q \in Runs : Executing(q)}}

SlotsImplemented == Slots!Spec

\* What became of a run, as the parts above the lifecycle tell it apart: _never_started
\* asks for "unstarted", backend_unstarted for no record of an execution, and a
\* divergence blocks the session.
LifeStatus(r) ==
  CASE Status(r) \in {"absent", "pending", "unknown", "completed"} -> Status(r)
    [] Status(r) \in ACTIVE \ {"pending", "unknown"} -> "live"
    [] row[r].child /\ Status(r) \in TERMINAL \ {"completed"} ->
         IF row[r].sha /\ outcome[r] = "divergent" THEN "divergent" ELSE "failed"
    [] OTHER -> IF Status(r) \in {"launch_failed", "cancelled"} /\ ~row[r].started
                THEN "unstarted" ELSE "unexecuted"

\* The run lifecycle implements the life of a run that queue, messages and workflows
\* rely on: a turn is reserved only when nothing of its session is active, in doubt or
\* divergent, and what became of a run is not taken back.
Life == INSTANCE RunLife WITH
  status <- [r \in Runs |-> LifeStatus(r)],
  turn <- [r \in Runs |-> [session |-> row[r].session, backend |-> row[r].backend,
                           resume |-> row[r].resume]]

LifeImplemented == Life!Spec

-----------------------------------------------------------------------------
(* The inductive invariant behind the safety properties.                     *)

\* Rows are inserted in rowid order, and only an inserted row has processes.
RowsInOrder ==
  \A r \in Runs :
    /\ r <= nrun <=> Status(r) # "absent"
    /\ r <= nrun => row[r].session \in Sessions
    /\ r > nrun => row[r] = NoRow /\ worker[r] = "none" /\ group[r] = "none"

\* What the table says while the worker stands at each of its points.
RowOfWorker(r) ==
  CASE worker[r] \in {"none", "spawned"} ->
         /\ Status(r) \in {"absent", "pending", "cancelled", "launch_failed"}
         /\ group[r] = "none"
    [] worker[r] = "claimed" -> Status(r) = "claimed" /\ group[r] = "none"
    [] worker[r] \in {"launched", "opening"} ->
         Status(r) = "launching" /\ group[r] = "none"
    [] worker[r] = "watching" -> Status(r) \in {"launching", "running"}
    [] worker[r] = "killing" -> Status(r) \in {"launching", "running", "stopping"}
    [] worker[r] \in {"settling", "writing"} ->
         Status(r) \in {"launching", "running", "stopping"} /\ group[r] = "dead"
    [] worker[r] = "failing" ->
         Status(r) \in {"claimed", "launching", "running", "stopping"}
    [] OTHER -> TRUE

WorkersMatchRows ==
  \A r \in Runs :
    /\ RowOfWorker(r)
    /\ worker[r] \notin {"none", "spawned", "gone"} => row[r].boot = boot

\* An execution is recorded, in this boot, by a row that is still active.
ExecutionsRecorded ==
  \A r \in Runs : Executing(r) =>
    /\ Status(r) \in {"running", "stopping", "unknown"}
    /\ row[r].child /\ row[r].boot = boot

\* What a reconcile call saw stays so while it holds the lock.
ReconcilersRight ==
  \A r \in reconciling :
    Status(r) = "unknown" /\ worker[r] = "gone" /\ ~Executing(r)

\* Only the last turn of a session may be active.
EarlierTurnsEnded ==
  \A r, q \in Runs :
    r < q /\ q <= nrun /\ row[r].session = row[q].session => Status(r) \in TERMINAL

\* Backend conversations belong to one session and are numbered afresh.
BackendsOwned ==
  /\ \A r \in Runs : r <= nrun => row[r].backend \in 1..nrun
  /\ \A r, q \in Runs :
       r <= nrun /\ q <= nrun /\ row[r].backend = row[q].backend =>
         row[r].session = row[q].session
  /\ \A s \in Sessions :
       /\ backend[s] <= nrun
       /\ backend[s] = 0 => Turns(s) = {}
       /\ \A r \in Runs : r <= nrun /\ row[r].backend = backend[s] =>
                           row[r].session = s
       /\ \A t \in Sessions : backend[s] = backend[t] /\ backend[s] # 0 => s = t

\* A turn that creates a conversation comes after no execution of it.
CreationsFirst ==
  \A r, q \in Runs :
    r < q /\ q <= nrun /\ row[r].backend = row[q].backend /\ ~row[q].resume =>
      ~row[r].child

\* The conjunction is inductive: each part is what another part's proof needs.
LifecycleInvariant ==
  /\ RowsInOrder /\ WorkersMatchRows /\ ExecutionsRecorded
  /\ ReconcilersRight /\ EarlierTurnsEnded /\ BackendsOwned /\ CreationsFirst

(* Liveness.                                                                 *)

\* Every reserved run ends or reaches quarantine, whatever its creator, its
\* worker and its group do.
EveryRunSettles ==
  \A r \in Runs : Status(r) \in ACTIVE ~> Status(r) \in TERMINAL \union {"unknown"}

(* What the code says of itself and does not do.                             *)

\* A turn that resumes a backend conversation has an earlier turn that may
\* have created that conversation.
ResumeContinuesConversation ==
  \A r \in Runs : row[r].resume =>
    \E q \in Runs : q < r /\ row[q].backend = row[r].backend /\ row[q].started
=============================================================================
