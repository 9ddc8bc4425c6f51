------------------------------ MODULE Workspace ------------------------------
(***************************************************************************)
(* One controlled workspace (workspace.py, workspace_sandbox.py): Claude   *)
(* asks for operations in its reports, the coordinator performs them one   *)
(* by one between an intent and a receipt, and a complete report freezes   *)
(* the tree.                                                               *)
(*                                                                         *)
(* A coordinator is a process that holds coordinator.lock; it can die at   *)
(* any point.  Stop, status and reconcile are other processes: a stop      *)
(* takes no lock.  A check runs in a launcher process that records itself  *)
(* in the database before it executes.                                     *)
(***************************************************************************)
EXTENDS Integers, Sequences

CONSTANTS
  Trees, Baseline,    \* contents of the working tree; that of the snapshot
  MaxCalls,           \* the policy's max_calls
  MaxActions,         \* the policy's max_actions
  MaxBatch,           \* bound: operations of one report
  Parallel,           \* max_parallel of the controller
  Faults              \* what may happen besides

FaultKinds == {"crash", "tamper", "obstacle", "quarantine"}

ASSUME WorkspaceAssumption ==
  /\ Baseline \in Trees
  /\ MaxCalls \in Nat \ {0} /\ MaxActions \in Nat /\ MaxBatch \in Nat \ {0}
  /\ Parallel \in Nat \ {0}
  /\ Faults \subseteq FaultKinds

Unknown == "unknown tree"   \* a receipt without tree_sha256

Calls == 1..MaxCalls
\* "edit" is read, write or patch.
Operations == {"edit", "check"}
Batches == UNION {[1..n -> Operations] : n \in 1..MaxBatch}
\* format_status and status of a report: "complete" without operations, a
\* blocked one with operations, "useless" otherwise; "malformed" is invalid,
\* "unreadable" anything else.
Reports == {"none", "complete", "operations", "useless", "malformed", "unreadable"}
RunStatuses == {"reserved", "launched", "live", "unknown", "completed", "failed"}
ActiveStatuses == {"reserved", "launched", "live", "unknown"}
Outcomes == {"ok", "failed", "rejected", "cancelled", "timeout", "unknown"}
Receipts == [outcome : Outcomes, tree : Trees \union {Unknown}]
States == {"absent", "preparing", "idle", "active", "operating", "awaiting_codex",
           "finished", "stopping", "stopped"}

VARIABLES
  state,     \* column "state" of "workspaces"; "preparing" is a reserved creation
  task,      \* the bound task: its revision's parent and scope, its active run
  call,      \* tables "workspace_calls" and "runs": the calls in their order
  requests,  \* table "workspace_requests", per call
  receipts,  \* table "workspace_receipts", per call
  command,   \* the row of "workspace_commands" without a receipt, if any
  export,    \* table "workspace_exports"
  tree,      \* the directory "tree"
  frozen,    \* the directory "frozen", Unknown before it is complete
  coord,     \* the process that holds coordinator.lock, and its locals
  launcher,  \* the process of the last check
  load,      \* executions of others that share the local limit
  touched,   \* history: somebody else wrote "tree"
  performed  \* history: how many operations of each call were begun

work == <<tree, frozen, launcher, touched, performed>>
vars == <<state, task, call, requests, receipts, command, export, coord, load, work>>

NoCommand == [owner |-> "none", child |-> FALSE]
NoExport == [call |-> 0, tree |-> Unknown]
Idle == [pc |-> "idle", call |-> 0, outcome |-> "ok", tree |-> Unknown]

TypeOK ==
  /\ state \in States
  /\ task \in [parent : 0..MaxCalls, repair : BOOLEAN, active : 0..MaxCalls]
  /\ call \in Seq([parent : 0..MaxCalls, repair : BOOLEAN, tree : Trees, status : RunStatuses,
                   told : Seq(Receipts), cancel : BOOLEAN, report : Reports])
  /\ Len(call) <= MaxCalls
  /\ requests \in [Calls -> Seq(Operations)]
  /\ receipts \in [Calls -> Seq(Receipts)]
  /\ command \in [owner : {"none", "alive", "dead"}, child : BOOLEAN]
  /\ export \in [call : 0..MaxCalls, tree : Trees \union {Unknown}]
  /\ tree \in Trees /\ frozen \in Trees \union {Unknown}
  /\ coord \in [pc : {"idle", "loop", "launch", "operate", "begun", "admitted", "checking",
                      "result", "done", "freeze", "record", "halt"},
                call : 0..MaxCalls, outcome : Outcomes, tree : Trees \union {Unknown}]
  /\ launcher \in {"none", "forked", "recorded", "running", "passed", "failed"}
  /\ load \in 0..Parallel
  /\ touched \in BOOLEAN
  /\ performed \in [Calls -> Nat]

Init ==
  /\ state = "absent"
  /\ task = [parent |-> 0, repair |-> FALSE, active |-> 0]
  /\ call = <<>>
  /\ requests = [c \in Calls |-> <<>>] /\ receipts = [c \in Calls |-> <<>>]
  /\ command = NoCommand /\ export = NoExport
  /\ tree = Baseline /\ frozen = Unknown
  /\ coord = Idle /\ launcher = "none"
  /\ load = 0 /\ touched = FALSE /\ performed = [c \in Calls |-> 0]

-----------------------------------------------------------------------------
(* What the code reads.                                                      *)

LastOf(s) == s[Len(s)]

\* _receipts joins all calls in order; the latest receipt belongs to the last
\* call that has one.
LatestTree ==
  LET answered == {c \in Calls : receipts[c] # <<>>}
  IN  IF answered = {} THEN Baseline
      ELSE LastOf(receipts[CHOOSE c \in answered : \A d \in answered : d <= c]).tree

\* _current_tree does not raise.
TreeHolds == tree = LatestTree

ActionsUsed == LET f[c \in 0..MaxCalls] == IF c = 0 THEN 0 ELSE Len(requests[c]) + f[c - 1]
               IN  f[MaxCalls]

Active(c) == c \in DOMAIN call /\ call[c].status \in ActiveStatuses
OpenCommands == IF command = NoCommand THEN 0 ELSE 1
OwnRuns == IF \E c \in DOMAIN call : Active(c) THEN 1 ELSE 0

\* Active runs and command_slots against max_parallel.
Full == load + OwnRuns + OpenCommands >= Parallel

Run == call[task.active]
NewCall ==
  [parent |-> task.parent, repair |-> task.repair, tree |-> tree, status |-> "reserved",
   told |-> IF task.parent = 0 THEN <<>> ELSE receipts[task.parent],
   cancel |-> FALSE, report |-> "none"]
Locked == coord.pc # "idle"

-----------------------------------------------------------------------------
(* create and bind.                                                          *)

Becomes(from, to) ==
  /\ state = from /\ state' = to
  /\ UNCHANGED <<task, call, requests, receipts, command, export, coord, load, work>>

\* The intent of a creation; its snapshot and its row come later, or never.
Reserve == Becomes("absent", "preparing")
Create  == Becomes("preparing", "idle")
Bind    == Becomes("idle", "active")

-----------------------------------------------------------------------------
(* run: the lock, the loop and the transaction of _advance.                  *)

\* Mutant: an interrupted batch is taken up at its first operation without a
\* receipt.
EnterResuming ==
  /\ ~Locked /\ state \in {"active", "operating"}
  /\ coord' = IF state = "active" THEN [Idle EXCEPT !.pc = "loop"]
              ELSE [Idle EXCEPT !.call = task.active,
                      !.pc = IF requests[task.active] = <<>> THEN "freeze" ELSE "operate"]
  /\ UNCHANGED <<state, task, call, requests, receipts, command, export, load, work>>

\* Mutant: an interrupted batch is nobody's business.
EnterActive ==
  /\ ~Locked /\ state = "active" /\ coord' = [Idle EXCEPT !.pc = "loop"]
  /\ UNCHANGED <<state, task, call, requests, receipts, command, export, load, work>>

\* What an interrupted coordinator left operating is not resumed, but halted.
Enter ==
  /\ ~Locked /\ state \in {"active", "operating"}
  /\ coord' = [Idle EXCEPT !.pc = IF state = "active" THEN "loop" ELSE "halt"]
  /\ UNCHANGED <<state, task, call, requests, receipts, command, export, load, work>>

\* The window closes, or the state is not active any more.
Leave ==
  /\ coord.pc = "loop" /\ coord' = Idle
  /\ UNCHANGED <<state, task, call, requests, receipts, command, export, load, work>>

Halt ==
  /\ coord.pc = "halt" /\ coord' = Idle
  /\ state' = IF state \in {"active", "operating"} THEN "awaiting_codex" ELSE state
  /\ UNCHANGED <<task, call, requests, receipts, command, export, load, work>>

Advancing == coord.pc = "loop" /\ state = "active"
Answered(report) ==
  Advancing /\ task.active # 0 /\ Run.status = "completed" /\ Run.report = report

\* Mutant: submission does not compare the tree with its latest receipt.
SubmitUnverified ==
  /\ Advancing /\ task.active = 0
  /\ Len(call) < MaxCalls /\ ~Full
  /\ call' = Append(call, NewCall)
  /\ task' = [task EXCEPT !.active = Len(call) + 1]
  /\ coord' = [coord EXCEPT !.pc = "launch", !.call = Len(call) + 1]
  /\ UNCHANGED <<state, requests, receipts, command, export, load, work>>

\* submit_in, materialize and record_in: a call with the receipts of its parent.
Submit ==
  /\ Advancing /\ task.active = 0 /\ TreeHolds
  /\ Len(call) < MaxCalls /\ ~Full
  /\ call' = Append(call, NewCall)
  /\ task' = [task EXCEPT !.active = Len(call) + 1]
  /\ coord' = [coord EXCEPT !.pc = "launch", !.call = Len(call) + 1]
  /\ UNCHANGED <<state, requests, receipts, command, export, load, work>>

\* launch_worker, after the transaction; a run that was stopped has no worker.
Launch ==
  /\ coord.pc = "launch"
  /\ call' = IF call[coord.call].status # "reserved" THEN call
             ELSE [call EXCEPT ![coord.call].status = "launched"]
  /\ coord' = [Idle EXCEPT !.pc = "loop"]
  /\ UNCHANGED <<state, task, requests, receipts, command, export, load, work>>

\* The one repair of a malformed report, when nothing was done since its call.
Repairable ==
  /\ requests[task.active] = <<>> /\ receipts[task.active] = <<>>
  /\ tree = Run.tree /\ ~Run.repair /\ Len(call) < MaxCalls

Repair ==
  /\ Answered("malformed") /\ TreeHolds /\ Repairable
  /\ task' = [parent |-> task.active, repair |-> TRUE, active |-> 0]
  /\ UNCHANGED <<state, call, requests, receipts, command, export, coord, load, work>>

\* The requests of a report, the durable intent of its operations.
Request(batch) ==
  /\ Answered("operations") /\ TreeHolds /\ tree = Run.tree
  /\ ActionsUsed + Len(batch) <= MaxActions /\ Len(call) < MaxCalls
  /\ requests' = [requests EXCEPT ![task.active] = batch]
  /\ state' = "operating"
  /\ coord' = [coord EXCEPT !.pc = "operate", !.call = task.active]
  /\ UNCHANGED <<task, call, receipts, command, export, load, work>>

Finish ==
  /\ Answered("complete") /\ TreeHolds /\ tree = Run.tree
  /\ state' = "operating"
  /\ coord' = [coord EXCEPT !.pc = "freeze", !.call = task.active]
  /\ UNCHANGED <<task, call, requests, receipts, command, export, load, work>>

\* _advance raises something else than capacity or session_busy, for a batch of
\* n operations if there is one.
Obstructed(n) ==
  \/ ~TreeHolds
  \/ task.active = 0 /\ Len(call) = MaxCalls
  \/ task.active # 0 /\ Run.status \in {"unknown", "failed"}
  \/ Answered("useless") \/ Answered("unreadable")
  \/ Answered("malformed") /\ ~Repairable
  \/ (Answered("complete") \/ Answered("operations")) /\ tree # Run.tree
  \/ Answered("operations") /\ (Len(call) = MaxCalls \/ ActionsUsed + n > MaxActions)

Raise ==
  /\ Advancing /\ \E n \in 1..MaxBatch : Obstructed(n)
  /\ coord' = [coord EXCEPT !.pc = "halt"]
  /\ UNCHANGED <<state, task, call, requests, receipts, command, export, load, work>>

\* A file or a context that cannot be read any more: it may happen, and need not.
Obstacle ==
  /\ "obstacle" \in Faults /\ Advancing
  /\ coord' = [coord EXCEPT !.pc = "halt"]
  /\ UNCHANGED <<state, task, call, requests, receipts, command, export, load, work>>

-----------------------------------------------------------------------------
(* _perform: one operation after the other, each between intent and receipt. *)

Next1 == requests[coord.call][Len(receipts[coord.call]) + 1]
Operating == coord.pc = "operate" /\ Len(receipts[coord.call]) < Len(requests[coord.call])

\* The state is read before each operation, and the tree with it.
Interrupted ==
  /\ Operating /\ (state # "operating" \/ ~TreeHolds)
  /\ coord' = IF state # "operating" THEN Idle ELSE [coord EXCEPT !.pc = "halt"]
  /\ UNCHANGED <<state, task, call, requests, receipts, command, export, load, work>>

Begin ==
  /\ Operating /\ state = "operating" /\ TreeHolds
  /\ coord' = [coord EXCEPT !.pc = "begun"]
  /\ performed' = [performed EXCEPT ![coord.call] = @ + 1]
  /\ UNCHANGED <<state, task, call, requests, receipts, command, export, load, tree, frozen,
                 launcher, touched>>

Outcome(outcome, version) ==
  coord' = [coord EXCEPT !.pc = "result", !.outcome = outcome, !.tree = version]

Editing == coord.pc = "begun" /\ Next1 = "edit"

\* read_text, of a file that can be read.
Read ==
  /\ Editing
  /\ Outcome("ok", tree) \/ Outcome("rejected", Unknown)
  /\ UNCHANGED <<state, task, call, requests, receipts, command, export, load, work>>

\* write_text replaces a file as a whole; what is rejected may have been
\* replaced before, when its directory cannot be flushed or hashed.
Write ==
  /\ Editing /\ tree' \in Trees
  /\ Outcome("ok", tree') \/ Outcome("rejected", Unknown)
  /\ UNCHANGED <<state, task, call, requests, receipts, command, export, load, frozen,
                 launcher, touched, performed>>

\* apply_patch is a write of the patched text, if the file is the one the patch
\* names by its hash and the hunks fit.
Patch(base) ==
  /\ Editing
  /\ IF tree = base THEN tree' \in Trees /\ (Outcome("ok", tree') \/ Outcome("rejected", Unknown))
     ELSE Outcome("rejected", Unknown) /\ UNCHANGED tree
  /\ UNCHANGED <<state, task, call, requests, receipts, command, export, load, frozen,
                 launcher, touched, performed>>

\* _check_command: admission to a slot; without one the operation is rejected.
AdmitCheck ==
  /\ coord.pc = "begun" /\ Next1 = "check"
  /\ IF state # "operating" \/ Full THEN Outcome("rejected", Unknown) /\ UNCHANGED command
     ELSE /\ coord' = [coord EXCEPT !.pc = "admitted"]
          /\ command' = [owner |-> "alive", child |-> FALSE]
  /\ UNCHANGED <<state, task, call, requests, receipts, export, load, work>>

\* The scratch copy of the tree, then the launcher.
Fork ==
  /\ coord.pc = "admitted"
  /\ \/ coord' = [coord EXCEPT !.pc = "checking"] /\ launcher' = "forked"
     \/ "obstacle" \in Faults /\ Outcome("rejected", Unknown) /\ UNCHANGED launcher
  /\ UNCHANGED <<state, task, call, requests, receipts, command, export, load, tree, frozen,
                 touched, performed>>

\* execute returns: the launcher has exited, or is killed and waited for; what it
\* left is rejected when its tree cannot be read.
CheckEnds ==
  /\ coord.pc = "checking" /\ launcher' = "none"
  /\ \/ launcher = "passed" /\ Outcome("ok", tree)
     \/ launcher = "failed" /\ Outcome("failed", tree)
     \/ state # "operating" /\ Outcome("cancelled", tree)
     \/ Outcome("timeout", tree)
     \/ "obstacle" \in Faults /\ Outcome("rejected", Unknown)
  /\ UNCHANGED <<state, task, call, requests, receipts, command, export, load, tree, frozen,
                 touched, performed>>

\* The receipt ends the operation and the command; anything but a result of the
\* operation itself halts.
Record ==
  /\ coord.pc = "result"
  /\ receipts' = [receipts EXCEPT ![coord.call] =
                    Append(@, [outcome |-> coord.outcome, tree |-> coord.tree])]
  /\ command' = NoCommand
  /\ coord' = [coord EXCEPT !.pc = IF coord.outcome \in {"ok", "failed"} THEN "operate"
                                   ELSE "halt"]
  /\ UNCHANGED <<state, task, call, requests, export, load, work>>

\* revise_in: the next call answers the receipts of this one.
Revise ==
  /\ coord.pc = "operate" /\ Len(receipts[coord.call]) = Len(requests[coord.call])
  /\ IF state = "operating"
     THEN /\ task' = [parent |-> coord.call, repair |-> FALSE, active |-> 0]
          /\ state' = "active" /\ coord' = [Idle EXCEPT !.pc = "loop"]
     ELSE coord' = Idle /\ UNCHANGED <<state, task>>
  /\ UNCHANGED <<call, requests, receipts, command, export, load, work>>

-----------------------------------------------------------------------------
(* The final report: freeze, then the export's record.                       *)

Freeze ==
  /\ coord.pc = "freeze"
  /\ \/ frozen' = tree /\ coord' = [coord EXCEPT !.pc = "record"]
     \/ "obstacle" \in Faults /\ coord' = [coord EXCEPT !.pc = "halt"] /\ UNCHANGED frozen
  /\ UNCHANGED <<state, task, call, requests, receipts, command, export, load, tree, launcher,
                 touched, performed>>

\* Mutant: the state is not read again after the freeze.
RecordExportAnyway ==
  /\ coord.pc = "record" /\ coord' = Idle
  /\ export' = [call |-> coord.call, tree |-> frozen] /\ state' = "finished"
  /\ UNCHANGED <<task, call, requests, receipts, command, load, work>>

RecordExport ==
  /\ coord.pc = "record" /\ coord' = Idle
  /\ IF state = "operating"
     THEN export' = [call |-> coord.call, tree |-> frozen] /\ state' = "finished"
     ELSE UNCHANGED <<state, export>>
  /\ UNCHANGED <<task, call, requests, receipts, command, load, work>>

-----------------------------------------------------------------------------
(* exec_check in the launcher.                                               *)

\* Its identity is recorded while its command is open, the workspace operating
\* and its owner alive.
LauncherRecords ==
  /\ launcher = "forked" /\ launcher' = "recorded"
  /\ command.owner = "alive" /\ state = "operating" /\ ~command.child
  /\ command' = [command EXCEPT !.child = TRUE]
  /\ UNCHANGED <<state, task, call, requests, receipts, export, coord, load, tree, frozen,
                 touched, performed>>

\* The owner may die after bind_parent looked for it; then a signal ends the check.
LauncherExecutes ==
  /\ launcher = "recorded" /\ launcher' = "running"
  /\ UNCHANGED <<state, task, call, requests, receipts, command, export, coord, load, tree,
                 frozen, touched, performed>>

\* It refused, was killed, or its check is done.
LauncherExits ==
  /\ \/ launcher \in {"forked", "recorded", "running"} /\ launcher' = "failed"
     \/ launcher = "running" /\ launcher' = "passed"
  /\ UNCHANGED <<state, task, call, requests, receipts, command, export, coord, load, tree,
                 frozen, touched, performed>>

-----------------------------------------------------------------------------
(* stop, _finish_stop of any later status, and reconcile.                    *)

Stop ==
  /\ state \in {"idle", "active", "operating", "awaiting_codex"}
  /\ state' = "stopping"
  /\ UNCHANGED <<task, call, requests, receipts, command, export, coord, load, work>>

\* Store.stop: a pending run is cancelled, a live one is asked to end.
StopRun(c) ==
  /\ state = "stopping" /\ Active(c) /\ ~call[c].cancel
  /\ call' = [call EXCEPT ![c].cancel = TRUE,
                          ![c].status = IF @ \in {"reserved", "launched"} THEN "failed" ELSE @]
  /\ UNCHANGED <<state, task, requests, receipts, command, export, coord, load, work>>

\* Mutant: commands without a receipt are not waited for.
FinishStopHasty ==
  /\ state = "stopping" /\ ~Locked
  /\ OwnRuns = 0
  /\ state' = "stopped"
  /\ UNCHANGED <<task, call, requests, receipts, command, export, coord, load, work>>

FinishStop ==
  /\ state = "stopping" /\ ~Locked
  /\ OwnRuns = 0 /\ command = NoCommand
  /\ state' = "stopped"
  /\ UNCHANGED <<task, call, requests, receipts, command, export, coord, load, work>>

\* Mutant: only the owner is looked at.
ReconcileOwner ==
  /\ ~Locked /\ command.owner = "dead"
  /\ command' = NoCommand
  /\ receipts' = [receipts EXCEPT ![task.active] =
                    Append(@, [outcome |-> "unknown", tree |-> Unknown])]
  /\ UNCHANGED <<state, task, call, requests, export, coord, load, work>>

\* The slot is released when owner and recorded launcher are known to be dead.
Reconcile ==
  /\ ~Locked /\ command.owner = "dead"
  /\ ~(command.child /\ launcher \in {"recorded", "running"})
  /\ command' = NoCommand
  /\ receipts' = [receipts EXCEPT ![task.active] =
                    Append(@, [outcome |-> "unknown", tree |-> Unknown])]
  /\ UNCHANGED <<state, task, call, requests, export, coord, load, work>>

-----------------------------------------------------------------------------
(* Runs as RunLifecycle lets them move, other executions, and faults.        *)

RunBecomes(c, status, report) ==
  /\ call' = [call EXCEPT ![c].status = status, ![c].report = report]
  /\ UNCHANGED <<state, task, requests, receipts, command, export, coord, load, work>>

\* A worker claims the run, or nobody does within the deadline.
RunStarts(c) ==
  /\ c \in DOMAIN call /\ call[c].status \in {"reserved", "launched"}
  /\ \/ call[c].status = "launched" /\ RunBecomes(c, "live", "none")
     \/ RunBecomes(c, "failed", "none")

RunEnds(c) ==
  /\ c \in DOMAIN call /\ call[c].status = "live"
  /\ \/ RunBecomes(c, "failed", "none")
     \/ \E report \in Reports \ {"none"} : RunBecomes(c, "completed", report)

RunQuarantined(c) ==
  /\ "quarantine" \in Faults /\ c \in DOMAIN call /\ call[c].status = "live"
  /\ RunBecomes(c, "unknown", "none")

RunReconciled(c) ==
  /\ c \in DOMAIN call /\ call[c].status = "unknown"
  /\ RunBecomes(c, "failed", "none")

LoadChanges ==
  /\ \/ load' = load + 1 /\ ~Full
     \/ load > 0 /\ load' = load - 1
  /\ UNCHANGED <<state, task, call, requests, receipts, command, export, coord, work>>

\* The coordinator dies; so does the owner of its command.
Crash ==
  /\ "crash" \in Faults /\ Locked
  /\ coord' = Idle
  /\ command' = IF command = NoCommand THEN command ELSE [command EXCEPT !.owner = "dead"]
  /\ UNCHANGED <<state, task, call, requests, receipts, export, load, work>>

Tamper ==
  /\ "tamper" \in Faults /\ ~touched
  /\ touched' = TRUE /\ tree' \in Trees \ {tree}
  /\ UNCHANGED <<state, task, call, requests, receipts, command, export, coord, load, frozen,
                 launcher, performed>>

-----------------------------------------------------------------------------
Pass == Submit \/ Repair \/ Finish \/ Raise \/ \E batch \in Batches : Request(batch)
Edit == Read \/ Write \/ \E base \in Trees : Patch(base)
Performing == Interrupted \/ Begin \/ Edit \/ AdmitCheck \/ Fork \/ CheckEnds \/ Record \/ Revise
Finishing == Freeze \/ RecordExport \/ Halt \/ Launch
LauncherSteps == LauncherRecords \/ LauncherExecutes \/ LauncherExits
RunSteps(c) == RunStarts(c) \/ RunEnds(c) \/ RunReconciled(c)

Next ==
  \/ Reserve \/ Create \/ Bind
  \/ Enter \/ Leave \/ Pass \/ Obstacle \/ Performing \/ Finishing
  \/ LauncherSteps
  \/ Stop \/ FinishStop \/ Reconcile
  \/ \E c \in Calls : StopRun(c) \/ RunSteps(c) \/ RunQuarantined(c)
  \/ LoadChanges \/ Crash \/ Tamper

Spec == Init /\ [][Next]_vars

\* run is called again and again with a window in which it makes a pass and that
\* the coordinator survives, status while the workspace is stopping, and reconcile
\* when a check is in doubt; what was started runs on, and the runs end
\* (RunLifecycle's EveryRunSettles).  Nothing is promised of the executions of
\* others, and no fault has to happen.
Fairness ==
  /\ WF_vars(Enter) /\ SF_vars(Pass) /\ WF_vars(Performing) /\ SF_vars(Finishing)
  /\ WF_vars(Leave) /\ SF_vars(FinishStop) /\ SF_vars(Reconcile)
  /\ WF_vars(LauncherSteps)
  /\ \A c \in Calls : WF_vars(RunSteps(c)) /\ WF_vars(StopRun(c))

FairSpec == Spec /\ Fairness

-----------------------------------------------------------------------------
(* Safety.                                                                   *)

Executing == IF launcher \in {"recorded", "running"} THEN 1 ELSE 0

\* Whatever dies or is reconciled in between, a check that executes still holds
\* its slot: model runs, checks and the executions of others stay within
\* max_parallel.
LimitHolds == load + OwnRuns + Executing <= Parallel

\* No operation is performed twice: at most the one after the last receipt has
\* been begun, and after a crash it is never begun again.
OperationsOnce ==
  \A c \in Calls : /\ Len(receipts[c]) <= Len(requests[c])
                   /\ performed[c] \in {Len(receipts[c]), Len(receipts[c]) + 1}

\* Each call answers the one before it with what became of all its operations,
\* and sees the very tree they left, or repairs a report that asked for none.
CallsInformed ==
  \A c \in DOMAIN call :
    LET p == c - 1 IN
    /\ call[c].parent = p
    /\ IF p = 0 THEN call[c].tree = Baseline
       ELSE /\ call[c].told = receipts[p]
            /\ IF call[c].repair
               THEN /\ call[p].report = "malformed" /\ ~call[p].repair
                    /\ requests[p] = <<>> /\ call[c].tree = call[p].tree
               ELSE /\ call[p].report = "operations"
                    /\ Len(receipts[p]) = Len(requests[p])
                    /\ \A i \in DOMAIN receipts[p] : receipts[p][i].outcome \in {"ok", "failed"}
                    /\ call[c].tree = LastOf(receipts[p]).tree

ExportMatches ==
  /\ state = "finished" <=> export # NoExport
  /\ export # NoExport =>
       /\ export.call = Len(call) /\ call[export.call].report = "complete"
       /\ touched \/ export.tree = call[export.call].tree

\* An export is of the tree that the final, complete report is about, unless
\* somebody else wrote the tree; and a stop requested before it is recorded
\* wins, however far the freeze has come.
ExportExact ==
  []ExportMatches /\ [][(state \in {"stopping", "stopped"}) => export' = export]_vars

\* "stopped" is the end: nothing of the workspace runs or is in doubt, and
\* nothing of it changes any more.
StoppedIsQuiet ==
  [](state = "stopped" => OwnRuns = 0 /\ Executing = 0 /\ command = NoCommand) /\
  [][state = "stopped" => UNCHANGED <<state, task, call, requests, receipts, export>>
                          /\ (tree' # tree => touched' # touched)]_vars

(* Liveness.                                                                 *)

\* Others leave a slot of the local limit free for good.
RoomAtLast == <>[](load < Parallel)

\* A workspace that is run comes to an end or to Codex by what its calls answer,
\* unless others starve it: a pass that finds the limit full is tried again
\* without end.  And a stop drains whatever was going on, starved or not.
WorkspaceConcludes ==
  /\ RoomAtLast => (state = "active" ~> state \notin {"active", "operating"})
  /\ state = "stopping" ~> state = "stopped"
=============================================================================
