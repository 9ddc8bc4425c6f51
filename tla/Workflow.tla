------------------------------ MODULE Workflow ------------------------------
(***************************************************************************)
(* One fixed proposal/review workflow (workflow.py) over its two member    *)
(* tasks, their queue entries and their runs.                              *)
(*                                                                         *)
(* Each action is one write transaction: advance, the admission of one     *)
(* entry by any dispatcher's tick, stop and the parts of _finish_stop.     *)
(* Several coordinators and dispatchers may run at once and die anywhere   *)
(* between two actions.  The members' tasks are owned: mutation_guard      *)
(* refuses every public change of them, but their sessions can still be    *)
(* followed up by name, and Codex may accept a result at any time.         *)
(***************************************************************************)
EXTENDS Integers

CONSTANTS
  MaxRevisions, MaxCalls,  \* create's upper bounds of the two budgets
  Policies,      \* the budgets a caller may choose: max_revisions and max_calls
  Activities     \* what happens besides advancing, admitting and running

ActivityKinds == {"accept", "stop", "foreign", "clock", "refuse", "lost_result",
                  "quarantine"}

ASSUME WorkflowAssumption ==
  /\ MaxRevisions \in Nat /\ MaxCalls \in Nat
  /\ Policies \subseteq [revisions: 0..MaxRevisions, calls: 2..MaxCalls]
  /\ Activities \subseteq ActivityKinds

Members == {"worker", "reviewer"}
Phases  == {"worker", "review"}
Rounds  == 0..MaxRevisions
Steps   == Phases \X Rounds
Runs    == 1..MaxCalls
Foreign == MaxCalls + 1   \* a turn of a member's session outside the workflow
Revisions == 0..(MaxRevisions + 2)

FlowStates == {"active", "awaiting_codex", "stopping", "stopped"}
Reasons == {"none", "attention", "codex_accepted", "approve_recommended",
            "review_blocked", "revise_limit", "call_limit", "stop_requested"}
\* "blocked" is waiting with a blocked_reason besides capacity and session_busy.
EntryStates == {"absent", "waiting", "blocked", "reserved", "cancelled"}
RunStatuses == {"absent", "pending", "live", "unknown", "completed", "failed"}
ActiveStatuses == {"pending", "live", "unknown"}
\* What inspect_run makes of a completed run: "none" is an invalid or a blocked
\* report, the others of a review its recommendation.
Reports == {"none", "complete", "approve", "revise", "blocked"}

VARIABLES
  policy,   \* column "policy" of "workflows"
  flow,     \* the rest of the row of table "workflows"
  step,     \* table "workflow_steps"; rev = 0 before the step exists
  receipt,  \* table "workflow_runs": the run of each step, 0 before
  task,     \* the members in "tasks", with their session's latest run
  entry,    \* table "queue_entries": the entry of each step
  run,      \* the members' rows of "runs"
  nrun,     \* how many there are
  accepted, \* runs with an accept decision
  reviewed, \* review runs whose recommendation is recorded
  clock     \* the wall clock against the dispatch window of the first reservation

vars == <<policy, flow, step, receipt, task, entry, run, nrun, accepted, reviewed, clock>>

NoStep == [rev |-> 0, source |-> 0]
NoRun == [status |-> "absent", step |-> <<"worker", 0>>, source |-> 0,
          report |-> "none", alive |-> FALSE]

TypeOK ==
  /\ policy \in Policies
  /\ flow \in [state: FlowStates, reason: Reasons, phase: Phases, round: Rounds]
  /\ step \in [Steps -> [rev: Revisions, source: 0..MaxCalls]]
  /\ receipt \in [Steps -> 0..MaxCalls]
  /\ task \in [Members -> [current: Revisions, parent: 0..MaxCalls,
                           active: 0..MaxCalls, latest: 0..Foreign]]
  /\ entry \in [Steps -> EntryStates]
  /\ run \in [Runs -> [status: RunStatuses, step: Steps, source: 0..MaxCalls,
                       report: Reports, alive: BOOLEAN]]
  /\ nrun \in 0..MaxCalls
  /\ accepted \subseteq Runs /\ reviewed \subseteq Runs
  /\ clock \in {"before", "open", "expired"}

\* create: both tasks, the first step and its queue entry in one transaction.
Init ==
  /\ policy \in Policies
  /\ flow = [state |-> "active", reason |-> "none", phase |-> "worker", round |-> 0]
  /\ step = [s \in Steps |-> IF s = <<"worker", 0>> THEN [rev |-> 1, source |-> 0]
                                                    ELSE NoStep]
  /\ receipt = [s \in Steps |-> 0]
  /\ task = [m \in Members |-> [current |-> 1, parent |-> 0, active |-> 0, latest |-> 0]]
  /\ entry = [s \in Steps |-> IF s = <<"worker", 0>> THEN "waiting" ELSE "absent"]
  /\ run = [r \in Runs |-> NoRun] /\ nrun = 0
  /\ accepted = {} /\ reviewed = {}
  /\ clock = "open"

-----------------------------------------------------------------------------
(* What the code reads.                                                      *)

Member(phase) == IF phase = "worker" THEN "worker" ELSE "reviewer"
Source(phase) == IF phase = "worker" THEN "reviewer" ELSE "worker"
Current == <<flow.phase, flow.round>>
Status(r) == run[r].status
Waiting(s) == entry[s] \in {"waiting", "blocked"}

\* Mutant: any completed run releases the next step.
CompleteAnyReport(r) == r \in Runs /\ Status(r) = "completed"

\* _complete: a completed run with a valid report that is not blocked.
Complete(r) == r \in Runs /\ Status(r) = "completed" /\ run[r].report # "none"

\* _members raises: a member's revision is not its last step's, or its session
\* has a later turn than the one its task or its revision knows.
MembersChanged ==
  \E m \in Members :
    LET revisions == {step[s].rev : s \in {q \in Steps : Member(q[1]) = m}} \union {1}
        known == IF task[m].active # 0 THEN task[m].active ELSE task[m].parent
    IN  \/ \E n \in revisions : n > task[m].current
        \/ task[m].current \notin revisions
        \/ task[m].latest # 0 /\ task[m].latest # known

Accepted == task["worker"].active # 0 /\ task["worker"].active \in accepted

WindowClosed == nrun > 0 /\ clock # "open"

\* A worker's turn needs a second call for its review.
CallsSuffice(phase) == policy.calls - nrun >= IF phase = "worker" THEN 2 ELSE 1

\* The source a step was prepared from is still the member's result.
SourceHolds(s) ==
  LET q == step[s].source
  IN  q # 0 => task[Source(s[1])].active = q /\ Complete(q)

\* reserve_in: the member's session is idle after a completed turn.
ContextSettled(m) ==
  LET r == task[m].latest IN r = 0 \/ (r \in Runs /\ Status(r) = "completed")

\* submit_in of a step's revision raises nothing (guard_in, _source, reserve_in).
Admissible(s) ==
  /\ flow.state = "active" /\ s = Current /\ receipt[s] = 0
  /\ step[s].rev = task[Member(s[1])].current
  /\ ~MembersChanged /\ ContextSettled(Member(s[1]))
  /\ ~Accepted
  /\ ~WindowClosed /\ CallsSuffice(s[1])
  /\ SourceHolds(s)

-----------------------------------------------------------------------------
(* Admission, by workflow run or by any dispatcher.                          *)

\* submit_in and record_in: the run, its receipt, its entry and its task.
Admit(s) ==
  LET r == nrun + 1
      m == Member(s[1])
  IN  /\ Waiting(s) /\ Admissible(s)
      /\ nrun' = r
      /\ run' = [run EXCEPT ![r] =
           [status |-> "pending", step |-> s, source |-> step[s].source,
            report |-> "none", alive |-> FALSE]]
      /\ receipt' = [receipt EXCEPT ![s] = r]
      /\ task' = [task EXCEPT ![m].active = r, ![m].latest = r]
      /\ entry' = [entry EXCEPT ![s] = "reserved"]
      /\ UNCHANGED <<policy, flow, step, accepted, reviewed, clock>>

\* The tick rolls back and records why (also an unreadable file, an effort that
\* cannot be probed); without capacity it tries again.
Refuse(s) ==
  /\ Waiting(s) /\ (~Admissible(s) \/ "refuse" \in Activities)
  /\ entry' = [entry EXCEPT ![s] = "blocked"]
  /\ UNCHANGED <<policy, flow, step, receipt, task, run, nrun, accepted, reviewed, clock>>

-----------------------------------------------------------------------------
(* advance.                                                                  *)

Withdrawn == [s \in Steps |-> IF Waiting(s) THEN "cancelled" ELSE entry[s]]

\* _halt: Codex decides from here on.
Halt(reason) ==
  /\ flow' = [flow EXCEPT !.state = "awaiting_codex", !.reason = reason]
  /\ entry' = Withdrawn
  /\ UNCHANGED <<policy, step, receipt, task, run, nrun, accepted, clock>>

\* _prepare: message, revision, step, round and queue entry of the next turn.
Prepare(phase, number) ==
  LET m == Member(phase)
      s == <<phase, number>>
  IN  /\ task' = [task EXCEPT ![m].current = @ + 1, ![m].parent = task[m].active,
                              ![m].active = 0]
      /\ step' = [step EXCEPT ![s] =
           [rev |-> task[m].current + 1, source |-> receipt[Current]]]
      /\ flow' = [flow EXCEPT !.phase = phase, !.round = number]
      /\ entry' = [entry EXCEPT ![s] = "waiting"]
      /\ UNCHANGED <<policy, receipt, run, nrun, accepted, clock>>

\* The window is checked once more; a refusal (a full queue, an input too
\* large) rolls back to the savepoint and halts.
Proceed(phase, number) ==
  \/ ~WindowClosed /\ Prepare(phase, number)
  \/ WindowClosed /\ Halt("attention")
  \/ "refuse" \in Activities /\ Halt("attention")

\* Mutant: the result under review is not looked at again.
DecidableBlindly(r) == run[r].source # 0

\* _decision_in of kind "review": the result under review is still there.
Decidable(r) == run[r].source # 0 /\ Status(run[r].source) = "completed"

\* Mutant: a blocked entry is waited for.
ObstructedButBlocked ==
  LET r == receipt[Current]
  IN  \/ nrun > 0 /\ clock = "before"
      \/ r = 0 /\ (WindowClosed \/ ~CallsSuffice(flow.phase))
      \/ r # 0 /\ Status(r) \in {"pending", "live"} /\ WindowClosed
      \/ r # 0 /\ Status(r) \notin {"pending", "live"} /\ ~Complete(r)
      \/ flow.phase = "review" /\ Complete(r) /\ ~Decidable(r)

\* _advance_in raises before it prepares anything.
Obstructed ==
  LET r == receipt[Current]
  IN  \/ nrun > 0 /\ clock = "before"
      \/ r = 0 /\ (entry[Current] = "blocked" \/ WindowClosed \/ ~CallsSuffice(flow.phase))
      \/ r # 0 /\ Status(r) \in {"pending", "live"} /\ WindowClosed
      \/ r # 0 /\ Status(r) \notin {"pending", "live"} /\ ~Complete(r)
      \/ flow.phase = "review" /\ Complete(r) /\ ~Decidable(r)

AdvanceObstructed ==
  /\ MembersChanged \/ (~Accepted /\ Obstructed)
  /\ Halt("attention")
  /\ UNCHANGED reviewed

AdvanceAccepted ==
  /\ ~MembersChanged /\ Accepted
  /\ Halt("codex_accepted")
  /\ UNCHANGED reviewed

Advancing(phase) ==
  /\ flow.phase = phase
  /\ ~MembersChanged /\ ~Accepted /\ ~Obstructed
  /\ Complete(receipt[Current])

AdvanceToReview ==
  /\ Advancing("worker")
  /\ IF nrun >= policy.calls THEN Halt("call_limit") ELSE Proceed("review", flow.round)
  /\ UNCHANGED reviewed

MayRevise == flow.round < policy.revisions

\* The recommendation is recorded, whatever becomes of the next stage.
AdvanceReviewed ==
  LET r == receipt[Current]
  IN  /\ Advancing("review")
      /\ reviewed' = reviewed \union {r}
      /\ \/ run[r].report = "approve" /\ Halt("approve_recommended")
         \/ run[r].report \notin {"approve", "revise"} /\ Halt("review_blocked")
         \/ /\ run[r].report = "revise"
            /\ \/ ~MayRevise /\ Halt("revise_limit")
               \/ MayRevise /\ policy.calls - nrun < 2 /\ Halt("call_limit")
               \/ MayRevise /\ policy.calls - nrun >= 2 /\ Proceed("worker", flow.round + 1)

Advance ==
  /\ flow.state = "active"
  /\ AdvanceObstructed \/ AdvanceAccepted \/ AdvanceToReview \/ AdvanceReviewed

-----------------------------------------------------------------------------
(* stop, and _finish_stop of any later call.                                 *)

Stop ==
  /\ "stop" \in Activities
  /\ flow.state \in {"active", "awaiting_codex"}
  /\ flow' = [flow EXCEPT !.state = "stopping", !.reason = "stop_requested"]
  /\ entry' = Withdrawn
  /\ UNCHANGED <<policy, step, receipt, task, run, nrun, accepted, reviewed, clock>>

\* Store.stop ends a pending run at once; it asks a live one to end (RunEnds).
StopRun(r) ==
  /\ flow.state = "stopping"
  /\ Status(r) = "pending"
  /\ run' = [run EXCEPT ![r].status = "failed"]
  /\ UNCHANGED <<policy, flow, step, receipt, task, entry, nrun, accepted, reviewed, clock>>

FinishStop ==
  /\ flow.state = "stopping"
  /\ \A r \in Runs : Status(r) \notin ActiveStatuses /\ ~run[r].alive
  /\ flow' = [flow EXCEPT !.state = "stopped"]
  /\ UNCHANGED <<policy, step, receipt, task, entry, run, nrun, accepted, reviewed, clock>>

-----------------------------------------------------------------------------
(* The runs as RunLifecycle lets them end, and everybody else.               *)

RunBecomes(r, status, report, alive) ==
  /\ run' = [run EXCEPT ![r].status = status, ![r].report = report, ![r].alive = alive]
  /\ UNCHANGED <<policy, flow, step, receipt, task, entry, nrun, accepted, reviewed, clock>>

\* A worker claims a pending run, or nobody does within the deadline.
RunStarts(r) ==
  /\ Status(r) = "pending"
  /\ RunBecomes(r, "live", "none", TRUE) \/ RunBecomes(r, "failed", "none", FALSE)

\* The worker commits and lives on for a moment.
RunEnds(r) ==
  /\ Status(r) = "live"
  /\ \/ RunBecomes(r, "failed", "none", TRUE)
     \/ \E report \in IF run[r].step[1] = "worker" THEN {"none", "complete"}
                      ELSE {"none", "approve", "revise", "blocked"} :
          RunBecomes(r, "completed", report, TRUE)

WorkerExits(r) ==
  /\ Status(r) \in {"completed", "failed"} /\ run[r].alive
  /\ RunBecomes(r, Status(r), run[r].report, FALSE)

RunQuarantined(r) ==
  /\ "quarantine" \in Activities
  /\ Status(r) = "live"
  /\ RunBecomes(r, "unknown", "none", TRUE)

RunReconciled(r) ==
  /\ Status(r) = "unknown"
  /\ RunBecomes(r, "failed", "none", FALSE)

ResultLost(r) ==
  /\ "lost_result" \in Activities
  /\ Status(r) = "completed"
  /\ RunBecomes(r, "failed", run[r].report, run[r].alive)

\* Codex accepts the worker's current complete result.
Accept ==
  LET r == task["worker"].active
  IN  /\ "accept" \in Activities
      /\ Complete(r)
      /\ accepted' = accepted \union {r}
      /\ UNCHANGED <<policy, flow, step, receipt, task, entry, run, nrun, reviewed, clock>>

\* followup or restart of a member's idle session by its name.
ForeignTurn(m) ==
  /\ "foreign" \in Activities
  /\ task[m].latest \in Runs /\ Status(task[m].latest) \notin ActiveStatuses
  /\ task' = [task EXCEPT ![m].latest = Foreign]
  /\ UNCHANGED <<policy, flow, step, receipt, entry, run, nrun, accepted, reviewed, clock>>

\* Time passes, and wall clocks are also set.
ClockMoves(to) ==
  /\ "clock" \in Activities
  /\ clock' = to
  /\ UNCHANGED <<policy, flow, step, receipt, task, entry, run, nrun, accepted, reviewed>>

-----------------------------------------------------------------------------
RunStep(r) == RunStarts(r) \/ RunEnds(r) \/ WorkerExits(r)

Next ==
  \/ Advance \/ Stop \/ FinishStop \/ Accept
  \/ \E s \in Steps : Admit(s) \/ Refuse(s)
  \/ \E r \in Runs : \/ StopRun(r) \/ RunStep(r) \/ RunQuarantined(r)
                     \/ RunReconciled(r) \/ ResultLost(r)
  \/ \E m \in Members : ForeignTurn(m)
  \/ \E to \in {"before", "open", "expired"} : ClockMoves(to)

Spec == Init /\ [][Next]_vars

\* The workflow is run again and again while it is active or stopping, the
\* other runs that fill the capacity end, and so do the workflow's own.
Fairness ==
  /\ WF_vars(Advance) /\ WF_vars(FinishStop)
  /\ WF_vars(\E s \in Steps : Admit(s) \/ Refuse(s))
  /\ \A r \in Runs : WF_vars(RunStep(r))

FairSpec == Spec /\ Fairness

-----------------------------------------------------------------------------
(* Safety.                                                                   *)

\* Each turn answers the turn before it: a review its complete proposal, a
\* revision the review that asked for it; whatever happened to the queue, the
\* sessions or the coordinator between the two.
TurnsAnswerEachOther ==
  \A r \in 1..nrun :
    IF r = 1 THEN run[r].step = <<"worker", 0>> /\ run[r].source = 0
    ELSE LET q == run[r - 1] IN
         /\ run[r].source = r - 1
         /\ IF q.step[1] = "worker"
            THEN q.report = "complete" /\ run[r].step = <<"review", q.step[2]>>
            ELSE q.report = "revise" /\ run[r].step = <<"worker", q.step[2] + 1>>

\* A recommendation to approve is about the worker's current result, recorded
\* while that result was there and nobody had accepted it.
ApprovalExact ==
  [][flow.reason # "approve_recommended" /\ flow'.reason = "approve_recommended" =>
       LET q == task["worker"].active IN
       /\ \E r \in reviewed' : run[r].source = q /\ run[r].report = "approve"
       /\ Complete(q) /\ q \notin accepted]_vars

\* An entry of a member waits only for the present step of an active workflow
\* that has no run yet.
EntriesOfPresentStep ==
  \A s \in Steps : Waiting(s) =>
    flow.state = "active" /\ s = Current /\ receipt[s] = 0

\* "stopped after termination is established": of no turn of a stopped
\* workflow is anything alive or in doubt.
StoppedIsQuiet ==
  flow.state = "stopped" =>
    \A r \in Runs : Status(r) \notin ActiveStatuses /\ ~run[r].alive

\* The workflow implements the bounded review: its turns are the runs of its
\* members, and it is open while it is active and nothing is accepted.
Review == INSTANCE BoundedReview WITH
  Policies <- Policies, policy <- policy, turns <- nrun,
  open <- flow.state = "active" /\ ~Accepted

BoundsRespected == Review!Spec

(* Liveness.                                                                 *)

\* Automation never hangs: an active workflow that is run comes to Codex, and
\* a stopping one stops unless a run is in quarantine.
WorkflowConcludes ==
  /\ flow.state = "active" ~> flow.state # "active"
  /\ flow.state = "stopping" ~>
       flow.state = "stopped" \/ \E r \in Runs : Status(r) = "unknown"
=============================================================================
