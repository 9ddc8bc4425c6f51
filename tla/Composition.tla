----------------------------- MODULE Composition -----------------------------
(***************************************************************************)
(* One composition (composition.py): a reviewed plan that Codex accepts,   *)
(* an editor's workspace, and a reviewer's workspace made from its frozen  *)
(* result.  Workflow and workspaces are the children: they move and may be *)
(* run and stopped on their own (modules Workflow and Workspace), and are  *)
(* here what the composition can tell of them.                             *)
(*                                                                          *)
(* Whoever coordinates, run, dispatch or stop, holds the composition's     *)
(* lock and may die between any two of its transactions.                   *)
(***************************************************************************)
EXTENDS Integers, FiniteSets

CONSTANTS
  Creators,    \* processes that send the same create request
  MaxCommits,  \* bound: commits the requested ref ever resolves to
  MaxRounds,   \* bound: runs of the plan's worker
  MaxCrashes   \* bound: coordinators that die

ASSUME CompositionAssumption ==
  MaxCommits \in Nat \ {0} /\ MaxRounds \in Nat \ {0} /\ MaxCrashes \in Nat

VARIABLES
  ref,       \* the commit the requested ref resolves to
  ledger,    \* answers in task_operations: the pinned commit (0: none), the test gates
  comp,      \* the row of "compositions", and whether it has a test contract
  flow,      \* the plan's workflow: state and reason, its worker's run, if it is complete
  space,     \* the workspaces: state, what they were made from, and their frozen result
  members,   \* "composition_members": phases with a recorded workspace
  results,   \* "composition_results": the plan's run (0: none), and recorded phases
  accepted,  \* review_decisions: accepted runs of the plan; the editor's result
  creator,   \* create: pc, commit
  dispatching, \* a dispatcher of several compositions is about to run this one
  coord,     \* the coordinator: pc, the accepted plan it read, children to stop
  crashes,   \* history: coordinators that died
  recommended, \* history: plan runs whose review recommended approval
  bypassed   \* history: the editor was accepted while it was no member

vars == <<ref, ledger, comp, flow, space, members, results, accepted, creator, dispatching,
          coord, crashes, recommended, bypassed>>

Commits == 1..MaxCommits
Rounds == 1..MaxRounds
Places == {"editor", "reviewer"}
Reasons == {"none", "plan_acceptance", "plan_review", "ready", "revise", "blocked", "failed", "stop"}
NoComp == [state |-> "none", reason |-> "none", phase |-> "plan", base |-> 0, contract |-> FALSE]
NoSpace == [state |-> "none", bound |-> FALSE, base |-> 0, good |-> FALSE, verdict |-> "none", intact |-> TRUE]
Away == [pc |-> "away", plan |-> 0, todo |-> {}, done |-> TRUE]

TypeOK ==
  /\ ref \in Commits
  /\ ledger \in [source : {0} \union Commits, baseline : {"none", "passed", "failed"},
                 post : {"none", "passed", "failed"}]
  /\ comp \in [state : {"none", "active", "awaiting", "stopping", "stopped"}, reason : Reasons,
               phase : {"plan"} \union Places, base : {0} \union Commits, contract : BOOLEAN]
  /\ flow \in [state : {"none", "active", "approve", "attention", "stopping", "stopped"},
               run : {0} \union Rounds, done : BOOLEAN]
  /\ space \in [Places -> [state : {"none", "reserved", "idle", "active", "awaiting", "stopping",
                                    "stopped", "finished"},
                           bound : BOOLEAN, base : {0} \union Commits, good : BOOLEAN,
                           verdict : {"none", "approve", "revise", "blocked"}, intact : BOOLEAN]]
  /\ members \subseteq Places
  /\ results \in [plan : {0} \union Rounds, phases : SUBSET Places]
  /\ accepted \in [plan : SUBSET Rounds, editor : BOOLEAN]
  /\ creator \in [Creators -> [pc : {"away", "resolve", "pin", "flow", "insert"},
                               commit : {0} \union Commits]]
  /\ coord \in [pc : {"away", "read", "create", "populate", "gate", "bind", "record", "post",
                      "verdict", "stop"},
                plan : {0} \union Rounds, todo : SUBSET (Places \union {"plan"}), done : BOOLEAN]
  /\ dispatching \in BOOLEAN /\ crashes \in 0..MaxCrashes
  /\ recommended \subseteq Rounds /\ bypassed \in BOOLEAN

Init ==
  /\ ref = 1
  /\ ledger = [source |-> 0, baseline |-> "none", post |-> "none"]
  /\ comp = NoComp
  /\ flow = [state |-> "none", run |-> 0, done |-> FALSE]
  /\ space = [p \in Places |-> NoSpace]
  /\ members = {} /\ results = [plan |-> 0, phases |-> {}]
  /\ accepted = [plan |-> {}, editor |-> FALSE]
  /\ creator = [c \in Creators |-> [pc |-> "away", commit |-> 0]]
  /\ dispatching = FALSE /\ coord = Away /\ crashes = 0 /\ recommended = {} /\ bypassed = FALSE

history == <<crashes, recommended, bypassed>>
children == <<flow, space>>
records == <<members, results, accepted>>
callers == <<creator, dispatching>>

State(p) == space[p].state
Exists(p) == State(p) \notin {"none", "reserved"}
Frozen(p) == State(p) = "finished" /\ space[p].intact

-----------------------------------------------------------------------------
(* create.                                                                   *)

Moves(c, from, to) == creator[c].pc = from /\ creator' = [creator EXCEPT ![c].pc = to]
Takes(c, commit, pc) == creator' = [creator EXCEPT ![c] = [pc |-> pc, commit |-> commit]]
Returns(c) == creator' = [creator EXCEPT ![c] = [pc |-> "away", commit |-> 0]]

\* A pinned commit is taken over; otherwise the ref is resolved outside any transaction.
\* Once the composition exists a request has no effect any more.
ReadPin(c) ==
  /\ creator[c].pc = "away" /\ comp = NoComp
  /\ IF ledger.source # 0 THEN Takes(c, ledger.source, "flow") ELSE Takes(c, 0, "resolve")
  /\ UNCHANGED <<ref, ledger, comp, children, records, dispatching, coord, history>>

Resolve(c) ==
  /\ creator[c].pc = "resolve" /\ Takes(c, ref, "pin")
  /\ UNCHANGED <<ref, ledger, comp, children, records, dispatching, coord, history>>

\* Mutant: what was pinned in between is not looked at.
PinResolved(c) ==
  /\ creator[c].pc = "pin" /\ Moves(c, "pin", "flow")
  /\ ledger' = [ledger EXCEPT !.source = IF @ = 0 THEN creator[c].commit ELSE @]
  /\ UNCHANGED <<ref, comp, children, records, dispatching, coord, history>>

\* The first to pin decides.
PinSource(c) ==
  /\ creator[c].pc = "pin"
  /\ IF ledger.source # 0 THEN Takes(c, ledger.source, "flow") /\ UNCHANGED ledger
     ELSE ledger' = [ledger EXCEPT !.source = creator[c].commit] /\ Moves(c, "pin", "flow")
  /\ UNCHANGED <<ref, comp, children, records, dispatching, coord, history>>

\* The inputs are refused, or differ from those of an earlier attempt: the roles'
\* defaults or the cached scout are others by now; or the creator dies.
Refuse(c) ==
  /\ creator[c].pc # "away" /\ Returns(c)
  /\ UNCHANGED <<ref, ledger, comp, children, records, dispatching, coord, history>>

\* The workflow is created or found under the operation id that only this
\* composition has.
CreateFlow(c) ==
  /\ Moves(c, "flow", "insert")
  /\ flow' = IF flow.state # "none" THEN flow
             ELSE [state |-> "active", run |-> 1, done |-> FALSE]
  /\ UNCHANGED <<ref, ledger, comp, space, records, dispatching, coord, history>>

\* The row is inserted once; what the other creators still do changes nothing.
Insert(c) ==
  /\ creator[c].pc = "insert" /\ comp = NoComp
  /\ \E contract \in BOOLEAN :
       comp' = [NoComp EXCEPT !.state = "active", !.base = creator[c].commit,
                              !.contract = contract]
  /\ creator' = [d \in Creators |-> [pc |-> "away", commit |-> 0]]
  /\ UNCHANGED <<ref, ledger, children, records, dispatching, coord, history>>

-----------------------------------------------------------------------------
(* run, once or in a loop, and dispatch: one advancement under the lock.     *)

Goes(pc) == coord' = [coord EXCEPT !.pc = pc]
Leaves == coord' = Away

\* _halt.
Halted(reason) ==
  IF comp.state = "active" THEN [comp EXCEPT !.state = "awaiting", !.reason = reason] ELSE comp
Halts(reason) == comp' = Halted(reason) /\ Leaves

\* Mutant: only the members are stopped.
MemberChildren == members \union {"plan"}

\* _finish_stop: the members, and workspaces whose creation was recorded.
FoundChildren == {p \in Places : p \in members \/ Exists(p)} \union {"plan"}

BeginStopping ==
  coord' = [pc |-> "stop", plan |-> 0, todo |-> FoundChildren, done |-> TRUE]

Advances ==
  /\ coord = Away /\ comp.state \notin {"none", "stopped"}
  /\ IF comp.state = "stopping" THEN BeginStopping ELSE Goes("read")

Begin ==
  /\ Advances
  /\ UNCHANGED <<ref, ledger, comp, children, records, callers, history>>

\* dispatch: round for round it looks whether a selected composition has anything
\* to do ...
DispatchReads ==
  /\ ~dispatching /\ comp.state \in {"active", "stopping"} /\ dispatching' = TRUE
  /\ UNCHANGED <<ref, ledger, comp, children, records, creator, coord, history>>

\* ... and calls run once, on whatever has become of it.  One that is busy is skipped
\* until the next dispatch; or the deadline is over, or the dispatcher dies.
DispatchCalls ==
  /\ dispatching /\ dispatching' = FALSE
  /\ Advances \/ UNCHANGED coord
  /\ UNCHANGED <<ref, ledger, comp, children, records, creator, history>>

\* The accepted result is the one of the worker's present run.
PlanAccepted == flow.done /\ flow.run \in accepted.plan

\* Mutant: an accepted plan is good enough.
ReadPlanTrusting ==
  /\ coord.pc = "read" /\ comp.phase = "plan"
  /\ IF PlanAccepted
     THEN /\ comp' = IF comp.state = "awaiting" /\ comp.reason = "plan_acceptance"
                     THEN [comp EXCEPT !.state = "active", !.reason = "none"] ELSE comp
          /\ coord' = [coord EXCEPT !.pc = "create", !.plan = flow.run]
     ELSE Leaves /\ UNCHANGED comp
  /\ UNCHANGED <<ref, ledger, children, records, callers, history>>

\* Mutant: the plan's workflow is run whatever came of it.
ReadPlanEndless ==
  /\ coord.pc = "read" /\ comp.phase = "plan"
  /\ IF PlanAccepted /\ flow.state = "approve"
     THEN /\ comp' = IF comp.state = "awaiting" /\ comp.reason = "plan_acceptance"
                     THEN [comp EXCEPT !.state = "active", !.reason = "none"] ELSE comp
          /\ coord' = [coord EXCEPT !.pc = "create", !.plan = flow.run]
     ELSE IF flow.state = "approve" THEN Halts("plan_acceptance") ELSE Leaves /\ UNCHANGED comp
  /\ UNCHANGED <<ref, ledger, children, records, callers, history>>

\* The plan goes on if it is accepted and its review recommended that; otherwise
\* its workflow is run once, and where it waits for Codex so does the composition.
ReadPlan ==
  /\ coord.pc = "read" /\ comp.phase = "plan"
  /\ \/ /\ PlanAccepted /\ flow.state = "approve"
        /\ comp' = IF comp.state = "awaiting" /\ comp.reason = "plan_acceptance"
                   THEN [comp EXCEPT !.state = "active", !.reason = "none"] ELSE comp
        /\ coord' = [coord EXCEPT !.pc = "create", !.plan = flow.run]
     \/ PlanAccepted /\ flow.state # "approve" /\ Halts("plan_review")
     \/ ~PlanAccepted /\ flow.state = "approve" /\ Halts("plan_acceptance")
     \/ ~PlanAccepted /\ flow.state = "attention" /\ Halts("failed")
     \/ ~PlanAccepted /\ flow.state \notin {"approve", "attention"} /\ Leaves /\ UNCHANGED comp
  /\ UNCHANGED <<ref, ledger, children, records, callers, history>>

\* The workspace of the phase: an intact frozen result goes on, anything else is
\* run once more, and halts the composition if it waits for Codex.
ReadWorkspace ==
  /\ coord.pc = "read" /\ comp.phase # "plan"
  /\ LET state == State(comp.phase)
     IN  \/ Frozen(comp.phase) /\ UNCHANGED comp
            /\ Goes(IF comp.phase = "editor" THEN "post" ELSE "verdict")
         \/ ~Frozen(comp.phase) /\ state \in {"finished", "awaiting"} /\ Halts("failed")
         \/ state \notin {"finished", "awaiting"} /\ Leaves /\ UNCHANGED comp
  /\ UNCHANGED <<ref, ledger, children, records, callers, history>>

\* _post_gate: the receipts of the required checks belong to the final tree.
PostGate ==
  /\ coord.pc = "post"
  /\ LET found == IF space["editor"].good THEN "passed" ELSE "failed"
     IN  IF ~comp.contract THEN Goes("create") /\ UNCHANGED <<ledger, comp>>
         ELSE /\ ledger' = [ledger EXCEPT !.post = IF @ = "none" THEN found ELSE @]
              /\ IF ledger'.post = "passed" THEN Goes("create") /\ UNCHANGED comp
                 ELSE Halts("failed")
  /\ UNCHANGED <<ref, children, records, callers, history>>

\* What _materialize_editor or _materialize_reviewer make.
Target == IF comp.phase = "plan" THEN "editor" ELSE "reviewer"

\* workspace.create of the target: the reservation is an operation of the
\* composition; one that was interrupted is never made up for.
CreateSpace ==
  /\ coord.pc = "create"
  /\ \/ State(Target) = "none" /\ Goes("populate") /\ UNCHANGED comp
        /\ space' = [space EXCEPT ![Target].state = "reserved"]
     \/ State(Target) = "reserved" /\ Halts("failed") /\ UNCHANGED space
     \/ Exists(Target) /\ Goes("gate") /\ UNCHANGED <<comp, space>>
  /\ UNCHANGED <<ref, ledger, flow, records, callers, history>>

\* The pinned commit, or the intact frozen tree of the editor.
Populate ==
  /\ coord.pc = "populate"
  /\ LET base == IF Target = "editor" THEN comp.base ELSE space["editor"].base
     IN  IF Target = "reviewer" /\ ~space["editor"].intact THEN Halts("failed") /\ UNCHANGED space
         ELSE /\ space' = [space EXCEPT ![Target].state = "idle", ![Target].base = base]
              /\ Goes("gate") /\ UNCHANGED comp
  /\ UNCHANGED <<ref, ledger, flow, records, callers, history>>

\* _baseline_gate: the checks run on a copy of the baseline, and only what they
\* said first counts.  A reviewer has none.
BaselineGate ==
  /\ coord.pc = "gate"
  /\ IF Target = "reviewer" \/ ~comp.contract THEN Goes("bind") /\ UNCHANGED <<ledger, comp>>
     ELSE /\ \E found \in {"passed", "failed"} :
               ledger' = [ledger EXCEPT !.baseline = IF @ = "none" THEN found ELSE @]
          /\ IF ledger'.baseline = "passed" THEN Goes("bind") /\ UNCHANGED comp
             ELSE Halts("failed")
  /\ UNCHANGED <<ref, children, records, callers, history>>

\* workspace.bind, an operation as well; a workspace has one task.
Bind ==
  /\ coord.pc = "bind"
  /\ \/ State(Target) = "idle" /\ Goes("record") /\ UNCHANGED comp
        /\ space' = [space EXCEPT ![Target].state = "active", ![Target].bound = TRUE]
     \/ space[Target].bound /\ Goes("record") /\ UNCHANGED <<comp, space>>
     \/ State(Target) # "idle" /\ ~space[Target].bound /\ Halts("failed") /\ UNCHANGED space
  /\ UNCHANGED <<ref, ledger, flow, records, callers, history>>

\* _record_result: the run of the accepted plan, or a phase with its frozen result.
Recorded(phase) ==
  IF phase = "plan" THEN [results EXCEPT !.plan = coord.plan]
  ELSE [results EXCEPT !.phases = @ \union {phase}]

\* The phase ends with one transaction, if it has not been halted.
Record ==
  /\ coord.pc = "record" /\ Leaves
  /\ IF comp.state # "active" THEN UNCHANGED <<comp, members, results>>
     ELSE /\ comp' = [comp EXCEPT !.phase = Target]
          /\ members' = members \union {Target}
          /\ results' = Recorded(comp.phase)
  /\ UNCHANGED <<ref, ledger, children, accepted, callers, history>>

\* The reviewer's result counts even where the composition has been halted.
Verdict ==
  /\ coord.pc = "verdict" /\ Leaves
  /\ results' = Recorded("reviewer")
  /\ LET verdict == space["reviewer"].verdict
         reason == IF verdict = "approve" THEN "ready" ELSE verdict
     IN  comp' = Halted(reason)
  /\ UNCHANGED <<ref, ledger, children, members, accepted, callers, history>>

\* Any call may fail: a child that is busy, a sandbox or a file that is missing.
Fails ==
  /\ coord.pc \notin {"away", "stop"} /\ Halts("failed")
  /\ UNCHANGED <<ref, ledger, children, records, callers, history>>

Dies ==
  /\ coord # Away /\ Leaves
  /\ crashes < MaxCrashes /\ crashes' = crashes + 1
  /\ UNCHANGED <<ref, ledger, comp, children, records, callers, recommended, bypassed>>

-----------------------------------------------------------------------------
(* stop.                                                                     *)

StopCommand ==
  /\ coord = Away /\ comp.state \notin {"none", "stopped"}
  /\ comp' = [comp EXCEPT !.state = "stopping", !.reason = "stop"]
  /\ BeginStopping
  /\ UNCHANGED <<ref, ledger, children, records, callers, history>>

Stopped(state) == IF state = "stopped" THEN "stopped" ELSE "stopping"

\* workspace.status exports a finished workspace: its frozen result was damaged.
Damaged(p) == p # "plan" /\ State(p) = "finished" /\ ~space[p].intact

\* _finish_stop raises at a damaged child and leaves the rest as it is, every time.
StopRaises(p) ==
  /\ coord.pc = "stop" /\ p \in coord.todo /\ Damaged(p)
  /\ Leaves
  /\ UNCHANGED <<ref, ledger, comp, children, records, callers, history>>

\* One child after the other, the plan's workflow last; a finished workspace stays.
StopChild(p) ==
  /\ coord.pc = "stop" /\ p \in coord.todo /\ ~Damaged(p)
  /\ p = "plan" => coord.todo = {"plan"}
  /\ LET state == IF p = "plan" THEN flow.state ELSE State(p)
     IN  /\ coord' = [coord EXCEPT !.todo = @ \ {p},
                                   !.done = @ /\ state \in {"stopped", "finished"}]
         /\ IF p = "plan"
            THEN flow' = [flow EXCEPT !.state = Stopped(@)] /\ UNCHANGED space
            ELSE /\ space' = [space EXCEPT ![p].state = IF @ = "finished" THEN @ ELSE Stopped(@)]
                 /\ UNCHANGED flow
  /\ UNCHANGED <<ref, ledger, comp, records, callers, history>>

StopEnds ==
  /\ coord.pc = "stop" /\ coord.todo = {} /\ Leaves
  /\ comp' = IF coord.done THEN [comp EXCEPT !.state = "stopped"] ELSE comp
  /\ UNCHANGED <<ref, ledger, children, records, callers, history>>

-----------------------------------------------------------------------------
(* Codex: task accept, with the guards of workspaces and compositions.       *)

\* A complete report of the present run; once the composition exists, only after
\* the review recommended it.
AcceptPlan ==
  /\ flow.done
  /\ comp # NoComp => flow.state = "approve"
  /\ accepted' = [accepted EXCEPT !.plan = @ \union {flow.run}]
  /\ UNCHANGED <<ref, ledger, comp, children, members, results, callers, coord, history>>

\* accept_guard for a member.
Vetted ==
  /\ comp.state = "awaiting" /\ comp.reason = "ready"
  /\ results.phases = Places
  /\ Frozen("reviewer") /\ space["reviewer"].verdict = "approve"

\* Mutant: the guard looks at the results and not at the state.
AcceptRecorded ==
  /\ Frozen("editor")
  /\ "editor" \in members => results.phases = Places
  /\ accepted' = [accepted EXCEPT !.editor = TRUE]
  /\ bypassed' = (bypassed \/ "editor" \notin members)
  /\ UNCHANGED <<ref, ledger, comp, children, members, results, callers, coord, crashes, recommended>>

\* The intact frozen result; what is no member of a composition is not vetted.
AcceptEditor ==
  /\ Frozen("editor")
  /\ "editor" \in members => Vetted
  /\ accepted' = [accepted EXCEPT !.editor = TRUE]
  /\ bypassed' = (bypassed \/ (~accepted.editor /\ "editor" \notin members))
  /\ UNCHANGED <<ref, ledger, comp, children, members, results, callers, coord, crashes, recommended>>

-----------------------------------------------------------------------------
(* External: the repository and the children, whoever runs or stops them.    *)

\* What the ref resolves to is of no interest once the composition exists.
RefMoves ==
  /\ comp = NoComp /\ ref < MaxCommits /\ ref' = ref + 1
  /\ UNCHANGED <<ledger, comp, children, records, callers, coord, history>>

\* The worker completes; its reviewer recommends, asks for a revision, or the
\* workflow needs attention.
FlowMoves ==
  /\ flow.state = "active"
  /\ \/ ~flow.done /\ flow' = [flow EXCEPT !.done = TRUE] /\ UNCHANGED recommended
     \/ flow' = [flow EXCEPT !.state = "attention"] /\ UNCHANGED recommended
     \/ /\ flow.done /\ flow' = [flow EXCEPT !.state = "approve"]
        /\ recommended' = recommended \union {flow.run}
     \/ /\ flow.done /\ flow.run < MaxRounds /\ UNCHANGED recommended
        /\ flow' = [flow EXCEPT !.run = @ + 1, !.done = FALSE]
  /\ UNCHANGED <<ref, ledger, comp, space, records, callers, coord, crashes, bypassed>>

\* A bound workspace freezes its result, or waits for Codex.
SpaceMoves(p) ==
  /\ State(p) = "active"
  /\ \/ space' = [space EXCEPT ![p].state = "awaiting"]
     \/ p = "editor" /\ \E good \in BOOLEAN :
          space' = [space EXCEPT ![p].state = "finished", ![p].good = good]
     \/ p = "reviewer" /\ \E verdict \in {"approve", "revise", "blocked"} :
          space' = [space EXCEPT ![p].state = "finished", ![p].verdict = verdict]
  /\ UNCHANGED <<ref, ledger, comp, flow, records, callers, coord, history>>

FlowDrains ==
  /\ flow.state = "stopping" /\ flow' = [flow EXCEPT !.state = "stopped"]
  /\ UNCHANGED <<ref, ledger, comp, space, records, callers, coord, history>>

SpaceDrains(p) ==
  /\ State(p) = "stopping" /\ space' = [space EXCEPT ![p].state = "stopped"]
  /\ UNCHANGED <<ref, ledger, comp, flow, records, callers, coord, history>>

\* Somebody stops a child of its own, or damages a frozen result.
ChildStopped(p) ==
  /\ IF p = "plan" THEN /\ flow.state \notin {"none", "stopped"}
                        /\ flow' = [flow EXCEPT !.state = "stopping"] /\ UNCHANGED space
     ELSE /\ Exists(p) /\ State(p) \notin {"stopped", "finished"}
          /\ space' = [space EXCEPT ![p].state = "stopping"] /\ UNCHANGED flow
  /\ UNCHANGED <<ref, ledger, comp, records, callers, coord, history>>

FrozenDamaged(p) ==
  /\ State(p) = "finished"
  /\ space' = [space EXCEPT ![p].intact = FALSE]
  /\ UNCHANGED <<ref, ledger, comp, flow, records, callers, coord, history>>

CreateSteps(c) ==
  ReadPin(c) \/ Resolve(c) \/ PinSource(c) \/ Refuse(c) \/ CreateFlow(c) \/ Insert(c)

Advance ==
  \/ ReadPlan \/ ReadWorkspace \/ PostGate \/ CreateSpace \/ Populate \/ BaselineGate \/ Bind
  \/ Record \/ Verdict
  \/ \E p \in Places \union {"plan"} : StopChild(p) \/ StopRaises(p)
  \/ StopEnds

ChildSteps == FlowMoves \/ FlowDrains \/ \E p \in Places : SpaceMoves(p) \/ SpaceDrains(p)

Next ==
  \/ \E c \in Creators : CreateSteps(c)
  \/ DispatchReads \/ DispatchCalls
  \/ Begin \/ Advance \/ Fails \/ Dies \/ StopCommand \/ AcceptPlan \/ AcceptEditor
  \/ RefMoves \/ ChildSteps
  \/ \E p \in Places \union {"plan"} : ChildStopped(p)
  \/ \E p \in Places : FrozenDamaged(p)

Spec == Init /\ [][Next]_vars

\* Whoever runs a composition runs it while it is active or stopping ("run" loops
\* on just these states); the children end by themselves.
Runs == comp.state \in {"active", "stopping"} /\ (Begin \/ Advance)

FairSpec == Spec /\ WF_vars(Runs) /\ WF_vars(ChildSteps)

-----------------------------------------------------------------------------
(* Safety.                                                                   *)

\* However often the request is repeated, by whom and wherever the ref goes: the
\* composition, its editor and its reviewer are of the commit that was pinned first.
SourcePinned ==
  /\ comp # NoComp => comp.base = ledger.source
  /\ \A p \in Places : Exists(p) => space[p].base = ledger.source

\* No phase without the one before it: an editor was made for the present plan,
\* recommended by its review and accepted, and a reviewer for a finished editor
\* that passed the post gate; crashes and halts in between notwithstanding.
PhasesEarned ==
  /\ Exists("editor") => flow.run \in accepted.plan \intersect recommended
  /\ results.plan # 0 => results.plan = flow.run
  /\ State("reviewer") # "none" =>
       State("editor") = "finished" /\ (comp.contract => ledger.post = "passed" /\ space["editor"].good)
  /\ "reviewer" \in results.phases => "editor" \in results.phases

\* Codex accepts the editor as a member only after its reviewer recommended that.
AcceptanceVetted ==
  accepted.editor /\ ~bypassed =>
    /\ results.phases = Places /\ space["reviewer"].verdict = "approve"
    /\ comp.contract => ledger.baseline = "passed" /\ ledger.post = "passed"

\* A stopped composition has no child that works, recorded as a member or not,
\* and none begins to.
StopComplete ==
  comp.state = "stopped" =>
    /\ flow.state = "stopped"
    /\ \A p \in Places : State(p) \in {"none", "reserved", "finished", "stopped"}

\* status: accepted is derived.
StatusAccepted ==
  accepted.editor /\ {"editor", "reviewer"} \subseteq results.phases
  /\ comp.state \notin {"stopping", "stopped"}

\* docs/compositions.md: "revise" and "blocked" veto editor acceptance.  It does not
\* hold: see AcceptEditor for an editor that is no member yet.
VetoHolds == StatusAccepted => space["reviewer"].verdict = "approve"

-----------------------------------------------------------------------------
(* Liveness.                                                                 *)

\* The child of the present phase was stopped on its own.
ChildWasStopped ==
  IF comp.phase = "plan" THEN flow.state \in {"stopping", "stopped"}
  ELSE State(comp.phase) \in {"stopping", "stopped"}

\* An active composition comes to a halt, unless somebody stopped its child alone;
\* a stop that was recorded is carried out, unless a frozen result is damaged, at
\* which every attempt of it raises.
CompositionSettles ==
  /\ comp.state = "active" ~> comp.state # "active" \/ ChildWasStopped
  /\ comp.state = "stopping" ~> comp.state = "stopped" \/ \E p \in Places : Damaged(p)
=============================================================================
