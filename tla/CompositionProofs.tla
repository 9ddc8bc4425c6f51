--------------------------- MODULE CompositionProofs ---------------------------
(***************************************************************************)
(* The safety of a composition (Composition) for every number of creators, *)
(* commits, rounds of the plan and crashes.  The inductive invariant says  *)
(* what the row of the composition implies about its children, and what    *)
(* the coordinator may rely on between two of its transactions.            *)
(***************************************************************************)
EXTENDS Composition, TLAPS

LedgerRecord ==
  [source : {0} \union Commits, baseline : {"none", "passed", "failed"},
   post : {"none", "passed", "failed"}]
CompRecord ==
  [state : {"none", "active", "awaiting", "stopping", "stopped"}, reason : Reasons,
   phase : {"plan"} \union Places, base : {0} \union Commits, contract : BOOLEAN]
FlowRecord ==
  [state : {"none", "active", "approve", "attention", "stopping", "stopped"},
   run : {0} \union Rounds, done : BOOLEAN]
SpaceStates ==
  {"none", "reserved", "idle", "active", "awaiting", "stopping", "stopped", "finished"}
SpaceRecord ==
  [state : SpaceStates, bound : BOOLEAN, base : {0} \union Commits, good : BOOLEAN,
   verdict : {"none", "approve", "revise", "blocked"}, intact : BOOLEAN]
ResultRecord == [plan : {0} \union Rounds, phases : SUBSET Places]
AcceptedRecord == [plan : SUBSET Rounds, editor : BOOLEAN]
CreatorRecord ==
  [pc : {"away", "resolve", "pin", "flow", "insert"}, commit : {0} \union Commits]
CoordRecord ==
  [pc : {"away", "read", "create", "populate", "gate", "bind", "record", "post", "verdict", "stop"},
   plan : {0} \union Rounds, todo : SUBSET (Places \union {"plan"}), done : BOOLEAN]

\* TypeOK, with the rows named.
CompositionShape ==
  /\ ref \in Commits /\ ledger \in LedgerRecord /\ comp \in CompRecord /\ flow \in FlowRecord
  /\ space \in [Places -> SpaceRecord] /\ members \subseteq Places
  /\ results \in ResultRecord /\ accepted \in AcceptedRecord
  /\ creator \in [Creators -> CreatorRecord] /\ coord \in CoordRecord
  /\ dispatching \in BOOLEAN /\ crashes \in 0..MaxCrashes
  /\ recommended \subseteq Rounds /\ bypassed \in BOOLEAN

\* What the creators carry, and that they are done when the row is there.
CreatorsKnow ==
  /\ \A c \in Creators :
       /\ creator[c].pc = "pin" => creator[c].commit \in Commits
       /\ creator[c].pc \in {"flow", "insert"} =>
            creator[c].commit = ledger.source /\ ledger.source # 0
       /\ creator[c].pc = "insert" => flow.state # "none"
  /\ comp.state # "none" =>
       flow.state # "none" /\ ledger.source # 0 /\ \A c \in Creators : creator[c].pc = "away"

\* Without the row there is no child but the plan's workflow, and nobody coordinates.
NothingEarly ==
  comp.state = "none" =>
    /\ comp = NoComp /\ coord.pc = "away" /\ \A p \in Places : State(p) = "none"

\* Only the present run can be a recommended one, and a recommended one is the last.
FlowKnown ==
  /\ IF flow.state = "none" THEN flow.run = 0 /\ ~flow.done ELSE flow.run \in Rounds
  /\ recommended \subseteq {flow.run}
  /\ recommended # {} => flow.state \in {"approve", "stopping", "stopped"}
  /\ flow.state = "approve" => flow.run \in recommended /\ flow.done

PlanEarned == flow.run \in accepted.plan /\ flow.run \in recommended

EditorEarned ==
  State("editor") = "finished" /\ (comp.contract => ledger.post = "passed" /\ space["editor"].good)

\* What is recorded when the composition is in a phase.
PhaseKnown ==
  /\ comp.phase = "plan" => members = {} /\ results.plan = 0 /\ results.phases = {}
  /\ comp.phase = "editor" => members = {"editor"} /\ results.phases = {}
  /\ comp.phase = "reviewer" =>
       /\ members = Places
       /\ results.phases \in {{"editor"}, Places}
       /\ "reviewer" \in results.phases => State("reviewer") = "finished"
  /\ comp.phase # "plan" /\ comp.contract => ledger.baseline = "passed"
  /\ \A p \in members : Exists(p)
  /\ results.plan # 0 => Exists("editor")

\* What the coordinator relies on between two transactions.
Making == {"create", "populate", "gate", "bind", "record"}
CoordinatorKnows ==
  /\ coord.pc \notin {"away", "stop"} => comp.state \in {"active", "awaiting"}
  /\ coord.pc = "stop" => comp.state = "stopping"
  /\ coord.pc \in Making => comp.phase \in {"plan", "editor"}
  /\ coord.pc \in Making /\ comp.phase = "plan" => coord.plan = flow.run /\ PlanEarned
  /\ coord.pc \in Making /\ comp.phase = "editor" => EditorEarned
  /\ coord.pc = "populate" => State(Target) = "reserved"
  /\ coord.pc \in {"gate", "bind", "record"} => Exists(Target)
  /\ coord.pc \in {"bind", "record"} /\ comp.phase = "plan" /\ comp.contract =>
       ledger.baseline = "passed"
  /\ coord.pc = "post" => comp.phase = "editor" /\ State("editor") = "finished"
  /\ coord.pc = "verdict" => comp.phase = "reviewer" /\ State("reviewer") = "finished"

\* The post gate spoke of the finished editor.
GateKnown ==
  ledger.post # "none" =>
    State("editor") = "finished" /\ (ledger.post = "passed" <=> space["editor"].good)

\* What a stop has done with the children it is through with.
StopKnown ==
  coord.pc = "stop" =>
    /\ \A p \in Places : p \in coord.todo => Exists(p)
    /\ coord.done =>
         /\ "plan" \notin coord.todo => flow.state = "stopped"
         /\ \A p \in Places \ coord.todo : State(p) \in {"none", "reserved", "finished", "stopped"}

CompositionInvariant ==
  /\ CompositionShape /\ CreatorsKnow /\ NothingEarly /\ FlowKnown /\ PhaseKnown
  /\ CoordinatorKnows /\ GateKnown /\ StopKnown
  /\ SourcePinned /\ PhasesEarned /\ AcceptanceVetted /\ StopComplete

-----------------------------------------------------------------------------
(* The first state, and steps that keep the records of the phases.           *)

\* Nothing is there before the first request (create).
LEMMA CompositionStarts == Init => CompositionInvariant
<1> SUFFICES ASSUME Init PROVE CompositionInvariant
  OBVIOUS
<1> USE DEF Init, State, Exists
<1>1. MaxCommits \in Nat \ {0} /\ MaxCrashes \in Nat
  BY CompositionAssumption DEF CompositionAssumption
<1>2. CompositionShape
  <2>1. ref \in Commits /\ crashes \in 0..MaxCrashes
    BY <1>1 DEF Commits
  <2>2. /\ ledger \in LedgerRecord /\ comp \in CompRecord /\ flow \in FlowRecord
        /\ results \in ResultRecord /\ accepted \in AcceptedRecord /\ coord \in CoordRecord
    BY DEF LedgerRecord, CompRecord, FlowRecord, ResultRecord, AcceptedRecord, CoordRecord, NoComp,
       Away, Reasons
  <2>3. NoSpace \in SpaceRecord /\ [pc |-> "away", commit |-> 0] \in CreatorRecord
    BY DEF NoSpace, SpaceRecord, SpaceStates, CreatorRecord
  <2>4. space \in [Places -> SpaceRecord] /\ creator \in [Creators -> CreatorRecord]
    BY <2>3
  <2>5. dispatching \in BOOLEAN /\ bypassed \in BOOLEAN
    BY Zenon
  <2> QED BY <2>1, <2>2, <2>4, <2>5 DEF CompositionShape
<1>3. \A p \in Places : space[p].state = "none"
  BY DEF NoSpace
<1>4. CreatorsKnow /\ NothingEarly /\ FlowKnown
  BY <1>3 DEF CreatorsKnow, NothingEarly, FlowKnown, NoComp, Away
<1>5. PhaseKnown /\ CoordinatorKnows /\ GateKnown /\ StopKnown
  BY <1>3 DEF PhaseKnown, CoordinatorKnows, GateKnown, StopKnown, NoComp, Away, Making
<1>6. SourcePinned /\ PhasesEarned /\ AcceptanceVetted /\ StopComplete
  BY <1>3 DEF SourcePinned, PhasesEarned, AcceptanceVetted, StopComplete, NoComp, Places
<1> QED BY <1>2, <1>4, <1>5, <1>6 DEF CompositionInvariant

\* A step of the coordinator or of a workspace that records no phase: what exists goes on
\* existing and what is finished stays so (run, _halt, workspace.create, bind, stop).
LEMMA MoveSafe ==
  ASSUME CompositionInvariant,
         UNCHANGED <<flow, members, results, accepted, creator, recommended, bypassed>>,
         ref' \in Commits, dispatching' \in BOOLEAN, crashes' \in 0..MaxCrashes,
         comp' \in CompRecord, coord' \in CoordRecord, space' \in [Places -> SpaceRecord],
         ledger' \in LedgerRecord,
         \/ comp' = comp
         \/ /\ comp.state # "none" /\ comp'.state # "none"
            /\ comp'.phase = comp.phase /\ comp'.base = comp.base /\ comp'.contract = comp.contract,
         comp.state = "none" => coord'.pc = "away" /\ space' = space,
         ledger'.source = ledger.source,
         ledger.baseline = "passed" => ledger'.baseline = "passed",
         ledger.post = "passed" => ledger'.post = "passed",
         ledger'.post = ledger.post \/ GateKnown',
         \A p \in Places : Exists(p) => Exists(p)' /\ space'[p].base = space[p].base,
         \A p \in Places : State(p) = "finished" =>
           /\ space'[p].state = "finished"
           /\ space'[p].good = space[p].good /\ space'[p].verdict = space[p].verdict,
         \A p \in Places : Exists(p)' /\ ~Exists(p) =>
           space'[p].base = ledger.source /\ PlanEarned,
         space'["reviewer"].state # "none" => State("reviewer") # "none" \/ EditorEarned,
         CoordinatorKnows', StopKnown', StopComplete'
  PROVE  CompositionInvariant'
<1> USE DEF CompositionInvariant
<1>1. CompositionShape'
  BY DEF CompositionShape
<1>2. /\ comp'.phase = comp.phase /\ comp'.base = comp.base /\ comp'.contract = comp.contract
      /\ comp'.state = "none" <=> comp.state = "none"
      /\ comp.state = "none" => comp' = comp
  OBVIOUS
<1>3. CreatorsKnow'
  BY <1>2 DEF CreatorsKnow
<1>4. NothingEarly'
  BY <1>2 DEF NothingEarly, State
<1>5. FlowKnown'
  BY DEF FlowKnown
<1>6. GateKnown'
  BY DEF GateKnown, State, Places
<1>7. PhaseKnown'
  <2>1. "reviewer" \in results.phases /\ comp.phase = "reviewer" =>
          space'["reviewer"].state = "finished"
    BY DEF PhaseKnown, State, Places
  <2>2. \A p \in members : Exists(p)'
    BY DEF PhaseKnown, CompositionShape
  <2>3. results.plan # 0 => Exists("editor")'
    BY DEF PhaseKnown, Places
  <2>4. comp.phase # "plan" /\ comp.contract => ledger'.baseline = "passed"
    BY DEF PhaseKnown
  <2> QED BY <1>2, <2>1, <2>2, <2>3, <2>4 DEF PhaseKnown, State
<1>8. SourcePinned'
  <2>1. comp' # NoComp => comp'.base = ledger'.source
    BY <1>2 DEF SourcePinned, NothingEarly, NoComp
  <2>2. ASSUME NEW p \in Places, Exists(p)' PROVE space'[p].base = ledger'.source
    BY <2>2 DEF SourcePinned
  <2> QED BY <2>1, <2>2 DEF SourcePinned
<1>9. PhasesEarned'
  <2>1. Exists("editor")' => PlanEarned
    BY DEF PhasesEarned, PlanEarned, Places
  <2>2. space'["reviewer"].state # "none" => EditorEarned
    BY DEF PhasesEarned, EditorEarned
  <2>3. EditorEarned => space'["editor"].state = "finished"
                        /\ (comp.contract => ledger'.post = "passed" /\ space'["editor"].good)
    BY DEF EditorEarned, Places
  <2> QED BY <1>2, <2>1, <2>2, <2>3 DEF PhasesEarned, PlanEarned, State
<1>10. AcceptanceVetted'
  <2>1. results.phases = Places => comp.phase = "reviewer" /\ State("reviewer") = "finished"
    BY DEF PhaseKnown, CompositionShape, CompRecord, Places
  <2>2. results.phases = Places => space'["reviewer"].verdict = space["reviewer"].verdict
    BY <2>1 DEF Places
  <2> QED BY <1>2, <2>2 DEF AcceptanceVetted
<1> QED BY <1>1, <1>3, <1>4, <1>5, <1>6, <1>7, <1>8, <1>9, <1>10

\* A step that changes no child, no record and no gate (a create, a ref that moves).
LEMMA AsideSafe ==
  ASSUME CompositionInvariant,
         UNCHANGED <<ledger, flow, space, members, results, accepted, creator, recommended, bypassed>>,
         ref' \in Commits, dispatching' \in BOOLEAN, crashes' \in 0..MaxCrashes,
         comp' \in CompRecord, coord' \in CoordRecord,
         \/ comp' = comp
         \/ /\ comp.state # "none" /\ comp'.state # "none"
            /\ comp'.phase = comp.phase /\ comp'.base = comp.base /\ comp'.contract = comp.contract,
         comp.state = "none" => coord'.pc = "away",
         CoordinatorKnows', StopKnown', StopComplete'
  PROVE  CompositionInvariant'
<1>1. space \in [Places -> SpaceRecord] /\ ledger \in LedgerRecord
  BY DEF CompositionInvariant, CompositionShape
<1>2. \A p \in Places : Exists(p)' <=> Exists(p)
  BY DEF Exists, State
<1>3. /\ \A p \in Places : Exists(p) => Exists(p)' /\ space'[p].base = space[p].base
      /\ \A p \in Places : State(p) = "finished" =>
           /\ space'[p].state = "finished"
           /\ space'[p].good = space[p].good /\ space'[p].verdict = space[p].verdict
      /\ \A p \in Places : Exists(p)' /\ ~Exists(p) => space'[p].base = ledger.source /\ PlanEarned
      /\ space'["reviewer"].state # "none" => State("reviewer") # "none" \/ EditorEarned
  BY <1>2 DEF State
<1> QED BY <1>1, <1>3, MoveSafe

\* The coordinator leaves, and halts the composition or not (_halt, the lock).
LEMMA LeaveSafe ==
  ASSUME CompositionInvariant,
         UNCHANGED <<ledger, flow, space, members, results, accepted, creator, recommended, bypassed>>,
         ref' = ref, dispatching' \in BOOLEAN, crashes' \in 0..MaxCrashes, coord' = Away,
         comp' = comp \/ (coord.pc \notin {"away", "stop"} /\ \E reason \in Reasons : comp' = Halted(reason))
  PROVE  CompositionInvariant'
<1> USE DEF CompositionInvariant
<1>1. Away \in CoordRecord /\ Away.pc = "away"
  BY DEF Away, CoordRecord
<1>2. ref \in Commits /\ comp \in CompRecord
  BY DEF CompositionShape
<1>3. CoordinatorKnows' /\ StopKnown'
  BY <1>1 DEF CoordinatorKnows, StopKnown, Making
<1>4. CASE comp' = comp
  BY <1>1, <1>2, <1>3, <1>4, AsideSafe DEF StopComplete, State
<1>5. CASE coord.pc \notin {"away", "stop"} /\ \E reason \in Reasons : comp' = Halted(reason)
  <2>1. comp.state \in {"active", "awaiting"}
    BY <1>5 DEF CoordinatorKnows
  <2>2. /\ comp' \in CompRecord /\ comp'.state = "awaiting"
        /\ comp'.phase = comp.phase /\ comp'.base = comp.base /\ comp'.contract = comp.contract
    BY <1>2, <1>5, <2>1 DEF Halted, CompRecord
  <2>3. StopComplete'
    BY <2>2 DEF StopComplete
  <2> QED BY <1>1, <1>2, <1>3, <2>1, <2>2, <2>3, AsideSafe
<1> QED BY <1>4, <1>5

\* The coordinator goes on to another transaction.
LEMMA GoesTyped ==
  ASSUME CompositionShape,
         NEW pc \in {"read", "create", "populate", "gate", "bind", "record", "post", "verdict"},
         Goes(pc)
  PROVE  coord' \in CoordRecord /\ coord'.pc = pc /\ coord'.plan = coord.plan
BY DEF Goes, CompositionShape, CoordRecord

\* Whoever takes the lock reads the composition, or starts to stop its children (run,
\* _finish_stop).
LEMMA TakesTheLock ==
  ASSUME CompositionInvariant, coord = Away, comp' \in CompRecord,
         comp'.state \in {"active", "awaiting", "stopping"},
         UNCHANGED <<members, space, flow>>,
         IF comp'.state = "stopping" THEN BeginStopping ELSE Goes("read")
  PROVE  coord' \in CoordRecord /\ CoordinatorKnows' /\ StopKnown'
<1> USE DEF CompositionInvariant
<1>1. CASE comp'.state = "stopping"
  <2>1. FoundChildren \subseteq Places \union {"plan"} /\ "plan" \in FoundChildren
    BY DEF FoundChildren
  <2>2. coord' = [pc |-> "stop", plan |-> 0, todo |-> FoundChildren, done |-> TRUE]
    BY <1>1 DEF BeginStopping
  <2>3. coord' \in CoordRecord /\ coord'.pc = "stop" /\ coord'.todo = FoundChildren
    BY <2>1, <2>2 DEF CoordRecord
  <2>4. CoordinatorKnows'
    BY <1>1, <2>3 DEF CoordinatorKnows, Making
  <2>5. \A p \in Places : p \in FoundChildren => Exists(p)
    BY DEF FoundChildren, PhaseKnown, Places
  <2>6. \A p \in Places : p \notin FoundChildren => State(p) \in {"none", "reserved"}
    BY DEF FoundChildren, Exists
  <2>7. StopKnown'
    BY <2>1, <2>3, <2>5, <2>6 DEF StopKnown, Exists, State
  <2> QED BY <2>3, <2>4, <2>7
<1>2. CASE comp'.state # "stopping"
  <2>1. coord' \in CoordRecord /\ coord'.pc = "read"
    BY <1>2, GoesTyped
  <2> QED BY <1>2, <2>1 DEF CoordinatorKnows, StopKnown, Making
<1> QED BY <1>1, <1>2

\* Looking, taking and dropping the lock (run, dispatch, stop, a crash).
LEMMA LockSafe ==
  ASSUME CompositionInvariant,
         Begin \/ DispatchReads \/ DispatchCalls \/ StopCommand \/ Fails \/ Dies
  PROVE  CompositionInvariant'
<1> USE DEF CompositionInvariant
<1>1. /\ UNCHANGED <<ledger, flow, space, members, results, accepted, creator, recommended, bypassed>>
      /\ ref' = ref /\ ref \in Commits /\ comp \in CompRecord /\ coord \in CoordRecord
  BY DEF Begin, DispatchReads, DispatchCalls, StopCommand, Fails, Dies, children, records, callers,
     history, CompositionShape
<1>2. dispatching' \in BOOLEAN /\ crashes' \in 0..MaxCrashes
  <2>1. dispatching' \in BOOLEAN
    <3>1. dispatching \in BOOLEAN
      BY DEF CompositionShape
    <3>2. dispatching' = dispatching \/ dispatching' = TRUE \/ dispatching' = FALSE
      BY Zenon DEF Begin, DispatchReads, DispatchCalls, StopCommand, Fails, Dies, callers
    <3> QED BY <3>1, <3>2, Zenon
  <2>2. crashes' \in 0..MaxCrashes
    BY CompositionAssumption DEF Begin, DispatchReads, DispatchCalls, StopCommand, Fails, Dies, history,
       CompositionShape, CompositionAssumption
  <2> QED BY <2>1, <2>2
<1>3. CASE Advances /\ comp' = comp
  <2>1. comp.state \in {"active", "awaiting", "stopping"} /\ coord = Away
    BY <1>1, <1>3 DEF Advances, CompRecord
  <2>2. coord' \in CoordRecord /\ CoordinatorKnows' /\ StopKnown'
    BY <1>1, <1>3, <2>1, TakesTheLock DEF Advances
  <2>3. StopComplete'
    BY <1>3, <2>1 DEF StopComplete
  <2> QED BY <1>1, <1>2, <1>3, <2>1, <2>2, <2>3, AsideSafe
<1>4. CASE StopCommand
  <2>1. coord = Away /\ comp.state \in {"active", "awaiting", "stopping"}
        /\ comp' = [comp EXCEPT !.state = "stopping", !.reason = "stop"] /\ BeginStopping
    BY <1>1, <1>4 DEF StopCommand, CompRecord
  <2>2. /\ comp' \in CompRecord /\ comp'.state = "stopping"
        /\ comp'.phase = comp.phase /\ comp'.base = comp.base /\ comp'.contract = comp.contract
    BY <1>1, <2>1 DEF CompRecord, Reasons
  <2>3. coord' \in CoordRecord /\ CoordinatorKnows' /\ StopKnown'
    BY <1>1, <2>1, <2>2, TakesTheLock
  <2>4. StopComplete'
    BY <2>2 DEF StopComplete
  <2> QED BY <1>1, <1>2, <2>1, <2>2, <2>3, <2>4, AsideSafe
<1>5. CASE comp' = comp /\ coord' = coord
  <2>1. CoordinatorKnows' /\ StopKnown' /\ StopComplete'
    BY <1>1, <1>5 DEF CoordinatorKnows, StopKnown, StopComplete, Exists, State, Target, PlanEarned,
       EditorEarned, Making
  <2>2. comp.state = "none" => coord'.pc = "away"
    BY <1>5 DEF NothingEarly
  <2> QED BY <1>1, <1>2, <1>5, <2>1, <2>2, AsideSafe
<1>6. CASE Fails
  BY <1>1, <1>2, <1>6, LeaveSafe DEF Fails, Halts, Leaves, Reasons
<1>7. CASE Dies
  BY <1>1, <1>2, <1>7, LeaveSafe DEF Dies, Leaves
<1> QED BY <1>3, <1>4, <1>5, <1>6, <1>7 DEF Begin, DispatchReads, DispatchCalls

\* A stop that raises leaves everything as it is (_finish_stop, workspace.status).
LEMMA RaiseSafe ==
  ASSUME CompositionInvariant, NEW p \in Places, StopRaises(p) PROVE CompositionInvariant'
<1> USE DEF CompositionInvariant
<1>1. /\ UNCHANGED <<ledger, flow, space, members, results, accepted, creator, recommended, bypassed>>
      /\ ref' = ref /\ comp' = comp /\ dispatching' = dispatching /\ crashes' = crashes
      /\ coord.pc = "stop" /\ Leaves
  BY DEF StopRaises, children, records, callers, history
<1>2. /\ ref \in Commits /\ comp \in CompRecord /\ coord \in CoordRecord
      /\ dispatching' \in BOOLEAN /\ crashes' \in 0..MaxCrashes
  BY <1>1, Zenon DEF CompositionShape
<1> QED BY <1>1, <1>2, LeaveSafe DEF Leaves

\* What the coordinator reads of the plan or of the phase's workspace, and the end of a
\* stop (_advance_plan, _advance, _finish_stop).
LEMMA ReadSafe ==
  ASSUME CompositionInvariant, ReadPlan \/ ReadWorkspace \/ StopEnds
  PROVE  CompositionInvariant'
<1> USE DEF CompositionInvariant
<1>1. /\ UNCHANGED <<ledger, flow, space, members, results, accepted, creator, recommended, bypassed>>
      /\ ref' = ref /\ dispatching' = dispatching /\ crashes' = crashes
  BY DEF ReadPlan, ReadWorkspace, StopEnds, children, records, callers, history
<1>2. /\ ref \in Commits /\ comp \in CompRecord /\ coord \in CoordRecord
      /\ dispatching' \in BOOLEAN /\ crashes' \in 0..MaxCrashes
  BY <1>1, Zenon DEF CompositionShape
<1>3. CASE coord.pc = "read" /\ Leaves
           /\ (comp' = comp \/ \E reason \in Reasons : comp' = Halted(reason))
  BY <1>1, <1>2, <1>3, LeaveSafe DEF Leaves
<1>4. CASE ReadPlan /\ PlanAccepted /\ flow.state = "approve"
           /\ comp' = (IF comp.state = "awaiting" /\ comp.reason = "plan_acceptance"
                       THEN [comp EXCEPT !.state = "active", !.reason = "none"] ELSE comp)
           /\ coord' = [coord EXCEPT !.pc = "create", !.plan = flow.run]
  <2>1. coord.pc = "read" /\ comp.phase = "plan" /\ comp.state \in {"active", "awaiting"}
    BY <1>4 DEF ReadPlan, CoordinatorKnows
  <2>2. /\ comp' \in CompRecord /\ comp'.state \in {"active", "awaiting"}
        /\ comp'.phase = comp.phase /\ comp'.base = comp.base /\ comp'.contract = comp.contract
    BY <1>2, <1>4, <2>1 DEF CompRecord, Reasons
  <2>3. flow.run \in Rounds /\ PlanEarned
    BY <1>4 DEF PlanAccepted, PlanEarned, FlowKnown
  <2>4. coord' \in CoordRecord /\ coord'.pc = "create" /\ coord'.plan = flow.run
    BY <1>2, <1>4, <2>3 DEF CoordRecord
  <2>5. CoordinatorKnows' /\ StopKnown' /\ StopComplete'
    BY <1>1, <2>1, <2>2, <2>3, <2>4 DEF CoordinatorKnows, StopKnown, StopComplete, PlanEarned, Making
  <2> QED BY <1>1, <1>2, <2>1, <2>2, <2>4, <2>5, AsideSafe
<1>5. CASE ReadWorkspace /\ Frozen(comp.phase) /\ comp' = comp
           /\ Goes(IF comp.phase = "editor" THEN "post" ELSE "verdict")
  <2>1. coord.pc = "read" /\ comp.phase \in Places /\ comp.state \in {"active", "awaiting"}
    BY <1>2, <1>5 DEF ReadWorkspace, CoordinatorKnows, CompRecord
  <2>2. coord' \in CoordRecord /\ coord'.pc = IF comp.phase = "editor" THEN "post" ELSE "verdict"
    BY <1>5, GoesTyped
  <2>3. CoordinatorKnows' /\ StopKnown' /\ StopComplete'
    BY <1>1, <1>5, <2>1, <2>2 DEF CoordinatorKnows, StopKnown, StopComplete, Making, Places, Frozen, State
  <2> QED BY <1>1, <1>2, <1>5, <2>1, <2>2, <2>3, AsideSafe
<1>6. CASE StopEnds
  <2>1. coord.pc = "stop" /\ coord.todo = {} /\ coord' = Away /\ comp.state = "stopping"
        /\ comp' = IF coord.done THEN [comp EXCEPT !.state = "stopped"] ELSE comp
    BY <1>6 DEF StopEnds, Leaves, CoordinatorKnows
  <2>2. CASE ~coord.done
    BY <1>1, <1>2, <2>1, <2>2, LeaveSafe
  <2>3. CASE coord.done
    <3>1. /\ comp' \in CompRecord /\ comp'.state = "stopped"
          /\ comp'.phase = comp.phase /\ comp'.base = comp.base /\ comp'.contract = comp.contract
      BY <1>2, <2>1, <2>3 DEF CompRecord
    <3>2. StopComplete'
      BY <1>1, <2>1, <2>3 DEF StopComplete, StopKnown, State
    <3>3. coord' \in CoordRecord /\ coord'.pc = "away"
      BY <2>1 DEF Away, CoordRecord
    <3>4. CoordinatorKnows' /\ StopKnown'
      BY <3>3 DEF CoordinatorKnows, StopKnown, Making
    <3> QED BY <1>1, <1>2, <2>1, <3>1, <3>2, <3>3, <3>4, AsideSafe
  <2> QED BY <2>2, <2>3
<1> QED BY <1>3, <1>4, <1>5, <1>6 DEF ReadPlan, ReadWorkspace, Halts, Reasons

-----------------------------------------------------------------------------
(* The workspaces and their gates.                                           *)

\* A child's own step (workspace.py) changes one workspace.
LEMMA SpaceUpdated ==
  ASSUME CompositionShape, NEW p \in Places, NEW new \in SpaceRecord,
         space' = [space EXCEPT ![p] = new]
  PROVE  /\ space' \in [Places -> SpaceRecord] /\ space'[p] = new
         /\ \A q \in Places : q # p => space'[q] = space[q]
BY DEF CompositionShape

\* A workspace with another state (workspaces.state).
Moved(p, state) == [space[p] EXCEPT !.state = state]

\* A change of a workspace's state keeps the rest of its row.
LEMMA StateUpdated ==
  ASSUME CompositionShape, NEW p \in Places, NEW state \in SpaceStates
  PROVE  /\ Moved(p, state) \in SpaceRecord /\ Moved(p, state).state = state
         /\ Moved(p, state).base = space[p].base /\ Moved(p, state).good = space[p].good
         /\ Moved(p, state).verdict = space[p].verdict /\ Moved(p, state).bound = space[p].bound
BY DEF CompositionShape, SpaceRecord, Moved

\* A workspace that exists moves, and keeps what it came to (run, stop, a damage).
LEMMA WorkspaceMoves ==
  ASSUME CompositionInvariant, NEW p \in Places, NEW new \in SpaceRecord,
         space' = [space EXCEPT ![p] = new], Exists(p),
         new.base = space[p].base, new.state \notin {"none", "reserved"},
         State(p) \in {"finished", "stopped"} => new.state = State(p),
         State(p) = "finished" => new.good = space[p].good /\ new.verdict = space[p].verdict,
         UNCHANGED <<ref, ledger, comp, flow, members, results, accepted, creator, dispatching,
                     crashes, recommended, bypassed>>,
         coord' \in CoordRecord, coord'.pc = coord.pc, coord'.plan = coord.plan, StopKnown'
  PROVE  CompositionInvariant'
<1> USE DEF CompositionInvariant
<1>1. /\ space' \in [Places -> SpaceRecord] /\ space'[p] = new
      /\ \A q \in Places : q # p => space'[q] = space[q]
  BY SpaceUpdated
<1>2. /\ \A q \in Places : Exists(q) => Exists(q)' /\ space'[q].base = space[q].base
      /\ \A q \in Places : State(q) = "finished" =>
           /\ space'[q].state = "finished"
           /\ space'[q].good = space[q].good /\ space'[q].verdict = space[q].verdict
      /\ \A q \in Places : Exists(q)' <=> Exists(q)
      /\ \A q \in Places : State(q) \in {"none", "reserved", "finished", "stopped"} =>
           space'[q].state = State(q)
      /\ space'["reviewer"].state # "none" => State("reviewer") # "none"
  BY <1>1 DEF Exists, State, Places
<1>3. comp.state # "none"
  BY DEF NothingEarly, Exists
<1>4. CoordinatorKnows'
  <2>1. EditorEarned => EditorEarned'
    BY <1>2 DEF EditorEarned, State, Places
  <2>2. Target \in Places /\ Target' = Target
    BY DEF Target, Places
  <2>3. (Exists(Target) => Exists(Target)') /\ (State(Target) = "reserved" => State(Target)' = "reserved")
    BY <1>2, <2>2 DEF State, Exists
  <2>4. \A q \in Places : State(q) = "finished" => State(q)' = "finished"
    BY <1>2 DEF State
  <2> QED BY <2>1, <2>2, <2>3, <2>4 DEF CoordinatorKnows, PlanEarned, Making, Places
<1>5. StopComplete'
  BY <1>2 DEF StopComplete, State
<1>6. /\ ref' \in Commits /\ dispatching' \in BOOLEAN /\ crashes' \in 0..MaxCrashes
      /\ comp' \in CompRecord /\ ledger' \in LedgerRecord
  BY Zenon DEF CompositionShape
<1> QED BY <1>1, <1>2, <1>3, <1>4, <1>5, <1>6, MoveSafe

\* The children go on, end, are stopped or damaged (module Workspace, its run and stop).
LEMMA ChildrenSafe ==
  ASSUME CompositionInvariant, NEW p \in Places,
         SpaceMoves(p) \/ SpaceDrains(p) \/ ChildStopped(p) \/ FrozenDamaged(p)
  PROVE  CompositionInvariant'
<1> USE DEF CompositionInvariant
<1>1. UNCHANGED <<ref, ledger, comp, flow, members, results, accepted, creator, dispatching, crashes,
                  recommended, bypassed, coord>>
  BY DEF SpaceMoves, SpaceDrains, ChildStopped, FrozenDamaged, records, callers, history, Places
<1>2. /\ space[p] \in SpaceRecord /\ space \in [Places -> SpaceRecord] /\ coord \in CoordRecord
  BY DEF CompositionShape
<1>3. PICK new \in SpaceRecord :
        /\ space' = [space EXCEPT ![p] = new] /\ Exists(p)
        /\ new.base = space[p].base /\ new.state \notin {"none", "reserved"}
        /\ State(p) \in {"finished", "stopped"} => new.state = State(p)
        /\ State(p) = "finished" => new.good = space[p].good /\ new.verdict = space[p].verdict
  <2>1. CASE \E state \in {"awaiting", "stopping", "stopped"} :
               /\ space' = [space EXCEPT ![p].state = state]
               /\ Exists(p) /\ State(p) \notin {"finished", "stopped"}
    <3>1. PICK state \in {"awaiting", "stopping", "stopped"} :
            /\ space' = [space EXCEPT ![p].state = state]
            /\ Exists(p) /\ State(p) \notin {"finished", "stopped"}
      BY <2>1
    <3>2. state \in SpaceStates /\ CompositionShape
      BY DEF SpaceStates
    <3>3. space' = [space EXCEPT ![p] = Moved(p, state)]
      BY <3>1 DEF Moved
    <3> QED BY <3>1, <3>2, <3>3, StateUpdated
  <2>2. CASE \E good \in BOOLEAN :
               /\ space' = [space EXCEPT ![p].state = "finished", ![p].good = good]
               /\ State(p) = "active"
    <3>1. PICK good \in BOOLEAN :
            /\ space' = [space EXCEPT ![p].state = "finished", ![p].good = good]
            /\ State(p) = "active"
      BY <2>2
    <3> DEFINE new == [space[p] EXCEPT !.state = "finished", !.good = good]
    <3>2. new \in SpaceRecord /\ new.base = space[p].base /\ new.state = "finished"
      BY <1>2 DEF SpaceRecord, SpaceStates
    <3>3. space' = [space EXCEPT ![p] = new]
      BY <1>2, <3>1
    <3> HIDE DEF new
    <3> QED BY <3>1, <3>2, <3>3 DEF Exists
  <2>3. CASE \E verdict \in {"approve", "revise", "blocked"} :
               /\ space' = [space EXCEPT ![p].state = "finished", ![p].verdict = verdict]
               /\ State(p) = "active"
    <3>1. PICK verdict \in {"approve", "revise", "blocked"} :
            /\ space' = [space EXCEPT ![p].state = "finished", ![p].verdict = verdict]
            /\ State(p) = "active"
      BY <2>3
    <3> DEFINE new == [space[p] EXCEPT !.state = "finished", !.verdict = verdict]
    <3>2. new \in SpaceRecord /\ new.base = space[p].base /\ new.state = "finished"
      BY <1>2 DEF SpaceRecord, SpaceStates
    <3>3. space' = [space EXCEPT ![p] = new]
      BY <1>2, <3>1
    <3> HIDE DEF new
    <3> QED BY <3>1, <3>2, <3>3 DEF Exists
  <2>4. CASE FrozenDamaged(p)
    <3>1. space' = [space EXCEPT ![p].intact = FALSE] /\ State(p) = "finished"
      BY <2>4 DEF FrozenDamaged
    <3> DEFINE new == [space[p] EXCEPT !.intact = FALSE]
    <3>2. /\ new \in SpaceRecord /\ new.base = space[p].base /\ new.state = space[p].state
          /\ new.good = space[p].good /\ new.verdict = space[p].verdict
      BY <1>2 DEF SpaceRecord
    <3>3. space' = [space EXCEPT ![p] = new]
      BY <3>1
    <3> HIDE DEF new
    <3> QED BY <3>1, <3>2, <3>3 DEF Exists, State
  <2>5. CASE SpaceMoves(p)
    BY <2>1, <2>2, <2>3, <2>5 DEF SpaceMoves, Exists
  <2>6. CASE SpaceDrains(p)
    BY <2>1, <2>6 DEF SpaceDrains, Exists
  <2>7. CASE ChildStopped(p)
    BY <2>1, <2>7 DEF ChildStopped, Places
  <2> QED BY <2>4, <2>5, <2>6, <2>7
<1>4. /\ space'[p] = new /\ \A q \in Places : q # p => space'[q] = space[q]
  BY <1>3, SpaceUpdated
<1>5. StopKnown'
  BY <1>1, <1>3, <1>4 DEF StopKnown, Exists, State
<1> QED BY <1>1, <1>2, <1>3, <1>5, WorkspaceMoves

\* A stop goes from child to child (_finish_stop).
LEMMA StopPlaceSafe ==
  ASSUME CompositionInvariant, NEW p \in Places, StopChild(p) PROVE CompositionInvariant'
<1> USE DEF CompositionInvariant
<1>1. /\ coord.pc = "stop" /\ p \in coord.todo /\ p # "plan"
      /\ coord' = [coord EXCEPT !.todo = @ \ {p},
                                !.done = @ /\ State(p) \in {"stopped", "finished"}]
      /\ space' = [space EXCEPT ![p].state = IF @ = "finished" THEN @ ELSE Stopped(@)]
      /\ UNCHANGED <<ref, ledger, comp, flow, members, results, accepted, creator, dispatching,
                     crashes, recommended, bypassed>>
  BY DEF StopChild, Places, records, callers, history
<1>2. Exists(p) /\ coord \in CoordRecord /\ space[p] \in SpaceRecord /\ space \in [Places -> SpaceRecord]
  BY <1>1 DEF StopKnown, CompositionShape
<1>3. PICK state \in {"stopping", "stopped", "finished"} :
        /\ space' = [space EXCEPT ![p].state = state]
        /\ State(p) \in {"finished", "stopped"} => state = State(p)
  BY <1>1, <1>2 DEF State, Stopped
<1>4. state \in SpaceStates /\ CompositionShape
  BY DEF SpaceStates
<1>5. PICK new \in SpaceRecord :
        /\ space' = [space EXCEPT ![p] = new] /\ new.state = state
        /\ new.base = space[p].base /\ new.good = space[p].good /\ new.verdict = space[p].verdict
  <2>1. space' = [space EXCEPT ![p] = Moved(p, state)]
    BY <1>3 DEF Moved
  <2> QED BY <1>4, <2>1, StateUpdated
<1>6. /\ coord' \in CoordRecord /\ coord'.pc = coord.pc /\ coord'.plan = coord.plan
      /\ coord'.todo = coord.todo \ {p}
      /\ coord'.done => coord.done /\ State(p) \in {"stopped", "finished"}
  <2>1. PICK done \in BOOLEAN : done = (coord.done /\ State(p) \in {"stopped", "finished"})
    BY Zenon
  <2>2. coord' = [coord EXCEPT !.todo = coord.todo \ {p}, !.done = done]
    BY <1>1, <1>2, <2>1 DEF CoordRecord
  <2>3. coord.todo \ {p} \in SUBSET (Places \union {"plan"})
    BY <1>2 DEF CoordRecord
  <2> QED BY <1>2, <2>1, <2>2, <2>3 DEF CoordRecord
<1>7. space'[p] = new /\ \A q \in Places : q # p => space'[q] = space[q]
  BY <1>5, SpaceUpdated
<1>8. StopKnown'
  <2>1. \A q \in Places : q \in coord'.todo => Exists(q)'
    BY <1>1, <1>6, <1>7 DEF StopKnown, Exists, State
  <2>2. coord'.done /\ "plan" \notin coord'.todo => flow.state = "stopped"
    BY <1>1, <1>6 DEF StopKnown
  <2>3. ASSUME coord'.done, NEW q \in Places \ coord'.todo
        PROVE  space'[q].state \in {"none", "reserved", "finished", "stopped"}
    BY <1>1, <1>3, <1>5, <1>6, <1>7, <2>3 DEF StopKnown, State
  <2> QED BY <1>1, <2>1, <2>2, <2>3 DEF StopKnown, State
<1> QED BY <1>1, <1>2, <1>3, <1>5, <1>6, <1>8, WorkspaceMoves

-----------------------------------------------------------------------------
(* The transactions of one advancement.                                      *)

\* A gate's answer is kept; what it says first counts (_baseline_gate, _post_gate).
LEMMA GatesSafe ==
  ASSUME CompositionInvariant, PostGate \/ BaselineGate PROVE CompositionInvariant'
<1> USE DEF CompositionInvariant
<1>1. UNCHANGED <<ref, flow, space, members, results, accepted, creator, dispatching, crashes,
                  recommended, bypassed>>
  BY DEF PostGate, BaselineGate, children, records, callers, history
<1>2. /\ ref \in Commits /\ comp \in CompRecord /\ coord \in CoordRecord /\ ledger \in LedgerRecord
      /\ dispatching' \in BOOLEAN /\ crashes' \in 0..MaxCrashes /\ space \in [Places -> SpaceRecord]
  BY <1>1, Zenon DEF CompositionShape
<1>3. comp.state \in {"active", "awaiting"} /\ coord.pc \in {"post", "gate"}
  BY DEF PostGate, BaselineGate, CoordinatorKnows
<1>4. PICK next \in {"create", "bind", "halt"} :
        /\ next = "halt" => coord' = Away /\ \E reason \in Reasons : comp' = Halted(reason)
        /\ next # "halt" => Goes(next) /\ comp' = comp
        /\ next = "create" <=> PostGate /\ next # "halt"
        /\ next = "bind" <=> BaselineGate /\ next # "halt"
        /\ PostGate /\ next # "halt" /\ comp.contract => ledger'.post = "passed"
        /\ BaselineGate /\ next # "halt" /\ Target = "editor" /\ comp.contract =>
             ledger'.baseline = "passed"
  BY <1>3 DEF PostGate, BaselineGate, Halts, Leaves, Reasons, Target
<1>5. /\ ledger' \in LedgerRecord /\ ledger'.source = ledger.source
      /\ ledger.baseline = "passed" => ledger'.baseline = "passed"
      /\ ledger.post = "passed" => ledger'.post = "passed"
      /\ ledger'.post = ledger.post
         \/ (coord.pc = "post" /\ (ledger'.post = "passed" <=> space["editor"].good))
  <2>1. CASE PostGate
    BY <1>2, <2>1 DEF PostGate, LedgerRecord
  <2>2. CASE BaselineGate
    BY <1>2, <2>2 DEF BaselineGate, LedgerRecord
  <2> QED BY <2>1, <2>2
<1>6. ledger'.post = ledger.post \/ GateKnown'
  BY <1>1, <1>5 DEF GateKnown, CoordinatorKnows, State
<1>7. /\ comp' \in CompRecord /\ comp'.state \in {"active", "awaiting"}
      /\ comp'.phase = comp.phase /\ comp'.base = comp.base /\ comp'.contract = comp.contract
  BY <1>2, <1>3, <1>4 DEF Halted, CompRecord
<1>8. /\ coord' \in CoordRecord
      /\ next = "halt" => coord'.pc = "away"
      /\ next # "halt" => coord'.pc = next /\ coord'.plan = coord.plan
  <2>1. CASE next = "halt"
    <3>1. Away \in CoordRecord /\ Away.pc = "away"
      BY DEF Away, CoordRecord
    <3> QED BY <1>4, <2>1, <3>1
  <2>2. CASE next # "halt"
    BY <1>4, <2>2, GoesTyped
  <2> QED BY <2>1, <2>2
<1>9. CoordinatorKnows'
  <2>1. CASE next = "halt"
    BY <1>8, <2>1 DEF CoordinatorKnows, Making
  <2>2. CASE next = "create"
    <3>1. comp.phase = "editor" /\ State("editor") = "finished" /\ coord.pc = "post"
      BY <1>4, <2>2 DEF PostGate, CoordinatorKnows
    <3>2. comp.contract => ledger'.post = "passed" /\ space["editor"].good
      BY <1>4, <1>5, <2>2 DEF GateKnown
    <3> QED BY <1>1, <1>7, <1>8, <2>2, <3>1, <3>2 DEF CoordinatorKnows, EditorEarned, Making, State
  <2>3. CASE next = "bind"
    <3>1. coord.pc = "gate" /\ Exists(Target) /\ Target' = Target
      BY <1>4, <1>7, <2>3 DEF BaselineGate, CoordinatorKnows, Target
    <3>2. EditorEarned => EditorEarned'
      BY <1>1, <1>5, <1>7 DEF EditorEarned, State
    <3>3. comp.phase = "plan" /\ comp.contract => ledger'.baseline = "passed"
      BY <1>4, <2>3 DEF Target
    <3>4. Exists(Target)'
      BY <1>1, <3>1 DEF Exists, State
    <3> QED BY <1>1, <1>7, <1>8, <2>3, <3>1, <3>2, <3>3, <3>4 DEF CoordinatorKnows, PlanEarned, Making
  <2> QED BY <2>1, <2>2, <2>3
<1>10. StopKnown' /\ StopComplete'
  BY <1>7, <1>8 DEF StopKnown, StopComplete
<1>11. /\ \A p \in Places : Exists(p) => Exists(p)' /\ space'[p].base = space[p].base
       /\ \A p \in Places : State(p) = "finished" =>
            /\ space'[p].state = "finished"
            /\ space'[p].good = space[p].good /\ space'[p].verdict = space[p].verdict
       /\ \A p \in Places : Exists(p)' /\ ~Exists(p) => space'[p].base = ledger.source /\ PlanEarned
       /\ space'["reviewer"].state # "none" => State("reviewer") # "none" \/ EditorEarned
  BY <1>1 DEF Exists, State
<1> QED BY <1>1, <1>2, <1>3, <1>5, <1>6, <1>7, <1>8, <1>9, <1>10, <1>11, MoveSafe

\* A workspace is reserved, filled from the pinned commit or the editor's result, and
\* bound to its task (_materialize_editor, _materialize_reviewer).
LEMMA MakingSafe ==
  ASSUME CompositionInvariant, CreateSpace \/ Populate \/ Bind PROVE CompositionInvariant'
<1> USE DEF CompositionInvariant
<1>1. UNCHANGED <<ref, ledger, flow, members, results, accepted, creator, dispatching, crashes,
                  recommended, bypassed>>
  BY DEF CreateSpace, Populate, Bind, records, callers, history
<1>2. /\ ref \in Commits /\ comp \in CompRecord /\ coord \in CoordRecord /\ ledger \in LedgerRecord
      /\ dispatching' \in BOOLEAN /\ crashes' \in 0..MaxCrashes /\ space \in [Places -> SpaceRecord]
      /\ Target \in Places
  BY <1>1, Zenon DEF CompositionShape, Target, Places
<1>3. /\ comp.state \in {"active", "awaiting"} /\ coord.pc \in Making
      /\ comp.phase \in {"plan", "editor"}
  BY DEF CreateSpace, Populate, Bind, CoordinatorKnows, Making
<1>4. /\ comp.phase = "plan" => Target = "editor" /\ PlanEarned /\ coord.plan = flow.run
      /\ comp.phase = "editor" => Target = "reviewer" /\ EditorEarned /\ PlanEarned /\ Exists("editor")
  <2>1. comp.phase = "editor" => EditorEarned
    BY <1>3 DEF CoordinatorKnows
  <2>2. EditorEarned => Exists("editor")
    BY DEF EditorEarned, Exists
  <2>3. Exists("editor") => PlanEarned
    BY DEF PhasesEarned, PlanEarned
  <2> QED BY <1>3, <2>1, <2>2, <2>3 DEF CoordinatorKnows, Target
<1>5. space[Target] \in SpaceRecord
  BY <1>2
<1>6. CASE space' = space /\ coord' = Away /\ \E reason \in Reasons : comp' = Halted(reason)
  BY <1>1, <1>2, <1>3, <1>6, LeaveSafe DEF Making
<1>7. ASSUME comp' = comp, NEW pc \in {"populate", "gate", "record"}, Goes(pc),
             NEW new \in SpaceRecord,
             space' = [space EXCEPT ![Target] = new],
             new.state = "reserved" <=> pc = "populate",
             new.state # "none",
             pc = "populate" => State(Target) = "none",
             pc = "record" => coord.pc = "bind",
             Exists(Target) => new.base = space[Target].base,
             ~Exists(Target) /\ pc # "populate" => new.base = ledger.source,
             State(Target) = "finished" => new = space[Target],
             StopComplete'
      PROVE  CompositionInvariant'
  <2>1. /\ space' \in [Places -> SpaceRecord] /\ space'[Target] = new
        /\ \A q \in Places : q # Target => space'[q] = space[q]
    BY <1>2, <1>7, SpaceUpdated
  <2>2. coord' \in CoordRecord /\ coord'.pc = pc /\ coord'.plan = coord.plan
    BY <1>7, GoesTyped
  <2>3. /\ \A p \in Places : Exists(p) => Exists(p)' /\ space'[p].base = space[p].base
        /\ \A p \in Places : State(p) = "finished" =>
             /\ space'[p].state = "finished"
             /\ space'[p].good = space[p].good /\ space'[p].verdict = space[p].verdict
        /\ \A p \in Places : Exists(p)' /\ ~Exists(p) => space'[p].base = ledger.source /\ PlanEarned
        /\ space'["reviewer"].state # "none" => State("reviewer") # "none" \/ EditorEarned
    BY <1>3, <1>4, <1>7, <2>1 DEF Exists, State
  <2>4. EditorEarned => EditorEarned'
    BY <1>1, <1>7, <2>3 DEF EditorEarned, State, Places
  <2>5. CoordinatorKnows'
    <3>1. Target' = Target
      BY <1>7 DEF Target
    <3>2. pc = "populate" => State(Target)' = "reserved"
      BY <1>7, <2>1, <3>1 DEF State
    <3>3. pc # "populate" => Exists(Target)'
      BY <1>7, <2>1, <3>1 DEF State, Exists
    <3>4. pc = "record" /\ comp.phase = "plan" /\ comp.contract => ledger.baseline = "passed"
      BY <1>7 DEF CoordinatorKnows
    <3> QED BY <1>1, <1>3, <1>4, <1>7, <2>2, <2>4, <3>2, <3>3, <3>4 DEF CoordinatorKnows, PlanEarned, Making
  <2>6. StopKnown'
    BY <2>2 DEF StopKnown
  <2> QED BY <1>1, <1>2, <1>3, <1>7, <2>1, <2>2, <2>3, <2>5, <2>6, MoveSafe
<1>8. comp' = comp => StopComplete'
  BY <1>3 DEF StopComplete
<1>9. space = [space EXCEPT ![Target] = space[Target]]
  BY <1>2
<1>10. CASE CreateSpace
  <2>1. CASE State(Target) = "none" /\ Goes("populate") /\ comp' = comp
             /\ space' = [space EXCEPT ![Target].state = "reserved"]
    <3>1. space' = [space EXCEPT ![Target] = Moved(Target, "reserved")]
      BY <2>1 DEF Moved
    <3>2. "reserved" \in SpaceStates
      BY DEF SpaceStates
    <3>3. Moved(Target, "reserved") \in SpaceRecord /\ Moved(Target, "reserved").state = "reserved"
      BY <1>2, <3>2, StateUpdated
    <3> QED BY <1>7, <1>8, <2>1, <3>1, <3>3 DEF Exists
  <2>2. CASE Exists(Target) /\ Goes("gate") /\ comp' = comp /\ space' = space
    BY <1>5, <1>7, <1>8, <1>9, <2>2 DEF Exists, State
  <2> QED BY <1>6, <1>10, <2>1, <2>2 DEF CreateSpace, Halts, Leaves, Reasons
<1>11. CASE Populate
  <2> DEFINE base == IF Target = "editor" THEN comp.base ELSE space["editor"].base
  <2>1. State(Target) = "reserved"
    BY <1>11 DEF Populate, CoordinatorKnows
  <2>2. CASE /\ space' = [space EXCEPT ![Target].state = "idle", ![Target].base = base]
             /\ Goes("gate") /\ comp' = comp
    <3>1. base = ledger.source /\ base \in {0} \union Commits
      <4>1. Target = "editor" => comp.base = ledger.source
        BY <1>3 DEF SourcePinned, NoComp
      <4>2. Target = "reviewer" => space["editor"].base = ledger.source
        BY <1>3, <1>4 DEF SourcePinned, Target, Places
      <4>3. ledger.source \in {0} \union Commits
        BY <1>2 DEF LedgerRecord
      <4> QED BY <1>2, <4>1, <4>2, <4>3 DEF Places
    <3> HIDE DEF base
    <3> DEFINE new == [space[Target] EXCEPT !.state = "idle", !.base = base]
    <3>2. new \in SpaceRecord /\ new.state = "idle" /\ new.base = base
      BY <1>5, <3>1 DEF SpaceRecord, SpaceStates
    <3>3. space' = [space EXCEPT ![Target] = new]
      BY <1>2, <2>2
    <3> HIDE DEF new
    <3> QED BY <1>7, <1>8, <2>1, <2>2, <3>1, <3>2, <3>3 DEF Exists
  <2> QED BY <1>6, <1>11, <2>2 DEF Populate, Halts, Leaves, Reasons
<1>12. CASE Bind
  <2>1. coord.pc = "bind" /\ Exists(Target)
    BY <1>12 DEF Bind, CoordinatorKnows
  <2>2. CASE /\ State(Target) = "idle" /\ Goes("record") /\ comp' = comp
             /\ space' = [space EXCEPT ![Target].state = "active", ![Target].bound = TRUE]
    <3> DEFINE new == [space[Target] EXCEPT !.state = "active", !.bound = TRUE]
    <3>1. new \in SpaceRecord /\ new.state = "active" /\ new.base = space[Target].base
      BY <1>5 DEF SpaceRecord, SpaceStates
    <3>2. space' = [space EXCEPT ![Target] = new]
      BY <1>2, <2>2
    <3> HIDE DEF new
    <3> QED BY <1>7, <1>8, <2>1, <2>2, <3>1, <3>2
  <2>3. CASE Goes("record") /\ comp' = comp /\ space' = space
    BY <1>5, <1>7, <1>8, <1>9, <2>1, <2>3 DEF Exists, State
  <2> QED BY <1>6, <1>12, <2>2, <2>3 DEF Bind, Halts, Leaves, Reasons
<1> QED BY <1>10, <1>11, <1>12

\* A phase ends with its successor's workspace recorded, or with the reviewer's verdict
\* (_record_result, _advance).
LEMMA RecordSafe == ASSUME CompositionInvariant, Record \/ Verdict PROVE CompositionInvariant'
<1> USE DEF CompositionInvariant
<1>1. UNCHANGED <<ref, ledger, flow, space, accepted, creator, dispatching, crashes, recommended,
                  bypassed>>
  BY DEF Record, Verdict, children, callers, history
<1>2. /\ comp \in CompRecord /\ results \in ResultRecord /\ coord \in CoordRecord
      /\ members \subseteq Places /\ coord' = Away /\ Away \in CoordRecord /\ Away.pc = "away"
  BY DEF CompositionShape, Record, Verdict, Leaves, Away, CoordRecord
<1>3. comp.state \in {"active", "awaiting"}
  BY DEF Record, Verdict, CoordinatorKnows
<1>4. CASE comp' = comp /\ members' = members /\ results' = results
  <2>1. dispatching' \in BOOLEAN /\ crashes' \in 0..MaxCrashes
    BY <1>1, Zenon DEF CompositionShape
  <2> QED BY <1>1, <1>2, <1>4, <2>1, LeaveSafe
<1>5. ASSUME comp' \in CompRecord, members' \subseteq Places, results' \in ResultRecord,
             comp'.base = comp.base, comp'.contract = comp.contract,
             comp'.state \in {"active", "awaiting"},
             PhaseKnown', results'.plan # 0 => results'.plan = flow.run,
             results.phases = Places => results'.phases = Places,
             "reviewer" \in results'.phases => "editor" \in results'.phases
      PROVE  CompositionInvariant'
  <2>1. CompositionShape'
    BY <1>1, <1>2, <1>5 DEF CompositionShape
  <2>2. CreatorsKnow' /\ FlowKnown' /\ GateKnown' /\ NothingEarly' /\ StopComplete'
    BY <1>1, <1>3, <1>5 DEF CreatorsKnow, FlowKnown, GateKnown, NothingEarly, StopComplete, State
  <2>3. CoordinatorKnows' /\ StopKnown'
    BY <1>2 DEF CoordinatorKnows, StopKnown, Making
  <2>4. SourcePinned'
    BY <1>1, <1>3, <1>5 DEF SourcePinned, NoComp, Exists, State
  <2>5. PhasesEarned'
    BY <1>1, <1>5 DEF PhasesEarned, Exists, State
  <2>6. AcceptanceVetted'
    BY <1>1, <1>5 DEF AcceptanceVetted
  <2> QED BY <1>5, <2>1, <2>2, <2>3, <2>4, <2>5, <2>6
<1>6. CASE Record /\ comp.state = "active"
  <2>1. /\ coord.pc = "record" /\ comp' = [comp EXCEPT !.phase = Target]
        /\ members' = members \union {Target} /\ results' = Recorded(comp.phase)
    BY <1>6 DEF Record
  <2>2. /\ comp.phase \in {"plan", "editor"} /\ Exists(Target)
        /\ comp.phase = "plan" => /\ Target = "editor" /\ coord.plan = flow.run
                                  /\ comp.contract => ledger.baseline = "passed"
        /\ comp.phase = "editor" => Target = "reviewer"
    BY <2>1 DEF CoordinatorKnows, Target, Making
  <2>3. /\ comp' \in CompRecord /\ comp'.phase = Target /\ comp'.state = comp.state
        /\ comp'.base = comp.base /\ comp'.contract = comp.contract
    BY <1>2, <2>1, <2>2 DEF CompRecord, Places
  <2>4. /\ results' \in ResultRecord
        /\ comp.phase = "plan" => results'.plan = coord.plan /\ results'.phases = results.phases
        /\ comp.phase = "editor" =>
             results'.plan = results.plan /\ results'.phases = results.phases \union {"editor"}
    BY <1>2, <2>1, <2>2 DEF Recorded, ResultRecord, CoordRecord, Places
  <2>5. PhaseKnown'
    <3>1. CASE comp.phase = "plan"
      <4>1. members' = {"editor"} /\ results'.phases = {}
        BY <2>1, <2>2, <2>4, <3>1 DEF PhaseKnown
      <4> QED BY <1>1, <2>2, <2>3, <3>1, <4>1 DEF PhaseKnown, Exists, State
    <3>2. CASE comp.phase = "editor"
      <4>1. members' = Places /\ results'.phases = {"editor"} /\ results'.plan = results.plan
        BY <2>1, <2>2, <2>4, <3>2 DEF PhaseKnown, Places
      <4>2. \A p \in Places : Exists(p)
        BY <2>2, <3>2 DEF PhaseKnown, Places
      <4> QED BY <1>1, <2>2, <2>3, <3>2, <4>1, <4>2 DEF PhaseKnown, Exists, State
    <3> QED BY <2>2, <3>1, <3>2
  <2>6. results'.plan # 0 => results'.plan = flow.run
    BY <2>2, <2>4 DEF PhasesEarned
  <2>7. /\ results.phases = Places => results'.phases = Places
        /\ "reviewer" \in results'.phases => "editor" \in results'.phases
    BY <2>2, <2>4 DEF PhasesEarned, Places
  <2>8. members' \subseteq Places
    BY <1>2, <2>1, <2>2 DEF Places
  <2> QED BY <1>3, <1>5, <2>3, <2>4, <2>5, <2>6, <2>7, <2>8
<1>7. CASE Verdict
  <2>1. /\ coord.pc = "verdict" /\ results' = Recorded("reviewer") /\ members' = members
        /\ \E reason \in {"ready", "none", "revise", "blocked"} : comp' = Halted(reason)
    BY <1>7 DEF Verdict, CompositionShape, SpaceRecord, Places
  <2>2. comp.phase = "reviewer" /\ State("reviewer") = "finished"
    BY <2>1 DEF CoordinatorKnows
  <2>3. /\ comp' \in CompRecord /\ comp'.phase = comp.phase /\ comp'.state \in {"active", "awaiting"}
        /\ comp'.base = comp.base /\ comp'.contract = comp.contract
    BY <1>2, <1>3, <2>1 DEF Halted, CompRecord, Reasons
  <2>4. /\ results' \in ResultRecord /\ results'.plan = results.plan
        /\ results'.phases = results.phases \union {"reviewer"}
    BY <1>2, <2>1 DEF Recorded, ResultRecord, Places
  <2>5. results'.phases = Places
    BY <2>2, <2>4 DEF PhaseKnown, Places
  <2>6. PhaseKnown'
    BY <1>1, <2>1, <2>2, <2>3, <2>4, <2>5 DEF PhaseKnown, Exists, State
  <2>7. results'.plan # 0 => results'.plan = flow.run
    BY <2>4 DEF PhasesEarned
  <2> QED BY <1>2, <1>5, <2>1, <2>3, <2>4, <2>5, <2>6, <2>7 DEF Places
<1> QED BY <1>4, <1>6, <1>7 DEF Record

\* Codex accepts the plan's present run, or the editor as its guard allows (accept).
LEMMA AcceptSafe ==
  ASSUME CompositionInvariant, AcceptPlan \/ AcceptEditor PROVE CompositionInvariant'
<1> USE DEF CompositionInvariant
<1>1. UNCHANGED <<ref, ledger, comp, flow, space, members, results, creator, dispatching, coord,
                  crashes, recommended>>
  BY DEF AcceptPlan, AcceptEditor, children, callers, history
<1>2. /\ accepted' \in AcceptedRecord /\ accepted.plan \subseteq accepted'.plan
      /\ bypassed' \in BOOLEAN
      /\ accepted'.editor /\ ~bypassed' =>
           (accepted.editor /\ ~bypassed) \/ ("editor" \in members /\ Vetted)
  <2>1. accepted \in AcceptedRecord /\ bypassed \in BOOLEAN
    BY Zenon DEF CompositionShape
  <2>2. CASE AcceptPlan
    <3>1. flow.run \in Rounds /\ bypassed' = bypassed
      BY <2>2 DEF AcceptPlan, FlowKnown, history
    <3>2. accepted' = [accepted EXCEPT !.plan = accepted.plan \union {flow.run}]
      BY <2>2 DEF AcceptPlan
    <3>3. accepted.plan \union {flow.run} \in SUBSET Rounds
      BY <2>1, <3>1 DEF AcceptedRecord
    <3>4. accepted' \in AcceptedRecord /\ accepted'.plan = accepted.plan \union {flow.run}
          /\ accepted'.editor = accepted.editor
      BY <2>1, <3>2, <3>3 DEF AcceptedRecord
    <3>5. bypassed' \in BOOLEAN
      BY <2>1, <3>1, Zenon
    <3> QED BY <3>1, <3>4, <3>5
  <2>3. CASE AcceptEditor
    <3>1. accepted' = [accepted EXCEPT !.editor = TRUE] /\ ("editor" \in members => Vetted)
      BY <2>3 DEF AcceptEditor
    <3>2. accepted' \in AcceptedRecord /\ accepted'.plan = accepted.plan
      BY <2>1, <3>1 DEF AcceptedRecord
    <3>3. bypassed' = (bypassed \/ (~accepted.editor /\ "editor" \notin members))
      BY <2>3, Zenon DEF AcceptEditor
    <3>4. bypassed' \in BOOLEAN
      BY <3>3, Zenon
    <3>5. ~bypassed' => ~bypassed /\ (accepted.editor \/ "editor" \in members)
      BY <3>3, Zenon
    <3> QED BY <3>1, <3>2, <3>4, <3>5
  <2> QED BY <2>2, <2>3
<1>3. CompositionShape'
  BY <1>1, <1>2 DEF CompositionShape
<1>4. CreatorsKnow' /\ FlowKnown' /\ GateKnown' /\ NothingEarly' /\ StopComplete' /\ PhaseKnown'
  BY <1>1 DEF CreatorsKnow, FlowKnown, GateKnown, NothingEarly, StopComplete, State, PhaseKnown, Exists
<1>5. CoordinatorKnows' /\ StopKnown'
  BY <1>1, <1>2 DEF CoordinatorKnows, StopKnown, Making, PlanEarned, EditorEarned, State, Exists, Target
<1>6. SourcePinned' /\ PhasesEarned'
  BY <1>1, <1>2 DEF SourcePinned, PhasesEarned, Exists, State
<1>7. AcceptanceVetted'
  <2>1. "editor" \in members /\ Vetted =>
          /\ results.phases = Places /\ space["reviewer"].verdict = "approve"
          /\ comp.contract => ledger.baseline = "passed" /\ ledger.post = "passed"
    BY DEF Vetted, Frozen, PhaseKnown, PhasesEarned, State
  <2> QED BY <1>1, <1>2, <2>1 DEF AcceptanceVetted
<1> QED BY <1>3, <1>4, <1>5, <1>6, <1>7

-----------------------------------------------------------------------------
(* The plan's workflow.                                                      *)

\* The workflow moves: a run that the editor or a transaction counts on stays.
LEMMA FlowSafe ==
  ASSUME CompositionInvariant, flow' \in FlowRecord, FlowKnown',
         recommended' \subseteq Rounds, recommended \subseteq recommended',
         recommended # {} => flow'.run = flow.run,
         flow.state = "stopped" => flow'.state = "stopped",
         flow.state # "none", flow'.state # "none",
         coord' \in CoordRecord, coord'.pc = coord.pc, coord'.plan = coord.plan, StopKnown',
         UNCHANGED <<ref, ledger, comp, space, members, results, accepted, creator, dispatching,
                     crashes, bypassed>>
  PROVE  CompositionInvariant'
<1> USE DEF CompositionInvariant
<1>1. CompositionShape'
  BY DEF CompositionShape
<1>2. CreatorsKnow' /\ GateKnown' /\ NothingEarly' /\ PhaseKnown' /\ AcceptanceVetted' /\ SourcePinned'
  BY DEF CreatorsKnow, GateKnown, NothingEarly, PhaseKnown, AcceptanceVetted, SourcePinned, Exists, State
<1>3. PlanEarned => PlanEarned' /\ flow'.run = flow.run
  BY DEF PlanEarned
<1>4. CoordinatorKnows'
  BY <1>3 DEF CoordinatorKnows, EditorEarned, Making, State, Exists, Target
<1>5. StopComplete'
  BY DEF StopComplete, State
<1>6. PhasesEarned'
  <2>1. Exists("editor") => PlanEarned
    BY DEF PhasesEarned, PlanEarned
  <2>2. results.plan # 0 => results.plan = flow.run /\ Exists("editor")
    BY DEF PhasesEarned, PhaseKnown
  <2> QED BY <1>3, <2>1, <2>2 DEF PhasesEarned, PlanEarned, Exists, State
<1> QED BY <1>1, <1>2, <1>4, <1>5, <1>6

\* The worker and the reviewer of the plan; whoever stops it (module Workflow).
LEMMA WorkflowSafe ==
  ASSUME CompositionInvariant, FlowMoves \/ FlowDrains \/ ChildStopped("plan") \/ StopChild("plan")
  PROVE  CompositionInvariant'
<1> USE DEF CompositionInvariant
<1>1. UNCHANGED <<ref, ledger, comp, space, members, results, accepted, creator, dispatching, crashes,
                  bypassed>>
  BY DEF FlowMoves, FlowDrains, ChildStopped, StopChild, records, callers, history
<1>2. flow \in FlowRecord /\ coord \in CoordRecord /\ recommended \subseteq Rounds
  BY DEF CompositionShape
<1>3. CASE FlowMoves
  <2>1. flow.state = "active" /\ recommended = {} /\ flow.run \in Rounds /\ coord' = coord
    BY <1>3 DEF FlowMoves, FlowKnown
  <2>2. coord.pc = "stop" => ~coord.done \/ "plan" \in coord.todo
    BY <2>1 DEF StopKnown
  <2>3. StopKnown'
    BY <1>1, <2>1, <2>2 DEF StopKnown, Exists, State
  <2>4. CASE /\ flow' = [flow EXCEPT !.done = TRUE] \/ flow' = [flow EXCEPT !.state = "attention"]
             /\ recommended' = recommended
    <3>1. flow' \in FlowRecord /\ flow'.run = flow.run /\ flow'.state \in {"active", "attention"}
      BY <1>2, <2>1, <2>4 DEF FlowRecord
    <3>2. FlowKnown'
      BY <2>1, <2>4, <3>1 DEF FlowKnown
    <3> QED BY <1>1, <1>2, <2>1, <2>3, <2>4, <3>1, <3>2, FlowSafe
  <2>5. CASE /\ flow.done /\ flow' = [flow EXCEPT !.state = "approve"]
             /\ recommended' = recommended \union {flow.run}
    <3>1. flow' \in FlowRecord /\ flow'.run = flow.run /\ flow'.state = "approve" /\ flow'.done
      BY <1>2, <2>1, <2>5 DEF FlowRecord
    <3>2. FlowKnown'
      BY <2>1, <2>5, <3>1 DEF FlowKnown
    <3> QED BY <1>1, <1>2, <2>1, <2>3, <2>5, <3>1, <3>2, FlowSafe
  <2>6. CASE /\ flow.run < MaxRounds /\ recommended' = recommended
             /\ flow' = [flow EXCEPT !.run = @ + 1, !.done = FALSE]
    <3>1. PICK run \in Rounds : run = flow.run + 1
      BY <2>1, <2>6, CompositionAssumption DEF Rounds, CompositionAssumption
    <3>2. flow' = [flow EXCEPT !.run = run, !.done = FALSE]
      BY <2>6, <3>1
    <3>3. flow' \in FlowRecord /\ flow'.run = run /\ flow'.state = "active"
      BY <1>2, <2>1, <3>2 DEF FlowRecord
    <3>4. FlowKnown'
      BY <2>1, <2>6, <3>3 DEF FlowKnown
    <3> QED BY <1>1, <1>2, <2>1, <2>3, <2>6, <3>3, <3>4, FlowSafe
  <2> QED BY <1>3, <2>4, <2>5, <2>6 DEF FlowMoves
<1>4. CASE FlowDrains \/ ChildStopped("plan") \/ StopChild("plan")
  <2>1. flow.state # "none"
    <3>1. StopChild("plan") => comp.state = "stopping"
      BY DEF StopChild, CoordinatorKnows
    <3> QED BY <1>4, <3>1 DEF FlowDrains, ChildStopped, CreatorsKnow
  <2>2. PICK to \in {"stopping", "stopped"} :
          /\ flow' = [flow EXCEPT !.state = to]
          /\ flow.state = "stopped" => to = "stopped"
    BY <1>4 DEF FlowDrains, ChildStopped, StopChild, Stopped
  <2>3. flow' \in FlowRecord /\ flow'.run = flow.run /\ flow'.state = to
    BY <1>2, <2>2 DEF FlowRecord
  <2>4. recommended' = recommended
    BY <1>4 DEF FlowDrains, ChildStopped, StopChild, history
  <2>5. FlowKnown'
    BY <2>1, <2>3, <2>4 DEF FlowKnown
  <2>6. /\ coord' \in CoordRecord /\ coord'.pc = coord.pc /\ coord'.plan = coord.plan
        /\ coord'.done => coord.done
        /\ \/ coord' = coord
           \/ /\ coord'.todo = {} /\ coord.todo = {"plan"}
              /\ coord'.done => flow.state \in {"stopped", "finished"}
    <3>1. CASE coord' = coord
      BY <1>2, <3>1
    <3>2. CASE StopChild("plan")
      <4>1. PICK done \in BOOLEAN : done = (coord.done /\ flow.state \in {"stopped", "finished"})
        BY Zenon
      <4>2. coord' = [coord EXCEPT !.todo = coord.todo \ {"plan"}, !.done = done]
            /\ coord.todo = {"plan"}
        BY <1>2, <3>2, <4>1 DEF StopChild, CoordRecord
      <4>3. coord.todo \ {"plan"} = {} /\ {} \in SUBSET (Places \union {"plan"})
        BY <4>2
      <4>4. coord' = [coord EXCEPT !.todo = {}, !.done = done]
        BY <4>2, <4>3
      <4> QED BY <1>2, <4>1, <4>2, <4>4 DEF CoordRecord
    <3> QED BY <1>4, <3>1, <3>2 DEF FlowDrains, ChildStopped
  <2>7. StopKnown'
    <3>1. \A p \in Places : p # "plan"
      BY DEF Places
    <3>2. flow.state # "finished"
      BY <1>2 DEF FlowRecord
    <3> QED BY <1>1, <2>2, <2>3, <2>6, <3>1, <3>2 DEF StopKnown, Exists, State
  <2> QED BY <1>1, <1>2, <2>1, <2>2, <2>3, <2>4, <2>5, <2>6, <2>7, FlowSafe
<1> QED BY <1>3, <1>4

-----------------------------------------------------------------------------
(* create.                                                                   *)

\* Whoever creates, and the repository: nothing but the pin, the workflow and the one row
\* comes of it (create).
LEMMA CreateSafe ==
  ASSUME CompositionInvariant, RefMoves \/ \E c \in Creators : CreateSteps(c)
  PROVE  CompositionInvariant'
<1> USE DEF CompositionInvariant
<1>1. /\ UNCHANGED <<space, members, results, accepted, dispatching, coord, crashes, recommended,
                     bypassed>>
  BY DEF RefMoves, CreateSteps, ReadPin, Resolve, PinSource, Refuse, CreateFlow, Insert, children,
     records, callers, history
<1>2. /\ comp.state = "none" /\ comp = NoComp /\ coord.pc = "away"
      /\ \A p \in Places : space[p].state = "none"
  <2>1. comp.state = "none" \/ comp = NoComp
    BY DEF RefMoves, CreateSteps, ReadPin, Resolve, PinSource, Refuse, CreateFlow, Insert, CreatorsKnow,
       Moves
  <2> QED BY <2>1 DEF NothingEarly, NoComp, State
<1>3. /\ ref \in Commits /\ ledger \in LedgerRecord /\ creator \in [Creators -> CreatorRecord]
      /\ flow \in FlowRecord /\ comp \in CompRecord
  BY DEF CompositionShape
<1>4. members = {} /\ results.plan = 0 /\ results.phases = {} /\ recommended \subseteq {flow.run}
  BY <1>2 DEF PhaseKnown, NoComp, FlowKnown
<1>5. ASSUME ref' \in Commits, ledger' \in LedgerRecord, creator' \in [Creators -> CreatorRecord],
             flow' \in FlowRecord, FlowKnown', CreatorsKnow', comp' \in CompRecord, comp'.phase = "plan",
             ledger'.post = ledger.post,
             \/ comp' = NoComp
             \/ comp'.state = "active" /\ comp'.base = ledger'.source
      PROVE  CompositionInvariant'
  <2>1. CompositionShape'
    BY <1>1, <1>5 DEF CompositionShape
  <2>2. NothingEarly' /\ PhaseKnown' /\ CoordinatorKnows' /\ GateKnown' /\ StopKnown'
    BY <1>1, <1>2, <1>4, <1>5 DEF NothingEarly, PhaseKnown, CoordinatorKnows, GateKnown, StopKnown, State,
       Making
  <2>3. SourcePinned' /\ PhasesEarned' /\ AcceptanceVetted' /\ StopComplete'
    BY <1>1, <1>2, <1>4, <1>5 DEF SourcePinned, PhasesEarned, AcceptanceVetted, StopComplete, Exists,
       State, Places, NoComp
  <2> QED BY <1>5, <2>1, <2>2, <2>3
<1>6. NoComp.phase = "plan" /\ NoComp.state = "none"
  BY DEF NoComp
<1>7. CASE RefMoves
  <2>1. ref' \in Commits
    BY <1>3, <1>7, CompositionAssumption DEF RefMoves, Commits, CompositionAssumption
  <2>2. UNCHANGED <<ledger, comp, flow, creator>>
    BY <1>7 DEF RefMoves, children, callers
  <2>3. FlowKnown' /\ CreatorsKnow'
    BY <1>1, <2>2 DEF FlowKnown, CreatorsKnow
  <2> QED BY <1>2, <1>3, <1>5, <1>6, <2>1, <2>2, <2>3
<1>8. ASSUME NEW c \in Creators, CreateSteps(c) PROVE CompositionInvariant'
  <2>1. /\ creator[c] \in CreatorRecord /\ creator[c].commit \in {0} \union Commits
        /\ ledger.source \in {0} \union Commits
    BY <1>3 DEF CreatorRecord, LedgerRecord
  <2>2. ASSUME NEW new \in CreatorRecord, creator' = [creator EXCEPT ![c] = new]
        PROVE  /\ creator' \in [Creators -> CreatorRecord] /\ creator'[c] = new
               /\ \A d \in Creators : d # c => creator'[d] = creator[d]
    BY <1>3, <2>2
  <2>3. CASE ReadPin(c) \/ Resolve(c) \/ Refuse(c)
    <3>1. UNCHANGED <<ledger, comp, flow>> /\ ref' = ref
      BY <2>3 DEF ReadPin, Resolve, Refuse, children, callers
    <3>2. PICK new \in CreatorRecord :
            /\ creator' = [creator EXCEPT ![c] = new]
            /\ new.pc = "pin" => new.commit \in Commits
            /\ new.pc \in {"flow", "insert"} => new.commit = ledger.source /\ ledger.source # 0
            /\ new.pc # "insert"
      <4> DEFINE Rec(commit, pc) == [pc |-> pc, commit |-> commit]
      <4>1. ASSUME NEW commit \in {0} \union Commits, NEW pc \in {"away", "resolve", "pin", "flow"}
            PROVE  /\ Rec(commit, pc) \in CreatorRecord
                   /\ Rec(commit, pc).commit = commit /\ Rec(commit, pc).pc = pc
        BY DEF CreatorRecord
      <4>2. /\ ref \in {0} \union Commits /\ 0 \in {0} \union Commits
        BY <1>3
      <4>3. CASE ReadPin(c) /\ ledger.source # 0
        <5>1. creator' = [creator EXCEPT ![c] = Rec(ledger.source, "flow")]
          BY <4>3 DEF ReadPin, Takes
        <5> HIDE DEF Rec
        <5> QED BY <2>1, <4>1, <4>3, <5>1
      <4>4. CASE ReadPin(c) /\ ledger.source = 0
        <5>1. creator' = [creator EXCEPT ![c] = Rec(0, "resolve")]
          BY <4>4 DEF ReadPin, Takes
        <5> HIDE DEF Rec
        <5> QED BY <4>1, <4>2, <5>1
      <4>5. CASE Resolve(c)
        <5>1. creator' = [creator EXCEPT ![c] = Rec(ref, "pin")]
          BY <4>5 DEF Resolve, Takes
        <5>2. /\ Rec(ref, "pin") \in CreatorRecord
              /\ Rec(ref, "pin").commit = ref /\ Rec(ref, "pin").pc = "pin"
          BY <4>1, <4>2
        <5> HIDE DEF Rec
        <5> QED BY <1>3, <5>1, <5>2
      <4>6. CASE Refuse(c)
        <5>1. creator' = [creator EXCEPT ![c] = Rec(0, "away")]
          BY <4>6 DEF Refuse, Returns
        <5> HIDE DEF Rec
        <5> QED BY <4>1, <4>2, <5>1
      <4> QED BY <2>3, <4>3, <4>4, <4>5, <4>6
    <3>3. /\ creator' \in [Creators -> CreatorRecord] /\ creator'[c] = new
          /\ \A d \in Creators : d # c => creator'[d] = creator[d]
      BY <2>2, <3>2
    <3>4. FlowKnown' /\ CreatorsKnow'
      BY <1>1, <1>2, <3>1, <3>2, <3>3 DEF FlowKnown, CreatorsKnow
    <3> QED BY <1>2, <1>3, <1>5, <1>6, <3>1, <3>3, <3>4
  <2>4. CASE PinSource(c)
    <3>1. UNCHANGED <<comp, flow>> /\ ref' = ref /\ creator[c].pc = "pin" /\ creator[c].commit \in Commits
      BY <2>4 DEF PinSource, children, CreatorsKnow
    <3>2. CASE ledger.source # 0
      <4> DEFINE new == [pc |-> "flow", commit |-> ledger.source]
      <4>1. creator' = [creator EXCEPT ![c] = new] /\ ledger' = ledger
        BY <2>4, <3>2 DEF PinSource, Takes
      <4>2. new \in CreatorRecord /\ new.pc = "flow" /\ new.commit = ledger.source
        BY <2>1 DEF CreatorRecord
      <4> HIDE DEF new
      <4>3. /\ creator' \in [Creators -> CreatorRecord] /\ creator'[c] = new
            /\ \A d \in Creators : d # c => creator'[d] = creator[d]
        BY <2>2, <4>1, <4>2
      <4>4. FlowKnown' /\ CreatorsKnow'
        BY <1>1, <1>2, <3>1, <3>2, <4>1, <4>2, <4>3 DEF FlowKnown, CreatorsKnow
      <4> QED BY <1>2, <1>3, <1>5, <1>6, <3>1, <4>1, <4>3, <4>4
    <3>3. CASE ledger.source = 0
      <4> DEFINE new == [creator[c] EXCEPT !.pc = "flow"]
      <4>1. creator' = [creator EXCEPT ![c] = new] /\ ledger' = [ledger EXCEPT !.source = creator[c].commit]
        BY <2>4, <3>3 DEF PinSource, Moves
      <4>2. new \in CreatorRecord /\ new.pc = "flow" /\ new.commit = creator[c].commit
        BY <2>1 DEF CreatorRecord
      <4> HIDE DEF new
      <4>3. /\ creator' \in [Creators -> CreatorRecord] /\ creator'[c] = new
            /\ \A d \in Creators : d # c => creator'[d] = creator[d]
        BY <2>2, <4>1, <4>2
      <4>4. ledger' \in LedgerRecord /\ ledger'.source = creator[c].commit /\ ledger'.post = ledger.post
        BY <1>3, <2>1, <4>1 DEF LedgerRecord
      <4>5. ledger'.source # 0
        BY <3>1, <4>4 DEF Commits
      <4>6. \A d \in Creators : creator[d].pc \notin {"flow", "insert"}
        BY <3>3 DEF CreatorsKnow
      <4>7. FlowKnown' /\ CreatorsKnow'
        BY <1>1, <1>2, <3>1, <4>2, <4>3, <4>4, <4>5, <4>6 DEF FlowKnown, CreatorsKnow
      <4> QED BY <1>2, <1>3, <1>5, <1>6, <3>1, <4>3, <4>4, <4>7
    <3> QED BY <3>2, <3>3
  <2>5. CASE CreateFlow(c)
    <3> DEFINE new == [creator[c] EXCEPT !.pc = "insert"]
    <3>1. /\ UNCHANGED <<comp, ledger>> /\ ref' = ref /\ creator[c].pc = "flow"
          /\ creator' = [creator EXCEPT ![c] = new]
          /\ flow' = IF flow.state # "none" THEN flow
                     ELSE [state |-> "active", run |-> 1, done |-> FALSE]
      BY <2>5 DEF CreateFlow, Moves
    <3>2. new \in CreatorRecord /\ new.pc = "insert" /\ new.commit = creator[c].commit
      BY <2>1 DEF CreatorRecord
    <3> HIDE DEF new
    <3>3. /\ creator' \in [Creators -> CreatorRecord] /\ creator'[c] = new
          /\ \A d \in Creators : d # c => creator'[d] = creator[d]
      BY <2>2, <3>1, <3>2
    <3>4. 1 \in Rounds /\ 0 \notin Rounds
      BY CompositionAssumption DEF Rounds, CompositionAssumption
    <3>5. flow' \in FlowRecord /\ flow'.state # "none" /\ FlowKnown'
      <4>1. CASE flow.state # "none"
        BY <1>1, <1>3, <3>1, <4>1 DEF FlowKnown
      <4>2. CASE flow.state = "none"
        <5>1. recommended = {}
          BY <1>4, <4>2 DEF FlowKnown
        <5>2. flow' = [state |-> "active", run |-> 1, done |-> FALSE]
          BY <3>1, <4>2
        <5>3. flow' \in FlowRecord /\ flow'.state = "active" /\ flow'.run = 1
          BY <3>4, <5>2 DEF FlowRecord
        <5> QED BY <1>1, <3>4, <5>1, <5>3 DEF FlowKnown
      <4> QED BY <4>1, <4>2
    <3>6. CreatorsKnow'
      BY <1>2, <3>1, <3>2, <3>3, <3>5 DEF CreatorsKnow
    <3> QED BY <1>2, <1>3, <1>5, <1>6, <3>1, <3>3, <3>5, <3>6
  <2>6. CASE Insert(c)
    <3>1. /\ creator[c].pc = "insert" /\ ref' = ref /\ UNCHANGED <<ledger, flow>>
          /\ creator' = [d \in Creators |-> [pc |-> "away", commit |-> 0]]
      BY <2>6 DEF Insert, children
    <3>2. creator[c].commit = ledger.source /\ ledger.source # 0 /\ flow.state # "none"
      BY <3>1 DEF CreatorsKnow
    <3>3. PICK contract \in BOOLEAN :
            comp' = [NoComp EXCEPT !.state = "active", !.base = creator[c].commit,
                                   !.contract = contract]
      BY <2>6 DEF Insert
    <3>4. /\ comp' \in CompRecord /\ comp'.state = "active" /\ comp'.phase = "plan"
          /\ comp'.base = creator[c].commit
      BY <2>1, <3>3 DEF CompRecord, NoComp, Reasons
    <3>5. /\ creator' \in [Creators -> CreatorRecord]
          /\ \A d \in Creators : creator'[d].pc = "away"
      BY <3>1 DEF CreatorRecord
    <3>6. FlowKnown' /\ CreatorsKnow'
      BY <1>1, <3>1, <3>2, <3>5 DEF FlowKnown, CreatorsKnow
    <3> QED BY <1>3, <1>5, <3>1, <3>2, <3>4, <3>5, <3>6
  <2> QED BY <1>8, <2>3, <2>4, <2>5, <2>6 DEF CreateSteps
<1> QED BY <1>7, <1>8

-----------------------------------------------------------------------------
(* The theorems.                                                             *)

\* Every step of a composition and of its children keeps the invariant (composition.py).
LEMMA CompositionStep == CompositionInvariant /\ [Next]_vars => CompositionInvariant'
<1> SUFFICES ASSUME CompositionInvariant, [Next]_vars PROVE CompositionInvariant'
  OBVIOUS
<1>1. CASE RefMoves \/ \E c \in Creators : CreateSteps(c)
  BY <1>1, CreateSafe
<1>2. CASE Begin \/ DispatchReads \/ DispatchCalls \/ StopCommand \/ Fails \/ Dies
  BY <1>2, LockSafe
<1>3. CASE ReadPlan \/ ReadWorkspace \/ StopEnds
  BY <1>3, ReadSafe
<1>4. CASE PostGate \/ BaselineGate
  BY <1>4, GatesSafe
<1>5. CASE CreateSpace \/ Populate \/ Bind
  BY <1>5, MakingSafe
<1>6. CASE Record \/ Verdict
  BY <1>6, RecordSafe
<1>7. CASE \E p \in Places : StopChild(p)
  BY <1>7, StopPlaceSafe
<1>8. CASE FlowMoves \/ FlowDrains \/ ChildStopped("plan") \/ StopChild("plan")
  BY <1>8, WorkflowSafe
<1>9. CASE \E p \in Places : SpaceMoves(p) \/ SpaceDrains(p) \/ ChildStopped(p) \/ FrozenDamaged(p)
  BY <1>9, ChildrenSafe
<1>10. CASE AcceptPlan \/ AcceptEditor
  BY <1>10, AcceptSafe
<1>11. CASE \E p \in Places : StopRaises(p)
  BY <1>11, RaiseSafe
<1>12. ~StopRaises("plan")
  BY DEF StopRaises, Damaged
<1>13. CASE UNCHANGED vars
  <2>1. UNCHANGED <<ref, ledger, comp, flow, space, members, results, accepted, creator, dispatching,
                    coord, crashes, recommended, bypassed>>
    BY <1>13 DEF vars
  <2>2. /\ ref \in Commits /\ comp \in CompRecord /\ coord \in CoordRecord
        /\ dispatching' \in BOOLEAN /\ crashes' \in 0..MaxCrashes
        /\ comp.state = "none" => coord'.pc = "away"
    BY <2>1, Zenon DEF CompositionInvariant, CompositionShape, NothingEarly
  <2>3. CoordinatorKnows' /\ StopKnown' /\ StopComplete'
    BY <2>1 DEF CompositionInvariant, CoordinatorKnows, StopKnown, StopComplete, Exists, State, Target,
       PlanEarned, EditorEarned, Making
  <2> QED BY <2>1, <2>2, <2>3, AsideSafe
<1> QED BY <1>1, <1>2, <1>3, <1>4, <1>5, <1>6, <1>7, <1>8, <1>9, <1>10, <1>11, <1>12, <1>13
       DEF Next, Advance, ChildSteps

\* The invariant holds in every state of a composition (composition.py).
THEOREM CompositionInvariantHolds == Spec => []CompositionInvariant
BY CompositionStarts, CompositionStep, PTL DEF Spec

\* Every state is well formed (composition.py).
THEOREM CompositionTypeCorrect == Spec => []TypeOK
<1>1. CompositionInvariant => TypeOK
  BY DEF CompositionInvariant, CompositionShape, TypeOK, LedgerRecord, CompRecord, FlowRecord,
     SpaceRecord, SpaceStates, ResultRecord, AcceptedRecord, CreatorRecord, CoordRecord
<1> QED BY <1>1, CompositionInvariantHolds, PTL

\* However often, by whom and wherever the ref goes in between a composition is requested:
\* it and its workspaces are of the commit pinned first (create, _materialize_editor).
THEOREM SourceStaysPinned == Spec => []SourcePinned
BY CompositionInvariantHolds, PTL DEF CompositionInvariant

\* No phase begins without the one before it (_advance_plan, _advance).
THEOREM PhasesAreEarned == Spec => []PhasesEarned
BY CompositionInvariantHolds, PTL DEF CompositionInvariant

\* A member's editor is accepted only after its reviewer recommended that and all gates
\* passed (accept_guard).
THEOREM AcceptanceIsVetted == Spec => []AcceptanceVetted
BY CompositionInvariantHolds, PTL DEF CompositionInvariant

\* Nothing of a stopped composition works (_finish_stop).
THEOREM StopIsComplete == Spec => []StopComplete
BY CompositionInvariantHolds, PTL DEF CompositionInvariant
=============================================================================
