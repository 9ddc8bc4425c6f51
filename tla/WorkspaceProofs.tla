---------------------------- MODULE WorkspaceProofs ----------------------------
(***************************************************************************)
(* The safety of a workspace (Workspace) for every number of calls and     *)
(* operations, every limit, every set of trees and every choice of faults. *)
(* The inductive invariant says what the coordinator, the command's row    *)
(* and the launcher may rely on at each point of a batch.                  *)
(***************************************************************************)
EXTENDS Workspace, TLAPS

CallRecord ==
  [parent : 0..MaxCalls, repair : BOOLEAN, tree : Trees, status : RunStatuses,
   told : Seq(Receipts), cancel : BOOLEAN, report : Reports]
TaskRecord == [parent : 0..MaxCalls, repair : BOOLEAN, active : 0..MaxCalls]
CommandRecord == [owner : {"none", "alive", "dead"}, child : BOOLEAN]
ExportRecord == [call : 0..MaxCalls, tree : Trees \union {Unknown}]
CoordRecord ==
  [pc : {"idle", "loop", "launch", "operate", "begun", "admitted", "checking",
         "result", "done", "freeze", "record", "halt"},
   call : 0..MaxCalls, outcome : Outcomes, tree : Trees \union {Unknown}]

WorkspaceShape ==
  /\ state \in States /\ task \in TaskRecord
  /\ call \in Seq(CallRecord) /\ Len(call) <= MaxCalls
  /\ requests \in [Calls -> Seq(Operations)] /\ receipts \in [Calls -> Seq(Receipts)]
  /\ command \in CommandRecord /\ export \in ExportRecord
  /\ tree \in Trees /\ frozen \in Trees \union {Unknown} /\ coord \in CoordRecord
  /\ launcher \in {"none", "forked", "recorded", "running", "passed", "failed"}
  /\ load \in Nat /\ touched \in BOOLEAN /\ performed \in [Calls -> Nat]

Early == {"absent", "preparing", "idle", "active"}
OperatingPcs == {"operate", "begun", "admitted", "checking", "result"}
Underway == OperatingPcs \ {"operate"}

\* Nothing was asked for by the report of call c, if there is one.
Unasked(c) == requests[c] = <<>> /\ receipts[c] = <<>> /\ performed[c] = 0

\* One operation of call c was begun and has no receipt.
BatchOpen(c) == performed[c] = Len(receipts[c]) + 1 /\ performed[c] <= Len(requests[c])

AllWell(c) == \A i \in 1..Len(receipts[c]) : receipts[c][i].outcome \in {"ok", "failed"}

\* The task is about the last call; the others have ended.
CallsChained ==
  /\ IF task.active = 0 THEN task.parent = Len(call)
     ELSE task.active = Len(call) /\ task.parent = Len(call) - 1
  /\ \A c \in 1..Len(call) : call[c].report # "none" => call[c].status = "completed"
  /\ \A c \in Calls : c > Len(call) => Unasked(c)

\* The last call and the latest receipt agree on the tree.
TreesKnown == call # <<>> /\ receipts[Len(call)] = <<>> => LatestTree = call[Len(call)].tree

\* What a revision that was not yet submitted answers.
RevisionKnown ==
  task.active = 0 /\ call # <<>> =>
    LET p == Len(call) IN
    IF task.repair
    THEN call[p].report = "malformed" /\ ~call[p].repair /\ requests[p] = <<>> /\ receipts[p] = <<>>
    ELSE /\ call[p].report = "operations" /\ receipts[p] # <<>>
         /\ Len(receipts[p]) = Len(requests[p]) /\ AllWell(p)

\* What the coordinator relies on at each point.
CoordinatorKnows ==
  /\ Locked => state \in {"active", "operating", "stopping"}
  /\ state = "active" => coord.pc \in {"idle", "loop", "launch", "halt"}
  /\ coord.pc = "launch" => coord.call \in 1..Len(call)
  /\ coord.pc \in OperatingPcs \union {"freeze", "record"} =>
       coord.call = task.active /\ task.active # 0
  /\ coord.pc \in OperatingPcs =>
       /\ call[task.active].report = "operations" /\ requests[task.active] # <<>>
       /\ AllWell(task.active)
  /\ coord.pc = "operate" => performed[task.active] = Len(receipts[task.active])
  /\ coord.pc \in Underway => BatchOpen(task.active)
  /\ coord.pc \in {"freeze", "record"} => call[task.active].report = "complete"
  /\ coord.pc = "freeze" => touched \/ tree = call[task.active].tree
  /\ coord.pc = "record" => touched \/ frozen = call[task.active].tree

\* What is so of the command's row and of the launcher.
ChecksKnown ==
  /\ state \in Early => /\ launcher = "none" /\ command = NoCommand
                        /\ task.active # 0 => Unasked(task.active)
  /\ coord.pc \in OperatingPcs \ {"checking"} => launcher = "none"
  /\ command.owner = "alive" => coord.pc \in {"admitted", "checking", "result"}
  /\ command.owner = "dead" =>
       coord.pc \in {"idle", "halt"} /\ task.active # 0 /\ BatchOpen(task.active)
  /\ command.owner = "none" => ~command.child
  /\ launcher \in {"recorded", "running"} => command.child

SlotsHeld == load + OwnRuns + OpenCommands <= Parallel
Quiet == state = "stopped" => OwnRuns = 0 /\ command = NoCommand

WorkspaceInvariant ==
  /\ WorkspaceShape /\ CallsChained /\ TreesKnown /\ RevisionKnown /\ CoordinatorKnows
  /\ ChecksKnown /\ SlotsHeld /\ Quiet
  /\ OperationsOnce /\ CallsInformed /\ ExportMatches

\* What is known of the constants (create checks the policy).
LEMMA ConstantsKnown ==
  /\ Baseline \in Trees /\ MaxCalls \in Nat \ {0} /\ MaxBatch \in Nat \ {0}
  /\ Parallel \in Nat \ {0}
BY WorkspaceAssumption DEF WorkspaceAssumption

\* The calls are numbered from one, and there are at most max_calls.
LEMMA CallsTyped ==
  ASSUME WorkspaceShape
  PROVE  /\ Len(call) \in Nat /\ DOMAIN call = 1..Len(call) /\ (call # <<>> <=> Len(call) # 0)
         /\ \A c \in 1..Len(call) : c \in Calls /\ call[c] \in CallRecord
         /\ \A c \in Calls : /\ requests[c] \in Seq(Operations) /\ receipts[c] \in Seq(Receipts)
                             /\ performed[c] \in Nat
                             /\ Len(requests[c]) \in Nat /\ Len(receipts[c]) \in Nat
         /\ task.active \in 0..MaxCalls /\ task.parent \in 0..MaxCalls /\ task.repair \in BOOLEAN
<1>1. MaxCalls \in Nat
  BY ConstantsKnown
<1>2. call \in Seq(CallRecord) /\ Len(call) <= MaxCalls
  BY DEF WorkspaceShape
<1>3. /\ Len(call) \in Nat /\ DOMAIN call = 1..Len(call) /\ (call # <<>> <=> Len(call) # 0)
      /\ \A c \in 1..Len(call) : c \in Calls /\ call[c] \in CallRecord
  BY <1>1, <1>2 DEF Calls
<1>4. \A c \in Calls : /\ requests[c] \in Seq(Operations) /\ receipts[c] \in Seq(Receipts)
                       /\ performed[c] \in Nat
  BY DEF WorkspaceShape
<1>5. \A c \in Calls : Len(requests[c]) \in Nat /\ Len(receipts[c]) \in Nat
  BY <1>4
<1>6. task.active \in 0..MaxCalls /\ task.parent \in 0..MaxCalls /\ task.repair \in BOOLEAN
  BY DEF WorkspaceShape, TaskRecord
<1> QED BY <1>3, <1>4, <1>5, <1>6

\* CallsInformed with the domains spelled out.
LEMMA InformedUnfolded ==
  ASSUME WorkspaceShape
  PROVE  CallsInformed <=>
           \A c \in 1..Len(call) :
             /\ call[c].parent = c - 1
             /\ c = 1 => call[c].tree = Baseline
             /\ c # 1 =>
                  /\ call[c].told = receipts[c - 1]
                  /\ call[c].repair =>
                       /\ call[c - 1].report = "malformed" /\ ~call[c - 1].repair
                       /\ requests[c - 1] = <<>> /\ call[c].tree = call[c - 1].tree
                  /\ ~call[c].repair =>
                       /\ call[c - 1].report = "operations"
                       /\ Len(receipts[c - 1]) = Len(requests[c - 1]) /\ AllWell(c - 1)
                       /\ call[c].tree = LastOf(receipts[c - 1]).tree
<1>1. DOMAIN call = 1..Len(call) /\ Len(call) \in Nat
  BY CallsTyped
<1>2. ASSUME NEW c \in 1..Len(call)
      PROVE  /\ c - 1 = 0 <=> c = 1
             /\ c # 1 => c - 1 \in Calls /\ DOMAIN receipts[c - 1] = 1..Len(receipts[c - 1])
  <2>1. c \in Calls /\ c \in Nat
    BY <1>1, CallsTyped
  <2>2. c # 1 => c - 1 \in Calls
    BY <2>1, ConstantsKnown DEF Calls
  <2>3. c # 1 => receipts[c - 1] \in Seq(Receipts)
    BY <2>2, CallsTyped
  <2> QED BY <2>1, <2>2, <2>3
<1>3. ASSUME NEW c \in 1..Len(call), c # 1
      PROVE  (\A i \in DOMAIN receipts[c - 1] : receipts[c - 1][i].outcome \in {"ok", "failed"})
             <=> AllWell(c - 1)
  BY <1>2, <1>3 DEF AllWell
<1> DEFINE Informed(c) ==
      LET p == c - 1 IN
      /\ call[c].parent = p
      /\ IF p = 0 THEN call[c].tree = Baseline
         ELSE /\ call[c].told = receipts[p]
              /\ IF call[c].repair
                 THEN /\ call[p].report = "malformed" /\ ~call[p].repair
                      /\ requests[p] = <<>> /\ call[c].tree = call[p].tree
                 ELSE /\ call[p].report = "operations"
                      /\ Len(receipts[p]) = Len(requests[p])
                      /\ \A i \in DOMAIN receipts[p] : receipts[p][i].outcome \in {"ok", "failed"}
                      /\ call[c].tree = LastOf(receipts[p]).tree
<1>4. CallsInformed <=> \A c \in 1..Len(call) : Informed(c)
  BY <1>1 DEF CallsInformed
<1>5. ASSUME NEW c \in 1..Len(call)
      PROVE  Informed(c) <=>
             /\ call[c].parent = c - 1
             /\ c = 1 => call[c].tree = Baseline
             /\ c # 1 =>
                  /\ call[c].told = receipts[c - 1]
                  /\ call[c].repair =>
                       /\ call[c - 1].report = "malformed" /\ ~call[c - 1].repair
                       /\ requests[c - 1] = <<>> /\ call[c].tree = call[c - 1].tree
                  /\ ~call[c].repair =>
                       /\ call[c - 1].report = "operations"
                       /\ Len(receipts[c - 1]) = Len(requests[c - 1]) /\ AllWell(c - 1)
                       /\ call[c].tree = LastOf(receipts[c - 1]).tree
  BY <1>2, <1>3
<1> HIDE DEF Informed
<1> QED BY <1>4, <1>5

\* The tree that the latest of the receipts r tells (_receipts).
TreeAfter(r) ==
  LET answered == {c \in Calls : r[c] # <<>>}
  IN  IF answered = {} THEN Baseline
      ELSE LastOf(r[CHOOSE c \in answered : \A d \in answered : d <= c]).tree

\* Without a receipt it is the baseline (_current_tree).
LEMMA BaselineFirst ==
  ASSUME NEW r, \A c \in Calls : r[c] = <<>> PROVE TreeAfter(r) = Baseline
BY DEF TreeAfter

\* The last call with a receipt tells it (_current_tree).
LEMMA LatestTells ==
  ASSUME NEW r, NEW n \in Calls, r[n] # <<>>, \A c \in Calls : c > n => r[c] = <<>>
  PROVE  TreeAfter(r) = LastOf(r[n]).tree
<1> DEFINE answered == {c \in Calls : r[c] # <<>>}
<1>1. n \in answered /\ \A d \in answered : d <= n
  BY DEF Calls
<1>2. \A c \in answered : (\A d \in answered : d <= c) => c = n
  BY <1>1 DEF Calls
<1>3. (CHOOSE c \in answered : \A d \in answered : d <= c) = n
  BY <1>1, <1>2
<1> QED BY <1>1, <1>3 DEF TreeAfter

\* The latest call's receipts, or nothing but the baseline, decide the tree.
LEMMA TreeNow ==
  ASSUME WorkspaceInvariant
  PROVE  /\ call = <<>> => LatestTree = Baseline
         /\ call # <<>> => LatestTree = IF receipts[Len(call)] = <<>> THEN call[Len(call)].tree
                                        ELSE LastOf(receipts[Len(call)]).tree
<1>1. LatestTree = TreeAfter(receipts)
  BY DEF LatestTree, TreeAfter
<1>2. Len(call) \in Nat /\ (call # <<>> => Len(call) \in Calls)
  <2>1. WorkspaceShape
    BY DEF WorkspaceInvariant
  <2>2. call # <<>> => Len(call) \in 1..Len(call)
    BY <2>1, CallsTyped
  <2> QED BY <2>1, <2>2, CallsTyped
<1>3. \A c \in Calls : c > Len(call) => receipts[c] = <<>>
  BY DEF WorkspaceInvariant, CallsChained, Unasked
<1>4. ASSUME call = <<>> PROVE LatestTree = Baseline
  <2>1. \A c \in Calls : receipts[c] = <<>>
    BY <1>3, <1>4 DEF Calls
  <2> QED BY <1>1, <2>1, BaselineFirst
<1>5. ASSUME call # <<>>, receipts[Len(call)] # <<>>
      PROVE  LatestTree = LastOf(receipts[Len(call)]).tree
  BY <1>1, <1>2, <1>3, <1>5, LatestTells
<1> QED BY <1>4, <1>5 DEF WorkspaceInvariant, TreesKnown

\* Before its creation nothing of the workspace is there.
LEMMA WorkspaceStarts == Init => WorkspaceInvariant
<1> SUFFICES ASSUME Init PROVE WorkspaceInvariant
  OBVIOUS
<1> USE DEF Init
<1>1. WorkspaceShape
  <2>1. task \in TaskRecord /\ command \in CommandRecord /\ export \in ExportRecord /\ coord \in CoordRecord
    BY ConstantsKnown DEF TaskRecord, CommandRecord, ExportRecord, CoordRecord, NoCommand, NoExport,
       Idle, Outcomes
  <2>2. Len(call) = 0 /\ call \in Seq(CallRecord) /\ MaxCalls \in Nat
    BY ConstantsKnown
  <2>3. /\ requests \in [Calls -> Seq(Operations)] /\ receipts \in [Calls -> Seq(Receipts)]
        /\ performed \in [Calls -> Nat]
    OBVIOUS
  <2>4. state \in States /\ tree \in Trees /\ frozen \in Trees \union {Unknown}
    BY ConstantsKnown DEF States
  <2>5. touched \in BOOLEAN
    BY Zenon
  <2> QED BY <2>1, <2>2, <2>3, <2>4, <2>5 DEF WorkspaceShape
<1>2. Len(call) = 0 /\ DOMAIN call = {} /\ 1..Len(call) = {}
  OBVIOUS
<1>3. \A c \in Calls : Unasked(c) /\ Len(receipts[c]) = 0 /\ Len(requests[c]) = 0
  BY DEF Unasked
<1>4. CallsChained /\ TreesKnown /\ RevisionKnown
  BY <1>2, <1>3 DEF CallsChained, TreesKnown, RevisionKnown
<1>5. CoordinatorKnows /\ ChecksKnown
  BY DEF CoordinatorKnows, ChecksKnown, Idle, NoCommand, OperatingPcs, Underway, Locked
<1>6. OwnRuns = 0 /\ OpenCommands = 0
  BY <1>2 DEF OwnRuns, OpenCommands
<1>7. SlotsHeld /\ Quiet
  BY <1>6, ConstantsKnown DEF SlotsHeld, Quiet
<1>8. OperationsOnce /\ CallsInformed /\ ExportMatches
  BY <1>2, <1>3 DEF OperationsOnce, CallsInformed, ExportMatches, Unasked
<1> QED BY <1>1, <1>4, <1>5, <1>7, <1>8 DEF WorkspaceInvariant

-----------------------------------------------------------------------------
(* Steps that only move the coordinator or the state.                        *)

\* A step aside: the state or the coordinator changes, nothing it works on (run, _halt,
\* stop).
LEMMA ControlSafe ==
  ASSUME WorkspaceInvariant,
         UNCHANGED <<task, call, requests, receipts, command, export, load, tree, frozen, launcher,
                     touched, performed>>,
         state' \in States, state' \in Early => state \in Early,
         state' = "finished" <=> state = "finished",
         state' = "stopped" => state = "stopped" \/ (OwnRuns = 0 /\ command = NoCommand),
         coord' \in CoordRecord,
         coord' = coord \/ (coord.pc \notin {"admitted", "checking", "result"}
                            /\ coord'.pc \in {"idle", "loop", "halt"}),
         coord'.pc = "loop" => coord' = coord \/ state \in Early \/ coord.pc = "launch",
         coord'.pc # "idle" => state' \in {"active", "operating", "stopping"},
         state' = "active" => coord'.pc \in {"idle", "loop", "launch", "halt"}
  PROVE  WorkspaceInvariant'
<1> USE DEF WorkspaceInvariant
<1>1. WorkspaceShape'
  BY DEF WorkspaceShape
<1>2. CallsChained' /\ RevisionKnown' /\ OperationsOnce'
  BY DEF CallsChained, Unasked, RevisionKnown, AllWell, OperationsOnce
<1>3. TreesKnown'
  BY DEF TreesKnown, LatestTree
<1>4. CoordinatorKnows'
  <2>1. CASE coord' = coord
    BY <2>1 DEF CoordinatorKnows, Locked, BatchOpen, AllWell
  <2>2. CASE coord'.pc \in {"idle", "loop", "halt"}
    BY <2>2 DEF CoordinatorKnows, Locked, OperatingPcs, Underway
  <2> QED BY <2>1, <2>2
<1>5. ChecksKnown'
  <2>1. state' \in Early => /\ launcher = "none" /\ command = NoCommand
                            /\ task.active # 0 => Unasked(task.active)
    BY DEF ChecksKnown
  <2>2. coord'.pc \in OperatingPcs \ {"checking"} => launcher = "none"
    BY DEF ChecksKnown, OperatingPcs
  <2>3. command.owner = "alive" => coord'.pc \in {"admitted", "checking", "result"}
    BY DEF ChecksKnown
  <2>4. command.owner = "dead" =>
          coord'.pc \in {"idle", "halt"} /\ task.active # 0 /\ BatchOpen(task.active)
    BY DEF ChecksKnown, NoCommand
  <2> QED BY <2>1, <2>2, <2>3, <2>4 DEF ChecksKnown, Unasked, BatchOpen
<1>6. OwnRuns' = OwnRuns /\ OpenCommands' = OpenCommands
  BY DEF OwnRuns, Active, OpenCommands
<1>7. SlotsHeld' /\ Quiet'
  BY <1>6 DEF SlotsHeld, Quiet
<1>8. CallsInformed'
  BY DEF CallsInformed
<1>9. ExportMatches'
  BY DEF ExportMatches
<1> QED BY <1>1, <1>2, <1>3, <1>4, <1>5, <1>7, <1>8, <1>9

\* The coordinator enters, leaves, gives up or waits; the others create, stop or end a
\* stop (run, _halt, create, bind, stop, _finish_stop).
LEMMA ControlSteps ==
  ASSUME WorkspaceInvariant,
         \/ Reserve \/ Create \/ Bind \/ Enter \/ Leave \/ Halt \/ Raise \/ Obstacle \/ Interrupted
         \/ Stop \/ FinishStop
  PROVE  WorkspaceInvariant'
<1> USE DEF WorkspaceInvariant
<1>1. UNCHANGED <<task, call, requests, receipts, command, export, load, tree, frozen, launcher,
                  touched, performed>>
  BY DEF Reserve, Create, Bind, Becomes, Enter, Leave, Halt, Raise, Obstacle, Interrupted, Stop,
     FinishStop, work
<1>2. coord \in CoordRecord /\ state \in States /\ Idle \in CoordRecord /\ Idle.pc = "idle"
  BY ConstantsKnown DEF WorkspaceShape, CoordRecord, Idle, Outcomes
<1>3. ASSUME NEW pc \in {"loop", "halt"}
      PROVE  /\ [coord EXCEPT !.pc = pc] \in CoordRecord /\ [coord EXCEPT !.pc = pc].pc = pc
             /\ [Idle EXCEPT !.pc = pc] \in CoordRecord /\ [Idle EXCEPT !.pc = pc].pc = pc
  BY <1>2 DEF CoordRecord
<1>4. CASE Reserve \/ Create \/ Bind \/ Stop \/ FinishStop
  <2>1. coord' = coord
    BY <1>4 DEF Reserve, Create, Bind, Becomes, Stop, FinishStop
  <2>2. /\ state' \in States /\ (state' \in Early => state \in Early)
        /\ state' = "finished" <=> state = "finished"
    BY <1>4 DEF Reserve, Create, Bind, Becomes, Stop, FinishStop, States, Early
  <2>3. state' = "stopped" => state = "stopped" \/ (OwnRuns = 0 /\ command = NoCommand)
    BY <1>4 DEF Reserve, Create, Bind, Becomes, Stop, FinishStop
  <2>4. coord.pc # "idle" => state' \in {"active", "operating", "stopping"}
    BY <1>4 DEF Reserve, Create, Bind, Becomes, Stop, FinishStop, CoordinatorKnows, Locked
  <2>5. state' = "active" => coord.pc \in {"idle", "loop", "launch", "halt"}
    BY <1>4 DEF Reserve, Create, Bind, Becomes, Stop, FinishStop, CoordinatorKnows, Locked
  <2> QED BY <1>1, <1>2, <2>1, <2>2, <2>3, <2>4, <2>5, ControlSafe
<1>5. CASE Enter
  <2>1. PICK pc \in {"loop", "halt"} :
          coord' = [Idle EXCEPT !.pc = pc] /\ (pc = "loop" <=> state = "active")
    BY <1>5 DEF Enter
  <2>2. coord.pc = "idle" /\ state \in {"active", "operating"} /\ state' = state
    BY <1>5 DEF Enter, Locked
  <2> QED BY <1>1, <1>2, <1>3, <2>1, <2>2, ControlSafe DEF Early
<1>6. CASE Leave
  <2>1. coord.pc = "loop" /\ coord' = Idle /\ state' = state
    BY <1>6 DEF Leave
  <2> QED BY <1>1, <1>2, <2>1, ControlSafe
<1>7. CASE Halt
  <2>1. /\ coord.pc = "halt" /\ coord' = Idle
        /\ state' = IF state \in {"active", "operating"} THEN "awaiting_codex" ELSE state
    BY <1>7 DEF Halt
  <2>2. /\ state' \in States /\ (state' \in Early => state \in Early)
        /\ state' = "finished" <=> state = "finished"
        /\ state' = "stopped" <=> state = "stopped"
    BY <1>2, <2>1 DEF States, Early
  <2> QED BY <1>1, <1>2, <2>1, <2>2, ControlSafe
<1>8. CASE Raise \/ Obstacle
  <2>1. coord.pc = "loop" /\ state = "active" /\ state' = state /\ coord' = [coord EXCEPT !.pc = "halt"]
    BY <1>8 DEF Raise, Obstacle, Advancing
  <2> QED BY <1>1, <1>2, <1>3, <2>1, ControlSafe
<1>9. CASE Interrupted
  <2>1. /\ coord.pc = "operate" /\ state' = state
        /\ coord' = Idle \/ (coord' = [coord EXCEPT !.pc = "halt"] /\ state = "operating")
    BY <1>9 DEF Interrupted, Operating
  <2> QED BY <1>1, <1>2, <1>3, <2>1, ControlSafe
<1> QED BY <1>4, <1>5, <1>6, <1>7, <1>8, <1>9

\* A crash frees the lock and leaves the command to the next reconcile.
LEMMA CrashSafe == ASSUME WorkspaceInvariant, Crash PROVE WorkspaceInvariant'
<1> USE DEF WorkspaceInvariant
<1>1. /\ coord.pc # "idle" /\ coord' = Idle /\ Idle.pc = "idle"
      /\ UNCHANGED <<state, task, call, requests, receipts, export, load, tree, frozen, launcher,
                     touched, performed>>
  BY DEF Crash, Locked, work, Idle
<1>2. /\ command' \in CommandRecord /\ command'.child = command.child
      /\ command = NoCommand <=> command' = NoCommand
      /\ command'.owner # "alive"
      /\ command'.owner = "none" <=> command.owner = "none"
  <2>1. command \in CommandRecord
    BY DEF WorkspaceShape
  <2>2. CASE command = NoCommand
    <3>1. command' = command
      BY <2>2 DEF Crash
    <3> QED BY <2>1, <2>2, <3>1 DEF NoCommand
  <2>3. CASE command # NoCommand
    <3>1. command' = [command EXCEPT !.owner = "dead"]
      BY <2>3 DEF Crash
    <3>2. command.owner # "none"
      BY <2>1, <2>3 DEF ChecksKnown, NoCommand, CommandRecord
    <3> QED BY <2>1, <2>3, <3>1, <3>2 DEF NoCommand, CommandRecord
  <2> QED BY <2>2, <2>3
<1>3. WorkspaceShape'
  <2>1. coord' \in CoordRecord
    BY <1>1, ConstantsKnown DEF CoordRecord, Idle, Outcomes
  <2> QED BY <1>1, <1>2, <2>1 DEF WorkspaceShape
<1>4. CallsChained' /\ RevisionKnown' /\ OperationsOnce'
  BY <1>1 DEF CallsChained, Unasked, RevisionKnown, AllWell, OperationsOnce
<1>5. TreesKnown'
  BY <1>1 DEF TreesKnown, LatestTree
<1>6. CoordinatorKnows'
  BY <1>1 DEF CoordinatorKnows, Locked, OperatingPcs, Underway
<1>7. ChecksKnown'
  <2>1. command'.owner = "dead" => task.active # 0 /\ BatchOpen(task.active)
    <3>1. command'.owner = "dead" => command.owner \in {"alive", "dead"}
      BY <1>2 DEF CommandRecord, WorkspaceShape
    <3>2. command.owner = "alive" => coord.pc \in Underway
      BY DEF ChecksKnown, Underway, OperatingPcs
    <3> QED BY <3>1, <3>2 DEF ChecksKnown, CoordinatorKnows, Underway
  <2> QED BY <1>1, <1>2, <2>1 DEF ChecksKnown, Unasked, BatchOpen, OperatingPcs
<1>8. OwnRuns' = OwnRuns /\ OpenCommands' = OpenCommands
  BY <1>1, <1>2 DEF OwnRuns, Active, OpenCommands
<1>9. SlotsHeld' /\ Quiet'
  BY <1>1, <1>2, <1>8 DEF SlotsHeld, Quiet
<1>10. CallsInformed' /\ ExportMatches'
  BY <1>1 DEF CallsInformed, ExportMatches
<1> QED BY <1>3, <1>4, <1>5, <1>6, <1>7, <1>9, <1>10

\* Other executions come and go within the limit; another writer is remembered.
LEMMA OthersSafe == ASSUME WorkspaceInvariant, LoadChanges \/ Tamper PROVE WorkspaceInvariant'
<1> USE DEF WorkspaceInvariant
<1>1. /\ UNCHANGED <<state, task, call, requests, receipts, command, export, coord, frozen, launcher,
                     performed>>
      /\ tree' = tree \/ touched' = TRUE
  BY DEF LoadChanges, Tamper, work
<1>2. OwnRuns' = OwnRuns /\ OpenCommands' = OpenCommands
  BY <1>1 DEF OwnRuns, Active, OpenCommands
<1>3. OwnRuns \in {0, 1} /\ OpenCommands \in {0, 1} /\ load \in Nat /\ Parallel \in Nat
  BY ConstantsKnown DEF OwnRuns, OpenCommands, WorkspaceShape
<1>4. load' \in Nat /\ load' + OwnRuns + OpenCommands <= Parallel
  BY <1>3 DEF LoadChanges, Tamper, SlotsHeld, Full
<1>5. touched' \in BOOLEAN /\ tree' \in Trees /\ (touched => touched')
  BY DEF LoadChanges, Tamper, work, WorkspaceShape
<1>6. WorkspaceShape'
  BY <1>1, <1>4, <1>5 DEF WorkspaceShape
<1>7. CallsChained' /\ RevisionKnown' /\ OperationsOnce'
  BY <1>1 DEF CallsChained, Unasked, RevisionKnown, AllWell, OperationsOnce
<1>8. TreesKnown'
  BY <1>1 DEF TreesKnown, LatestTree
<1>9. CoordinatorKnows'
  BY <1>1, <1>5 DEF CoordinatorKnows, Locked, BatchOpen, AllWell
<1>10. ChecksKnown'
  BY <1>1 DEF ChecksKnown, Unasked, BatchOpen
<1>11. SlotsHeld' /\ Quiet'
  BY <1>1, <1>2, <1>4 DEF SlotsHeld, Quiet
<1>12. CallsInformed' /\ ExportMatches'
  BY <1>1, <1>5 DEF CallsInformed, ExportMatches
<1> QED BY <1>6, <1>7, <1>8, <1>9, <1>10, <1>11, <1>12

-----------------------------------------------------------------------------
(* Runs, submissions and revisions.                                          *)

\* A run that has not ended moves on: what is said of the ended ones stays (the runs as
\* RunLifecycle lets them move, launch_worker, Store.stop).
LEMMA RunMoves ==
  ASSUME WorkspaceInvariant, NEW c \in 1..Len(call), NEW status \in RunStatuses,
         NEW cancel \in BOOLEAN, NEW report \in Reports,
         call' = [call EXCEPT ![c] = [call[c] EXCEPT !.status = status, !.cancel = cancel,
                                                     !.report = report]],
         call[c].status \in ActiveStatuses, report # "none" => status = "completed",
         UNCHANGED <<state, task, requests, receipts, command, export, load, tree, frozen, launcher,
                     touched, performed>>,
         coord' = coord \/ (coord.pc = "launch" /\ coord' = [Idle EXCEPT !.pc = "loop"])
  PROVE  WorkspaceInvariant'
<1> USE DEF WorkspaceInvariant
<1>1. /\ call \in Seq(CallRecord) /\ Len(call) \in Nat /\ call[c] \in CallRecord
      /\ Len(call) <= MaxCalls /\ MaxCalls \in Nat /\ DOMAIN call = 1..Len(call)
  BY CallsTyped, ConstantsKnown DEF WorkspaceShape
<1>2. PICK new \in CallRecord :
        /\ call' = [call EXCEPT ![c] = new] /\ new.status = status /\ new.report = report
        /\ new.parent = call[c].parent /\ new.repair = call[c].repair /\ new.tree = call[c].tree
        /\ new.told = call[c].told
  <2> DEFINE new == [call[c] EXCEPT !.status = status, !.cancel = cancel, !.report = report]
  <2>1. new \in CallRecord
    BY <1>1 DEF CallRecord
  <2>2. /\ new.status = status /\ new.report = report
        /\ new.parent = call[c].parent /\ new.repair = call[c].repair /\ new.tree = call[c].tree
        /\ new.told = call[c].told
    BY <1>1 DEF CallRecord
  <2> QED BY <2>1, <2>2
<1>3. call[c].report = "none"
  BY DEF CallsChained, ActiveStatuses
<1>4. /\ call' \in Seq(CallRecord) /\ Len(call') = Len(call) /\ DOMAIN call' = 1..Len(call')
      /\ \A d \in 1..Len(call) : d # c => call'[d] = call[d]
      /\ call'[c] = new
      /\ \A d \in 1..Len(call) :
           /\ call'[d].parent = call[d].parent /\ call'[d].repair = call[d].repair
           /\ call'[d].tree = call[d].tree /\ call'[d].told = call[d].told
           /\ call[d].report # "none" => call'[d] = call[d]
      /\ call' # <<>> <=> call # <<>>
  BY <1>1, <1>2, <1>3
<1>5. /\ coord' \in CoordRecord /\ coord'.call \in 0..MaxCalls
      /\ coord' = coord \/ (coord.pc = "launch" /\ coord'.pc = "loop")
  <2>1. coord \in CoordRecord /\ [Idle EXCEPT !.pc = "loop"] \in CoordRecord
        /\ [Idle EXCEPT !.pc = "loop"].pc = "loop"
    BY ConstantsKnown DEF WorkspaceShape, CoordRecord, Idle, Outcomes
  <2> QED BY <2>1 DEF CoordRecord
<1>6. WorkspaceShape'
  <2>1. Len(call') <= MaxCalls
    BY <1>1, <1>4
  <2>2. call' \in Seq(CallRecord)
    BY <1>4, Zenon
  <2>3. coord' \in CoordRecord
    BY <1>5, Zenon
  <2> QED BY <2>1, <2>2, <2>3 DEF WorkspaceShape
<1>7. CallsChained'
  <2>1. \A d \in 1..Len(call) : call'[d].report # "none" => call'[d].status = "completed"
    BY <1>2, <1>4 DEF CallsChained
  <2> QED BY <1>4, <2>1 DEF CallsChained, Unasked
<1>8. task.active # 0 => task.active \in 1..Len(call)
  <2>1. call # <<>> => Len(call) \in 1..Len(call)
    BY <1>1
  <2> QED BY <2>1, CallsTyped DEF CallsChained
<1>9. OperationsOnce'
  BY DEF OperationsOnce
<1>10. TreesKnown'
  <2>1. call # <<>> => Len(call) \in 1..Len(call)
    BY <1>1
  <2>2. LatestTree' = LatestTree
    BY DEF LatestTree
  <2> QED BY <1>4, <2>1, <2>2 DEF TreesKnown
<1>11. RevisionKnown'
  <2>1. ASSUME task.active = 0, call # <<>> PROVE call'[Len(call)] = call[Len(call)]
    <3>1. Len(call) \in 1..Len(call) /\ call[Len(call)].report # "none"
      BY <1>1, <2>1 DEF RevisionKnown
    <3> QED BY <1>4, <3>1
  <2>2. AllWell(Len(call))' <=> AllWell(Len(call))
    BY <1>4 DEF AllWell
  <2>3. Len(call') = Len(call) /\ (call' # <<>> <=> call # <<>>)
    BY <1>4
  <2> QED BY <2>1, <2>2, <2>3 DEF RevisionKnown
<1>12. CoordinatorKnows'
  <2>1. CASE coord' = coord
    <3>1. task.active # 0 /\ call[task.active].report # "none" => call'[task.active] = call[task.active]
      BY <1>4, <1>8
    <3>2. coord.pc \in OperatingPcs \union {"freeze", "record"} => call'[task.active] = call[task.active]
      BY <3>1 DEF CoordinatorKnows
    <3>3. (AllWell(task.active)' <=> AllWell(task.active)) /\ (BatchOpen(task.active)' <=> BatchOpen(task.active))
      BY DEF AllWell, BatchOpen
    <3>4. Len(call') = Len(call)
      BY <1>4
    <3> QED BY <2>1, <3>2, <3>3, <3>4 DEF CoordinatorKnows, Locked, Underway
  <2>2. CASE coord.pc = "launch" /\ coord'.pc = "loop"
    BY <2>2 DEF CoordinatorKnows, Locked, OperatingPcs, Underway
  <2> QED BY <1>5, <2>1, <2>2
<1>13. ChecksKnown'
  BY <1>5 DEF ChecksKnown, Unasked, BatchOpen, OperatingPcs
<1>14. OwnRuns' <= OwnRuns /\ OwnRuns' \in {0, 1} /\ OwnRuns \in {0, 1}
  <2>1. ASSUME NEW d \in 1..Len(call), call'[d].status \in ActiveStatuses
        PROVE  call[d].status \in ActiveStatuses
    BY <1>4, <2>1
  <2>2. (\E d \in DOMAIN call' : Active(d)') => (\E d \in DOMAIN call : Active(d))
    BY <1>1, <1>4, <2>1 DEF Active
  <2> QED BY <2>2 DEF OwnRuns
<1>15. SlotsHeld' /\ Quiet'
  <2>1. OpenCommands' = OpenCommands /\ OpenCommands \in {0, 1} /\ load \in Nat /\ Parallel \in Nat
    BY ConstantsKnown DEF OpenCommands, WorkspaceShape
  <2> QED BY <1>14, <2>1 DEF SlotsHeld, Quiet
<1>16. CallsInformed'
  <2>1. ASSUME NEW d \in 1..Len(call)
        PROVE  d # 1 => d - 1 \in 1..Len(call)
    BY <1>1
  <2>2. ASSUME NEW d \in 1..Len(call)
        PROVE  /\ call'[d].parent = d - 1
               /\ d = 1 => call'[d].tree = Baseline
               /\ d # 1 =>
                    /\ call'[d].told = receipts[d - 1]
                    /\ call'[d].repair =>
                         /\ call'[d - 1].report = "malformed" /\ ~call'[d - 1].repair
                         /\ requests[d - 1] = <<>> /\ call'[d].tree = call'[d - 1].tree
                    /\ ~call'[d].repair =>
                         /\ call'[d - 1].report = "operations"
                         /\ Len(receipts[d - 1]) = Len(requests[d - 1]) /\ AllWell(d - 1)
                         /\ call'[d].tree = LastOf(receipts[d - 1]).tree
    <3>1. /\ call[d].parent = d - 1
          /\ d = 1 => call[d].tree = Baseline
          /\ d # 1 =>
               /\ call[d].told = receipts[d - 1]
               /\ call[d].repair =>
                    /\ call[d - 1].report = "malformed" /\ ~call[d - 1].repair
                    /\ requests[d - 1] = <<>> /\ call[d].tree = call[d - 1].tree
               /\ ~call[d].repair =>
                    /\ call[d - 1].report = "operations"
                    /\ Len(receipts[d - 1]) = Len(requests[d - 1]) /\ AllWell(d - 1)
                    /\ call[d].tree = LastOf(receipts[d - 1]).tree
      BY InformedUnfolded
    <3>2. d # 1 => call[d - 1].report # "none" /\ call'[d - 1] = call[d - 1]
      BY <1>4, <2>1, <3>1
    <3> QED BY <1>4, <3>1, <3>2
  <2>3. DOMAIN call' = 1..Len(call)
    BY <1>4
  <2>4. ASSUME NEW d \in 1..Len(call), d # 1
        PROVE  AllWell(d - 1) <=>
               \A i \in DOMAIN receipts[d - 1] : receipts[d - 1][i].outcome \in {"ok", "failed"}
    <3>1. d - 1 \in Calls
      BY <2>1, <2>4, CallsTyped
    <3>2. DOMAIN receipts[d - 1] = 1..Len(receipts[d - 1])
      BY <3>1, CallsTyped
    <3> QED BY <3>2 DEF AllWell
  <2>5. \A d \in 1..Len(call) : d - 1 = 0 <=> d = 1
    OBVIOUS
  <2> QED BY <2>2, <2>3, <2>4, <2>5 DEF CallsInformed
<1>17. ExportMatches'
  <2>1. SUFFICES ASSUME export # NoExport
                 PROVE  /\ export.call = Len(call) /\ call'[export.call].report = "complete"
                        /\ touched \/ export.tree = call'[export.call].tree
    BY <1>4 DEF ExportMatches
  <2>2. export.call = Len(call) /\ call[export.call].report = "complete"
        /\ (touched \/ export.tree = call[export.call].tree)
    BY <2>1 DEF ExportMatches
  <2>3. Len(call) \in 1..Len(call)
    BY <1>1
  <2> QED BY <1>4, <2>2, <2>3
<1> QED BY <1>6, <1>7, <1>9, <1>10, <1>11, <1>12, <1>13, <1>15, <1>16, <1>17

\* A run is launched, starts, ends, is lost, reconciled or stopped (RunLifecycle).
LEMMA RunStepsSafe ==
  ASSUME WorkspaceInvariant,
         Launch \/ (\E c \in Calls : StopRun(c) \/ RunSteps(c) \/ RunQuarantined(c))
  PROVE  WorkspaceInvariant'
<1>0. WorkspaceShape /\ CoordinatorKnows
  BY DEF WorkspaceInvariant
<1>1. ASSUME NEW c \in 1..Len(call)
      PROVE  /\ c \in DOMAIN call /\ call[c] \in CallRecord /\ call[c].status \in RunStatuses
             /\ call[c].cancel \in BOOLEAN /\ call[c].report \in Reports
             /\ \A status \in RunStatuses, report \in Reports :
                  [call EXCEPT ![c].status = status, ![c].report = report]
                  = [call EXCEPT ![c] = [call[c] EXCEPT !.status = status,
                                                        !.cancel = call[c].cancel, !.report = report]]
             /\ \A status \in RunStatuses :
                  [call EXCEPT ![c].cancel = TRUE, ![c].status = status]
                  = [call EXCEPT ![c] = [call[c] EXCEPT !.status = status, !.cancel = TRUE,
                                                        !.report = call[c].report]]
             /\ [call EXCEPT ![c].status = "launched"]
                = [call EXCEPT ![c] = [call[c] EXCEPT !.status = "launched",
                                                      !.cancel = call[c].cancel,
                                                      !.report = call[c].report]]
  <2>1. c \in DOMAIN call /\ call[c] \in CallRecord
    BY <1>0, CallsTyped
  <2>2. /\ call[c].status \in RunStatuses /\ call[c].cancel \in BOOLEAN /\ call[c].report \in Reports
    BY <2>1 DEF CallRecord
  <2>3. ASSUME NEW status \in RunStatuses, NEW report \in Reports
        PROVE  [[call[c] EXCEPT !.status = status] EXCEPT !.report = report]
               = [call[c] EXCEPT !.status = status, !.cancel = call[c].cancel, !.report = report]
    BY <2>1 DEF CallRecord
  <2>4. ASSUME NEW status \in RunStatuses
        PROVE  [[call[c] EXCEPT !.cancel = TRUE] EXCEPT !.status = status]
               = [call[c] EXCEPT !.status = status, !.cancel = TRUE, !.report = call[c].report]
    BY <2>1 DEF CallRecord
  <2>5. [call[c] EXCEPT !.status = "launched"]
        = [call[c] EXCEPT !.status = "launched", !.cancel = call[c].cancel, !.report = call[c].report]
    BY <2>1 DEF CallRecord
  <2>6. ASSUME NEW status \in RunStatuses, NEW report \in Reports
        PROVE  [call EXCEPT ![c].status = status, ![c].report = report]
               = [call EXCEPT ![c] = [[call[c] EXCEPT !.status = status] EXCEPT !.report = report]]
    BY <1>0, <2>1, CallsTyped DEF WorkspaceShape
  <2>7. ASSUME NEW status \in RunStatuses
        PROVE  [call EXCEPT ![c].cancel = TRUE, ![c].status = status]
               = [call EXCEPT ![c] = [[call[c] EXCEPT !.cancel = TRUE] EXCEPT !.status = status]]
    BY <1>0, <2>1, CallsTyped DEF WorkspaceShape
  <2>8. ASSUME NEW status \in RunStatuses, NEW report \in Reports
        PROVE  [call EXCEPT ![c].status = status, ![c].report = report]
               = [call EXCEPT ![c] = [call[c] EXCEPT !.status = status,
                                                     !.cancel = call[c].cancel, !.report = report]]
    <3>1. [call EXCEPT ![c].status = status, ![c].report = report]
          = [call EXCEPT ![c] = [[call[c] EXCEPT !.status = status] EXCEPT !.report = report]]
      BY <2>6, Zenon
    <3>2. [[call[c] EXCEPT !.status = status] EXCEPT !.report = report]
          = [call[c] EXCEPT !.status = status, !.cancel = call[c].cancel, !.report = report]
      BY <2>3, Zenon
    <3> QED BY <3>1, <3>2, Zenon
  <2>9. ASSUME NEW status \in RunStatuses
        PROVE  [call EXCEPT ![c].cancel = TRUE, ![c].status = status]
               = [call EXCEPT ![c] = [call[c] EXCEPT !.status = status, !.cancel = TRUE,
                                                     !.report = call[c].report]]
    BY <2>4, <2>7, Zenon
  <2>10. [call EXCEPT ![c].status = "launched"]
         = [call EXCEPT ![c] = [call[c] EXCEPT !.status = "launched", !.cancel = call[c].cancel,
                                               !.report = call[c].report]]
    BY <2>5, Zenon
  <2> QED BY <2>1, <2>2, <2>8, <2>9, <2>10, Zenon
<1>2. CASE Launch
  <2>1. /\ coord.pc = "launch" /\ coord.call \in 1..Len(call)
        /\ coord' = [Idle EXCEPT !.pc = "loop"]
        /\ UNCHANGED <<state, task, requests, receipts, command, export, load, tree, frozen, launcher,
                       touched, performed>>
    BY <1>0, <1>2 DEF Launch, work, CoordinatorKnows
  <2>2. CASE call[coord.call].status # "reserved"
    <3>1. call' = call
      BY <1>2, <2>2 DEF Launch
    <3>2. coord' \in CoordRecord /\ coord'.pc = "loop" /\ state \in States
      BY <1>0, <2>1, ConstantsKnown DEF WorkspaceShape, CoordRecord, Idle, Outcomes
    <3>3. state \in {"active", "operating", "stopping"}
      BY <1>0, <2>1 DEF CoordinatorKnows, Locked
    <3> QED BY <2>1, <3>1, <3>2, <3>3, ControlSafe
  <2>3. CASE call[coord.call].status = "reserved"
    <3> DEFINE c == coord.call
    <3>1. call' = [call EXCEPT ![c].status = "launched"]
      BY <1>2, <2>3 DEF Launch
    <3>2. c \in 1..Len(call)
      BY <2>1, SMTT(30)
    <3> HIDE DEF c
    <3>3. /\ call' = [call EXCEPT ![c] = [call[c] EXCEPT !.status = "launched",
                                                      !.cancel = call[c].cancel,
                                                      !.report = call[c].report]]
          /\ call[c].cancel \in BOOLEAN /\ call[c].report \in Reports
      BY <1>1, <3>1, <3>2
    <3>4. call[c].status = "reserved"
      BY <2>3 DEF c
    <3>5. /\ "launched" \in RunStatuses /\ call[c].status \in ActiveStatuses
          /\ call[c].report # "none" => "launched" = "completed"
      BY <3>2, <3>4 DEF RunStatuses, ActiveStatuses, WorkspaceInvariant, CallsChained
    <3> QED BY <2>1, <3>2, <3>3, <3>5, RunMoves, ZenonT(60)
  <2> QED BY <2>2, <2>3
<1>3. CASE \E c \in Calls : StopRun(c)
  <2>1. PICK c \in Calls : StopRun(c)
    BY <1>3
  <2>2. c \in 1..Len(call) /\ call[c].status \in ActiveStatuses
        /\ UNCHANGED <<state, task, requests, receipts, command, export, load, tree, frozen, launcher,
                       touched, performed, coord>>
    BY <1>0, <2>1, CallsTyped DEF StopRun, Active, work
  <2>3. PICK status \in RunStatuses :
          call' = [call EXCEPT ![c].cancel = TRUE, ![c].status = status]
    <3> DEFINE status == IF call[c].status \in {"reserved", "launched"} THEN "failed"
                         ELSE call[c].status
    <3>1. status \in RunStatuses
      BY <1>1, <2>2 DEF RunStatuses
    <3>2. [call[c] EXCEPT !.cancel = TRUE].status = call[c].status
      BY <1>1, <2>2 DEF CallRecord
    <3>3. call' = [call EXCEPT ![c].cancel = TRUE, ![c].status = status]
      BY <1>0, <2>1, <2>2, <3>2, CallsTyped DEF StopRun, WorkspaceShape
    <3> QED BY <3>1, <3>3
  <2>4. /\ call' = [call EXCEPT ![c] = [call[c] EXCEPT !.status = status, !.cancel = TRUE,
                                                       !.report = call[c].report]]
        /\ call[c].report \in Reports /\ TRUE \in BOOLEAN
    BY <1>1, <2>2, <2>3
  <2>5. call[c].report # "none" => status = "completed"
    BY <2>2 DEF ActiveStatuses, WorkspaceInvariant, CallsChained
  <2> QED BY <2>2, <2>4, <2>5, RunMoves
<1>4. CASE \E c \in Calls : RunSteps(c) \/ RunQuarantined(c)
  <2>1. PICK c \in Calls : RunSteps(c) \/ RunQuarantined(c)
    BY <1>4
  <2>2. PICK status \in RunStatuses, report \in Reports :
          /\ c \in DOMAIN call /\ call[c].status \in ActiveStatuses
          /\ call' = [call EXCEPT ![c].status = status, ![c].report = report]
          /\ report # "none" => status = "completed"
    <3>1. /\ {"live", "failed", "unknown", "completed"} \subseteq RunStatuses
          /\ {"reserved", "launched", "live", "unknown"} \subseteq ActiveStatuses
          /\ "none" \in Reports
      BY DEF RunStatuses, ActiveStatuses, Reports
    <3>2. CASE RunStarts(c)
      BY <3>1, <3>2 DEF RunStarts, RunBecomes
    <3>3. CASE RunEnds(c)
      BY <3>1, <3>3 DEF RunEnds, RunBecomes
    <3>4. CASE RunQuarantined(c)
      BY <3>1, <3>4, ZenonT(60) DEF RunQuarantined, RunBecomes
    <3>5. CASE RunReconciled(c)
      BY <3>1, <3>5 DEF RunReconciled, RunBecomes
    <3> QED BY <2>1, <3>2, <3>3, <3>4, <3>5 DEF RunSteps
  <2>3. c \in 1..Len(call)
        /\ UNCHANGED <<state, task, requests, receipts, command, export, load, tree, frozen, launcher,
                       touched, performed, coord>>
    BY <1>0, <2>1, <2>2, CallsTyped
       DEF RunSteps, RunStarts, RunEnds, RunQuarantined, RunReconciled, RunBecomes, work
  <2>4. /\ call' = [call EXCEPT ![c] = [call[c] EXCEPT !.status = status,
                                          !.cancel = call[c].cancel, !.report = report]]
        /\ call[c].cancel \in BOOLEAN
    BY <1>1, <2>2, <2>3, ZenonT(60)
  <2> QED BY <2>2, <2>3, <2>4, RunMoves
<1> QED BY <1>2, <1>3, <1>4

\* A submission tells the call the receipts of the one before it, and shows it the tree
\* that the latest of them left (submit_in, materialize).
LEMMA SubmitSafe == ASSUME WorkspaceInvariant, Submit PROVE WorkspaceInvariant'
<1> USE DEF WorkspaceInvariant
<1> DEFINE n == Len(call) + 1
           new == NewCall
<1>1. /\ coord.pc = "loop" /\ state = "active" /\ task.active = 0 /\ tree = LatestTree
      /\ Len(call) < MaxCalls /\ ~Full
      /\ call' = Append(call, new) /\ task' = [task EXCEPT !.active = n]
      /\ coord' = [coord EXCEPT !.pc = "launch", !.call = n]
      /\ UNCHANGED <<state, requests, receipts, command, export, load, tree, frozen, launcher,
                     touched, performed>>
  BY DEF Submit, Advancing, TreeHolds, work
<1>2. /\ call \in Seq(CallRecord) /\ Len(call) \in Nat /\ MaxCalls \in Nat /\ n \in Calls
      /\ n \in 0..MaxCalls /\ task \in TaskRecord /\ task.parent = Len(call)
  <2>1. Len(call) \in Nat /\ MaxCalls \in Nat /\ call \in Seq(CallRecord) /\ task \in TaskRecord
    BY CallsTyped, ConstantsKnown DEF WorkspaceShape
  <2> QED BY <1>1, <2>1 DEF Calls, CallsChained
<1>3. /\ new \in CallRecord
      /\ new.parent = Len(call) /\ new.repair = task.repair /\ new.tree = tree
      /\ new.status = "reserved" /\ new.report = "none"
      /\ Len(call) # 0 => new.told = receipts[Len(call)]
  <2>1. Len(call) \in 0..MaxCalls /\ (Len(call) # 0 => Len(call) \in Calls)
    BY <1>1, <1>2 DEF Calls
  <2>2. (IF task.parent = 0 THEN <<>> ELSE receipts[task.parent]) \in Seq(Receipts)
    BY <1>2, <2>1 DEF WorkspaceShape
  <2>3. task.repair \in BOOLEAN /\ tree \in Trees
    BY CallsTyped DEF WorkspaceShape
  <2>4. "reserved" \in RunStatuses /\ "none" \in Reports /\ FALSE \in BOOLEAN
    BY DEF RunStatuses, Reports
  <2>5. new \in CallRecord
    BY <1>2, <2>1, <2>2, <2>3, <2>4 DEF CallRecord, NewCall
  <2> QED BY <1>2, <2>5 DEF NewCall
<1> HIDE DEF new
<1>4. /\ call' \in Seq(CallRecord) /\ Len(call') = n /\ DOMAIN call' = 1..n
      /\ \A c \in 1..Len(call) : call'[c] = call[c]
      /\ call'[n] = new
      /\ \A c \in 1..n : c \in 1..Len(call) \/ c = n
  BY <1>1, <1>2, <1>3
<1>5. /\ task' \in TaskRecord /\ task'.active = n /\ task'.parent = Len(call)
  <2>1. PICK k \in 0..MaxCalls : k = n
    BY <1>2
  <2>2. task' = [task EXCEPT !.active = k]
    BY <1>1, <2>1
  <2> QED BY <1>2, <2>1, <2>2 DEF TaskRecord
<1>6. coord' \in CoordRecord /\ coord'.pc = "launch" /\ coord'.call = n
  <2>1. PICK k \in 0..MaxCalls : k = n
    BY <1>2
  <2>2. coord' = [coord EXCEPT !.pc = "launch", !.call = k] /\ coord \in CoordRecord
    BY <1>1, <2>1 DEF WorkspaceShape
  <2> QED BY <2>1, <2>2 DEF CoordRecord
<1>7. WorkspaceShape'
  <2>1. Len(call') <= MaxCalls
    BY <1>1, <1>2, <1>4
  <2>2. call' \in Seq(CallRecord)
    BY <1>4
  <2> QED BY <1>1, <1>5, <1>6, <2>1, <2>2 DEF WorkspaceShape
<1>8. Unasked(n)
  BY <1>2 DEF CallsChained
<1>9. CallsChained'
  <2>1. ASSUME NEW c \in 1..n PROVE call'[c].report # "none" => call'[c].status = "completed"
    BY <1>3, <1>4 DEF CallsChained
  <2>2. ASSUME NEW c \in Calls, c > n PROVE Unasked(c)'
    <3>1. c > Len(call)
      BY <1>2, <2>2 DEF Calls
    <3> QED BY <1>1, <3>1 DEF CallsChained, Unasked
  <2>3. n - 1 = Len(call) /\ n # 0
    BY <1>2
  <2> QED BY <1>4, <1>5, <2>1, <2>2, <2>3 DEF CallsChained
<1>10. TreesKnown'
  <2>1. LatestTree' = LatestTree
    BY <1>1 DEF LatestTree
  <2> QED BY <1>1, <1>3, <1>4, <2>1 DEF TreesKnown
<1>11. RevisionKnown'
  BY <1>2, <1>5 DEF RevisionKnown
<1>12. CoordinatorKnows'
  BY <1>1, <1>2, <1>4, <1>6 DEF CoordinatorKnows, Locked, OperatingPcs, Underway
<1>13. ChecksKnown'
  <2>1. launcher = "none" /\ command = NoCommand
    BY <1>1 DEF ChecksKnown, Early
  <2>2. requests'[n] = <<>> /\ receipts'[n] = <<>> /\ performed'[n] = 0
    BY <1>1, <1>8 DEF Unasked
  <2>3. Unasked(task.active)'
    BY <1>5, <2>2 DEF Unasked
  <2>4. command'.owner = "none" /\ ~command'.child
    BY <1>1, <2>1 DEF NoCommand
  <2> QED BY <1>1, <1>5, <2>1, <2>3, <2>4 DEF ChecksKnown
<1>14. SlotsHeld' /\ Quiet'
  <2>1. OpenCommands' = OpenCommands /\ OpenCommands \in {0, 1} /\ load \in Nat /\ Parallel \in Nat
        /\ OwnRuns \in {0, 1} /\ OwnRuns' \in {0, 1}
    BY <1>1, ConstantsKnown DEF OpenCommands, WorkspaceShape, OwnRuns
  <2> QED BY <1>1, <2>1 DEF SlotsHeld, Quiet, Full
<1>15. OperationsOnce'
  BY <1>1 DEF OperationsOnce
<1>16. CallsInformed'
  <2>1. \A c \in Calls : AllWell(c)' <=> AllWell(c)
    BY <1>1 DEF AllWell
  <2>2. ASSUME NEW c \in 1..n
        PROVE  /\ call'[c].parent = c - 1
               /\ c = 1 => call'[c].tree = Baseline
               /\ c # 1 =>
                    /\ call'[c].told = receipts[c - 1]
                    /\ call'[c].repair =>
                         /\ call'[c - 1].report = "malformed" /\ ~call'[c - 1].repair
                         /\ requests[c - 1] = <<>> /\ call'[c].tree = call'[c - 1].tree
                    /\ ~call'[c].repair =>
                         /\ call'[c - 1].report = "operations"
                         /\ Len(receipts[c - 1]) = Len(requests[c - 1]) /\ AllWell(c - 1)
                         /\ call'[c].tree = LastOf(receipts[c - 1]).tree
    <3>1. CASE c \in 1..Len(call)
      <4>1. c # 1 => c - 1 \in 1..Len(call)
        BY <1>2, <3>1
      <4>2. call'[c] = call[c] /\ (c # 1 => call'[c - 1] = call[c - 1])
        BY <1>4, <3>1, <4>1
      <4> QED BY <3>1, <4>2, InformedUnfolded
    <3>2. CASE c = n
      <4>1. c - 1 = Len(call) /\ (c = 1 <=> call = <<>>) /\ (c # 1 => Len(call) \in 1..Len(call))
        BY <1>2, <3>2
      <4>2. c = 1 => new.tree = Baseline
        BY <1>1, <1>3, <4>1, TreeNow
      <4>3. c # 1 => call'[c - 1] = call[Len(call)]
        BY <1>4, <4>1
      <4>4. c # 1 => new.tree = IF receipts[Len(call)] = <<>> THEN call[Len(call)].tree
                                ELSE LastOf(receipts[Len(call)]).tree
        BY <1>1, <1>3, <4>1, TreeNow
      <4>5. c # 1 /\ task.repair =>
              /\ call[Len(call)].report = "malformed" /\ ~call[Len(call)].repair
              /\ requests[Len(call)] = <<>> /\ receipts[Len(call)] = <<>>
        BY <1>1, <4>1 DEF RevisionKnown
      <4>6. c # 1 /\ ~task.repair =>
              /\ call[Len(call)].report = "operations" /\ receipts[Len(call)] # <<>>
              /\ Len(receipts[Len(call)]) = Len(requests[Len(call)]) /\ AllWell(Len(call))
        BY <1>1, <4>1 DEF RevisionKnown
      <4>7. c # 1 => new.told = receipts[Len(call)]
        BY <1>2, <1>3, <4>1
      <4> QED BY <1>3, <1>4, <3>2, <4>1, <4>2, <4>3, <4>4, <4>5, <4>6, <4>7
    <3> QED BY <1>4, <3>1, <3>2
  <2>3. ASSUME NEW c \in 1..n, c # 1
        PROVE  AllWell(c - 1) <=>
               \A i \in DOMAIN receipts[c - 1] : receipts[c - 1][i].outcome \in {"ok", "failed"}
    <3>1. c - 1 \in Calls
      BY <1>1, <1>2, <2>3 DEF Calls
    <3>2. DOMAIN receipts[c - 1] = 1..Len(receipts[c - 1])
      BY <3>1, CallsTyped
    <3> QED BY <3>2 DEF AllWell
  <2>4. \A c \in 1..n : c - 1 = 0 <=> c = 1
    BY <1>2
  <2> QED BY <1>1, <1>4, <2>2, <2>3, <2>4 DEF CallsInformed
<1>17. ExportMatches'
  BY <1>1 DEF ExportMatches
<1> QED BY <1>7, <1>9, <1>10, <1>11, <1>12, <1>13, <1>14, <1>15, <1>16, <1>17

-----------------------------------------------------------------------------
(* Batches: the durable intent, the operations and their receipts.           *)

\* The last call is the one the task is about.
LEMMA ActiveIsLast ==
  ASSUME WorkspaceInvariant, task.active # 0
  PROVE  /\ task.active = Len(call) /\ task.active \in 1..Len(call) /\ task.active \in Calls
         /\ call[task.active] \in CallRecord /\ call # <<>>
<1>1. WorkspaceShape /\ task.active = Len(call)
  BY DEF WorkspaceInvariant, CallsChained
<1>2. Len(call) \in Nat /\ Len(call) \in 1..Len(call)
  BY <1>1, CallsTyped
<1> QED BY <1>1, <1>2, CallsTyped

\* What earlier calls were told is not touched by what the last one asks or gets.
LEMMA EarlierInformed ==
  ASSUME WorkspaceInvariant, task.active # 0, call' = call,
         \A c \in Calls : c # task.active => requests'[c] = requests[c] /\ receipts'[c] = receipts[c]
  PROVE  CallsInformed'
<1> USE DEF WorkspaceInvariant
<1>1. ASSUME NEW c \in 1..Len(call), c - 1 # 0
      PROVE  requests'[c - 1] = requests[c - 1] /\ receipts'[c - 1] = receipts[c - 1]
  <2>1. c \in Calls /\ Len(call) \in Nat /\ MaxCalls \in Nat /\ task.active = Len(call)
    BY CallsTyped, ConstantsKnown, ActiveIsLast
  <2>2. c - 1 \in Calls /\ c - 1 # task.active
    BY <1>1, <2>1 DEF Calls
  <2> QED BY <2>2
<1>2. DOMAIN call = 1..Len(call)
  BY CallsTyped
<1> QED BY <1>1, <1>2 DEF CallsInformed

\* A malformed report that asked for nothing is answered by one repair (_advance).
LEMMA RepairSafe == ASSUME WorkspaceInvariant, Repair PROVE WorkspaceInvariant'
<1> USE DEF WorkspaceInvariant
<1>1. /\ coord.pc = "loop" /\ state = "active" /\ task.active # 0
      /\ call[task.active].report = "malformed" /\ ~call[task.active].repair
      /\ requests[task.active] = <<>> /\ receipts[task.active] = <<>>
      /\ task' = [parent |-> task.active, repair |-> TRUE, active |-> 0]
      /\ UNCHANGED <<state, call, requests, receipts, command, export, coord, load, tree, frozen,
                     launcher, touched, performed>>
  BY DEF Repair, Answered, Advancing, Repairable, Run, work
<1>2. task.active = Len(call) /\ call # <<>>
  BY <1>1, ActiveIsLast
<1>3. /\ task' \in TaskRecord /\ task'.active = 0 /\ task'.parent = Len(call) /\ task'.repair
  BY <1>1, <1>2, CallsTyped, ConstantsKnown DEF TaskRecord
<1>4. WorkspaceShape'
  BY <1>1, <1>3 DEF WorkspaceShape
<1>5. CallsChained'
  BY <1>1, <1>3 DEF CallsChained, Unasked
<1>6. RevisionKnown'
  BY <1>1, <1>2, <1>3 DEF RevisionKnown
<1>7. TreesKnown'
  BY <1>1 DEF TreesKnown, LatestTree
<1>8. CoordinatorKnows'
  BY <1>1 DEF CoordinatorKnows, Locked, OperatingPcs, Underway
<1>9. ChecksKnown'
  BY <1>1, <1>3 DEF ChecksKnown, NoCommand, Early
<1>10. SlotsHeld' /\ Quiet'
  BY <1>1 DEF SlotsHeld, Quiet, OwnRuns, Active, OpenCommands
<1>11. OperationsOnce' /\ CallsInformed' /\ ExportMatches'
  BY <1>1 DEF OperationsOnce, CallsInformed, ExportMatches
<1> QED BY <1>4, <1>5, <1>6, <1>7, <1>8, <1>9, <1>10, <1>11

\* A batch is a sequence of operations, not an empty one (format_status).
LEMMA BatchTyped ==
  ASSUME NEW batch \in Batches PROVE batch \in Seq(Operations) /\ batch # <<>>
<1>1. PICK n \in 1..MaxBatch : batch \in [1..n -> Operations]
  BY DEF Batches
<1>2. n \in Nat /\ n # 0
  BY <1>1, ConstantsKnown
<1>3. batch \in Seq(Operations) /\ Len(batch) = n
  BY <1>1, <1>2
<1> QED BY <1>2, <1>3

\* The requests of a report become the intent of its operations; a complete report asks
\* for none (_advance).
LEMMA RequestSafe ==
  ASSUME WorkspaceInvariant, Finish \/ (\E batch \in Batches : Request(batch))
  PROVE  WorkspaceInvariant'
<1> USE DEF WorkspaceInvariant
<1>1. /\ coord.pc = "loop" /\ state = "active" /\ task.active # 0 /\ state' = "operating"
      /\ tree = call[task.active].tree
      /\ UNCHANGED <<task, call, receipts, command, export, load, tree, frozen, launcher, touched,
                     performed>>
  BY DEF Finish, Request, Answered, Advancing, Run, work
<1>2. /\ Unasked(task.active) /\ launcher = "none" /\ command = NoCommand
  BY <1>1 DEF ChecksKnown, Early
<1>3. /\ task.active = Len(call) /\ task.active \in Calls /\ task.active \in 0..MaxCalls
  BY <1>1, ActiveIsLast, CallsTyped
<1>4. PICK pc \in {"operate", "freeze"} :
        /\ coord' = [coord EXCEPT !.pc = pc, !.call = task.active]
        /\ requests' \in [Calls -> Seq(Operations)]
        /\ \A c \in Calls : c # task.active => requests'[c] = requests[c]
        /\ pc = "operate" => requests'[task.active] # <<>> /\ call[task.active].report = "operations"
        /\ pc = "freeze" => requests' = requests /\ call[task.active].report = "complete"
  <2>1. CASE Finish
    BY <2>1 DEF Finish, Answered, Run, WorkspaceShape
  <2>2. CASE \E batch \in Batches : Request(batch)
    <3>1. PICK batch \in Batches : Request(batch)
      BY <2>2
    <3>2. batch \in Seq(Operations) /\ batch # <<>>
      BY BatchTyped
    <3>3. /\ requests' = [requests EXCEPT ![task.active] = batch]
          /\ coord' = [coord EXCEPT !.pc = "operate", !.call = task.active]
          /\ call[task.active].report = "operations"
      BY <3>1 DEF Request, Answered, Run
    <3>4. requests \in [Calls -> Seq(Operations)]
      BY DEF WorkspaceShape
    <3> QED BY <1>3, <3>2, <3>3, <3>4
  <2> QED BY <2>1, <2>2
<1>5. coord' \in CoordRecord /\ coord'.pc = pc /\ coord'.call = task.active
  BY <1>3, <1>4 DEF WorkspaceShape, CoordRecord
<1>6. WorkspaceShape'
  <2>1. state' \in States
    BY <1>1 DEF States
  <2> QED BY <1>1, <1>4, <1>5, <2>1 DEF WorkspaceShape
<1>7. CallsChained'
  <2>1. ASSUME NEW c \in Calls, c > Len(call) PROVE Unasked(c)'
    <3>1. c # task.active
      BY <1>3, <2>1 DEF Calls
    <3> QED BY <1>1, <1>4, <2>1, <3>1 DEF CallsChained, Unasked
  <2> QED BY <1>1, <2>1 DEF CallsChained
<1>8. RevisionKnown'
  BY <1>1 DEF RevisionKnown
<1>9. TreesKnown'
  BY <1>1 DEF TreesKnown, LatestTree
<1>10. Len(receipts[task.active]) = 0 /\ performed[task.active] = 0
  BY <1>2 DEF Unasked
<1>11. CoordinatorKnows'
  <2>1. AllWell(task.active)'
    BY <1>1, <1>10 DEF AllWell
  <2>2. performed'[task.active] = Len(receipts'[task.active])
    BY <1>1, <1>10
  <2> QED BY <1>1, <1>4, <1>5, <2>1, <2>2 DEF CoordinatorKnows, Locked, OperatingPcs, Underway
<1>12. ChecksKnown'
  BY <1>1, <1>2 DEF ChecksKnown, NoCommand, Early
<1>13. SlotsHeld' /\ Quiet'
  BY <1>1 DEF SlotsHeld, Quiet, OwnRuns, Active, OpenCommands
<1>14. OperationsOnce'
  <2>1. ASSUME NEW c \in Calls
        PROVE  /\ Len(receipts'[c]) <= Len(requests'[c])
               /\ performed'[c] \in {Len(receipts'[c]), Len(receipts'[c]) + 1}
    <3>1. CASE c = task.active
      <4>1. Len(requests'[c]) \in Nat
        BY <1>4
      <4> QED BY <1>1, <1>10, <3>1, <4>1
    <3>2. CASE c # task.active
      BY <1>1, <1>4, <3>2 DEF OperationsOnce
    <3> QED BY <3>1, <3>2
  <2> QED BY <2>1 DEF OperationsOnce
<1>15. CallsInformed'
  BY <1>1, <1>4, EarlierInformed
<1>16. ExportMatches'
  BY <1>1 DEF ExportMatches
<1> QED BY <1>6, <1>7, <1>8, <1>9, <1>11, <1>12, <1>13, <1>14, <1>15, <1>16

\* An operation is begun once (_perform).
LEMMA BeginSafe == ASSUME WorkspaceInvariant, Begin PROVE WorkspaceInvariant'
<1> USE DEF WorkspaceInvariant
<1>1. /\ coord.pc = "operate" /\ state = "operating"
      /\ Len(receipts[coord.call]) < Len(requests[coord.call])
      /\ coord' = [coord EXCEPT !.pc = "begun"]
      /\ performed' = [performed EXCEPT ![coord.call] = @ + 1]
      /\ UNCHANGED <<state, task, call, requests, receipts, command, export, load, tree, frozen,
                     launcher, touched>>
  BY DEF Begin, Operating
<1>2. /\ coord.call = task.active /\ task.active # 0 /\ AllWell(task.active)
      /\ performed[task.active] = Len(receipts[task.active]) /\ call[task.active].report = "operations"
      /\ requests[task.active] # <<>>
  BY <1>1 DEF CoordinatorKnows, OperatingPcs
<1>3. task.active = Len(call) /\ task.active \in Calls
  BY <1>2, ActiveIsLast
<1>4. /\ coord' \in CoordRecord /\ coord'.pc = "begun" /\ coord'.call = task.active
  BY <1>1, <1>2 DEF WorkspaceShape, CoordRecord
<1>5. /\ performed' \in [Calls -> Nat]
      /\ performed'[task.active] = Len(receipts[task.active]) + 1
      /\ \A c \in Calls : c # task.active => performed'[c] = performed[c]
      /\ Len(receipts[task.active]) \in Nat /\ Len(requests[task.active]) \in Nat
  <2>1. Len(receipts[task.active]) \in Nat /\ Len(requests[task.active]) \in Nat
    BY <1>3, CallsTyped
  <2> QED BY <1>1, <1>2, <1>3, <2>1 DEF WorkspaceShape
<1>6. WorkspaceShape'
  BY <1>1, <1>4, <1>5 DEF WorkspaceShape
<1>7. CallsChained'
  <2>1. ASSUME NEW c \in Calls, c > Len(call) PROVE Unasked(c)'
    <3>1. c # task.active
      BY <1>3, <2>1 DEF Calls
    <3> QED BY <1>1, <1>5, <2>1, <3>1 DEF CallsChained, Unasked
  <2> QED BY <1>1, <2>1 DEF CallsChained
<1>8. RevisionKnown'
  BY <1>1, <1>2 DEF RevisionKnown
<1>9. TreesKnown'
  BY <1>1 DEF TreesKnown, LatestTree
<1>10. CoordinatorKnows'
  <2>1. AllWell(task.active)'
    BY <1>1, <1>2 DEF AllWell
  <2>2. BatchOpen(task.active)'
    BY <1>1, <1>2, <1>5 DEF BatchOpen
  <2> QED BY <1>1, <1>2, <1>4, <2>1, <2>2 DEF CoordinatorKnows, Locked, OperatingPcs, Underway
<1>11. ChecksKnown'
  BY <1>1, <1>4 DEF ChecksKnown, Early, OperatingPcs
<1>12. SlotsHeld' /\ Quiet'
  BY <1>1 DEF SlotsHeld, Quiet, OwnRuns, Active, OpenCommands
<1>13. OperationsOnce'
  BY <1>1, <1>5 DEF OperationsOnce
<1>14. CallsInformed' /\ ExportMatches'
  BY <1>1 DEF CallsInformed, ExportMatches
<1> QED BY <1>6, <1>7, <1>8, <1>9, <1>10, <1>11, <1>12, <1>13, <1>14

\* Below the limit there is room for one more (command_slots).
LEMMA SlotLeft ==
  ASSUME NEW l \in Nat, NEW r \in {0, 1}, NEW n \in {0, 1}, NEW m \in {0, 1}, NEW p \in Nat,
         l + r + n < p
  PROVE  l + r + m <= p
OBVIOUS

\* While an operation is under way only its own outcome, the tree and the command's row
\* change (read_text, write_text, apply_patch, _check_command, exec_check).
LEMMA UnderwaySafe ==
  ASSUME WorkspaceInvariant,
         UNCHANGED <<state, task, call, requests, receipts, export, load, frozen, touched, performed>>,
         tree' \in Trees, command' \in CommandRecord, coord' \in CoordRecord,
         launcher' \in {"none", "forked", "recorded", "running", "passed", "failed"},
         \/ coord.pc \in Underway /\ coord'.pc \in Underway /\ coord'.call = coord.call
         \/ coord' = coord /\ tree' = tree /\ (command = NoCommand <=> command' = NoCommand)
            /\ state \notin Early,
         coord'.pc \in OperatingPcs \ {"checking"} => launcher' = "none",
         command'.owner = "alive" => coord'.pc \in {"admitted", "checking", "result"},
         command'.owner = "dead" => command.owner = "dead" /\ coord' = coord,
         command'.owner = "none" => ~command'.child,
         launcher' \in {"recorded", "running"} => command'.child,
         OpenCommands' = OpenCommands \/ ~Full
  PROVE  WorkspaceInvariant'
<1> USE DEF WorkspaceInvariant
<1>1. WorkspaceShape'
  BY DEF WorkspaceShape
<1>2. state \notin Early
  BY DEF CoordinatorKnows, Locked, Underway, OperatingPcs, Early
<1>3. CallsChained' /\ RevisionKnown' /\ OperationsOnce'
  BY DEF CallsChained, Unasked, RevisionKnown, AllWell, OperationsOnce
<1>4. TreesKnown'
  BY DEF TreesKnown, LatestTree
<1>5. (AllWell(task.active)' <=> AllWell(task.active)) /\ (BatchOpen(task.active)' <=> BatchOpen(task.active))
  BY DEF AllWell, BatchOpen
<1>6. CoordinatorKnows'
  <2>1. CASE coord' = coord /\ tree' = tree
    BY <1>5, <2>1 DEF CoordinatorKnows, Locked
  <2>2. CASE coord.pc \in Underway /\ coord'.pc \in Underway /\ coord'.call = coord.call
    BY <1>2, <1>5, <2>2 DEF CoordinatorKnows, Locked, Underway, OperatingPcs, Early
  <2> QED BY <2>1, <2>2
<1>7. ChecksKnown'
  BY <1>2, <1>5 DEF ChecksKnown
<1>8. SlotsHeld'
  <2>1. /\ OwnRuns' = OwnRuns /\ OwnRuns \in {0, 1} /\ OpenCommands \in {0, 1}
        /\ OpenCommands' \in {0, 1} /\ load \in Nat /\ Parallel \in Nat
    BY ConstantsKnown DEF OwnRuns, Active, OpenCommands, WorkspaceShape
  <2>2. load + OwnRuns + OpenCommands' <= Parallel
    <3>1. CASE OpenCommands' = OpenCommands
      BY <3>1 DEF SlotsHeld
    <3>2. CASE ~Full
      <4>1. load + OwnRuns + OpenCommands < Parallel
        BY <2>1, <3>2 DEF Full
      <4> QED BY <2>1, <4>1, SlotLeft
    <3> QED BY <3>1, <3>2
  <2>3. load' = load
    OBVIOUS
  <2> QED BY <2>1, <2>2, <2>3 DEF SlotsHeld
<1>9. Quiet'
  <2>1. OwnRuns' = OwnRuns
    BY DEF OwnRuns, Active
  <2>2. coord.pc \in Underway => state # "stopped"
    BY DEF CoordinatorKnows, Locked, Underway, OperatingPcs
  <2> QED BY <2>1, <2>2 DEF Quiet
<1>10. CallsInformed' /\ ExportMatches'
  BY DEF CallsInformed, ExportMatches
<1> QED BY <1>1, <1>3, <1>4, <1>6, <1>7, <1>8, <1>9, <1>10

\* A result is a move of the coordinator alone.
LEMMA OutcomeTyped ==
  ASSUME WorkspaceShape, NEW outcome \in Outcomes, NEW version \in Trees \union {Unknown},
         Outcome(outcome, version)
  PROVE  coord' \in CoordRecord /\ coord'.pc = "result" /\ coord'.call = coord.call
BY DEF Outcome, WorkspaceShape, CoordRecord

\* Reading, writing and patching (read_text, write_text, apply_patch).
LEMMA EditSafe == ASSUME WorkspaceInvariant, Edit PROVE WorkspaceInvariant'
<1> USE DEF WorkspaceInvariant
<1>1. /\ coord.pc = "begun" /\ tree' \in Trees
      /\ UNCHANGED <<state, task, call, requests, receipts, command, export, load, frozen, launcher,
                     touched, performed>>
  BY DEF Edit, Read, Write, Patch, Editing, work, WorkspaceShape
<1>2. coord' \in CoordRecord /\ coord'.pc = "result" /\ coord'.call = coord.call
  <2>1. /\ "ok" \in Outcomes /\ "rejected" \in Outcomes /\ tree \in Trees \union {Unknown}
        /\ tree' \in Trees \union {Unknown} /\ Unknown \in Trees \union {Unknown}
    BY <1>1 DEF Outcomes, WorkspaceShape
  <2>2. PICK outcome \in Outcomes, version \in Trees \union {Unknown} : Outcome(outcome, version)
    BY <2>1 DEF Edit, Read, Write, Patch
  <2> QED BY <2>2, OutcomeTyped
<1>3. /\ launcher = "none" /\ command.owner \notin {"alive", "dead"} /\ OpenCommands' = OpenCommands
      /\ command.owner = "none" => ~command.child
  BY <1>1 DEF ChecksKnown, OperatingPcs, OpenCommands
<1>4. command' \in CommandRecord /\ launcher' = "none" /\ command'.owner \notin {"alive", "dead"}
      /\ (command'.owner = "none" => ~command'.child)
  BY <1>1, <1>3 DEF WorkspaceShape
<1>5. coord.pc \in Underway /\ coord'.pc \in Underway
  BY <1>1, <1>2 DEF Underway, OperatingPcs
<1> QED BY <1>1, <1>2, <1>3, <1>4, <1>5, UnderwaySafe

\* Admission, the fork, the launcher's own record and the end of a check (_check_command,
\* execute, exec_check).
LEMMA CheckSafe ==
  ASSUME WorkspaceInvariant, AdmitCheck \/ Fork \/ CheckEnds \/ LauncherSteps
  PROVE  WorkspaceInvariant'
<1> USE DEF WorkspaceInvariant
<1>1. /\ UNCHANGED <<state, task, call, requests, receipts, export, load, tree, frozen, touched,
                     performed>>
      /\ tree' \in Trees
  BY DEF AdmitCheck, Fork, CheckEnds, LauncherSteps, LauncherRecords, LauncherExecutes, LauncherExits,
         work, WorkspaceShape
<1>2. /\ coord \in CoordRecord /\ command \in CommandRecord /\ command.owner \in {"none", "alive", "dead"}
      /\ launcher \in {"none", "forked", "recorded", "running", "passed", "failed"}
      /\ tree \in Trees \union {Unknown} /\ Unknown \in Trees \union {Unknown}
      /\ {"ok", "failed", "cancelled", "timeout", "rejected"} \subseteq Outcomes
  BY DEF WorkspaceShape, CommandRecord, Outcomes
<1>3. CASE AdmitCheck
  <2>1. coord.pc = "begun" /\ launcher' = launcher
    BY <1>3 DEF AdmitCheck, work
  <2>2. launcher = "none" /\ command.owner = "none" /\ ~command.child
    BY <1>2, <2>1 DEF ChecksKnown, OperatingPcs
  <2>3. CASE Outcome("rejected", Unknown) /\ command' = command
    <3>1. coord' \in CoordRecord /\ coord'.pc = "result" /\ coord'.call = coord.call
      BY <1>2, <2>3, OutcomeTyped
    <3>2. OpenCommands' = OpenCommands
      BY <2>3 DEF OpenCommands
    <3> QED BY <1>1, <1>2, <2>1, <2>2, <2>3, <3>1, <3>2, UnderwaySafe DEF Underway, OperatingPcs
  <2>4. CASE /\ ~Full /\ coord' = [coord EXCEPT !.pc = "admitted"]
             /\ command' = [owner |-> "alive", child |-> FALSE]
    <3>1. coord' \in CoordRecord /\ coord'.pc = "admitted" /\ coord'.call = coord.call
      BY <1>2, <2>4 DEF CoordRecord
    <3>2. command' \in CommandRecord /\ command'.owner = "alive"
      BY <2>4 DEF CommandRecord
    <3> QED BY <1>1, <1>2, <2>1, <2>2, <2>4, <3>1, <3>2, UnderwaySafe DEF Underway, OperatingPcs
  <2> QED BY <1>3, <2>3, <2>4 DEF AdmitCheck
<1>4. CASE Fork \/ CheckEnds
  <2>1. /\ coord.pc \in {"admitted", "checking"} /\ command' = command /\ OpenCommands' = OpenCommands
    BY <1>4 DEF Fork, CheckEnds, OpenCommands
  <2>2. /\ command.owner # "dead" /\ (command.owner = "none" => ~command.child)
        /\ coord.pc = "admitted" => launcher = "none"
    BY <2>1 DEF ChecksKnown, OperatingPcs
  <2>3. /\ coord' \in CoordRecord /\ coord'.call = coord.call
        /\ \/ coord'.pc = "checking" /\ launcher' = "forked"
           \/ coord'.pc = "result" /\ launcher' = "none"
    <3>1. CASE Fork
      <4>1. CASE coord' = [coord EXCEPT !.pc = "checking"] /\ launcher' = "forked"
        BY <1>2, <4>1 DEF CoordRecord
      <4>2. CASE Outcome("rejected", Unknown) /\ launcher' = launcher
        <5>1. coord.pc = "admitted"
          BY <3>1 DEF Fork
        <5> QED BY <1>2, <2>2, <4>2, <5>1, OutcomeTyped
      <4> QED BY <3>1, <4>1, <4>2 DEF Fork
    <3>2. CASE CheckEnds
      <4>1. launcher' = "none" /\ (\E outcome \in Outcomes : Outcome(outcome, tree)
                                     \/ Outcome(outcome, Unknown))
        BY <1>2, <3>2 DEF CheckEnds
      <4> QED BY <1>2, <2>2, <4>1, OutcomeTyped
    <3> QED BY <1>4, <3>1, <3>2
  <2>4. coord.pc \in Underway /\ coord'.pc \in Underway
    BY <2>1, <2>3 DEF Underway, OperatingPcs
  <2> QED BY <1>1, <1>2, <2>1, <2>2, <2>3, <2>4, UnderwaySafe
<1>5. CASE LauncherSteps
  <2>1. /\ coord' = coord /\ launcher # "none"
        /\ launcher' \in {"recorded", "running", "passed", "failed"}
    BY <1>5 DEF LauncherSteps, LauncherRecords, LauncherExecutes, LauncherExits
  <2>2. state \notin Early /\ coord.pc \notin OperatingPcs \ {"checking"}
    BY <2>1 DEF ChecksKnown
  <2>3. CASE LauncherRecords
    <3>1. command.owner = "alive" /\ command' = [command EXCEPT !.child = TRUE]
      BY <2>3 DEF LauncherRecords
    <3>2. command' \in CommandRecord /\ command'.owner = "alive" /\ command'.child
      BY <1>2, <3>1 DEF CommandRecord
    <3>3. command # NoCommand /\ command' # NoCommand
      BY <3>1, <3>2 DEF NoCommand
    <3>4. coord.pc \in {"admitted", "checking", "result"} /\ OpenCommands' = OpenCommands
      BY <3>1, <3>3 DEF ChecksKnown, OpenCommands
    <3> QED BY <1>1, <1>2, <2>1, <2>2, <3>2, <3>3, <3>4, UnderwaySafe
  <2>4. CASE command' = command /\ (launcher' \in {"recorded", "running"} => launcher = "recorded")
    <3>1. OpenCommands' = OpenCommands
      BY <2>4 DEF OpenCommands
    <3>2. /\ command.owner = "alive" => coord.pc \in {"admitted", "checking", "result"}
          /\ command.owner = "none" => ~command.child
          /\ launcher = "recorded" => command.child
      BY DEF ChecksKnown
    <3> QED BY <1>1, <1>2, <2>1, <2>2, <2>4, <3>1, <3>2, UnderwaySafe
  <2> QED BY <1>5, <2>3, <2>4 DEF LauncherSteps, LauncherExecutes, LauncherExits
<1> QED BY <1>3, <1>4, <1>5

\* A receipt closes the one operation under way and its command (record_receipt,
\* reconcile).
LEMMA ReceiptSafe ==
  ASSUME WorkspaceInvariant, NEW receipt \in Receipts, task.active # 0, BatchOpen(task.active),
         receipts' = [receipts EXCEPT ![task.active] = Append(@, receipt)], command' = NoCommand,
         UNCHANGED <<state, task, call, requests, export, load, tree, frozen, launcher, touched,
                     performed>>,
         state \notin Early, launcher \notin {"recorded", "running"},
         coord' \in CoordRecord, coord'.pc # "idle" => coord.pc # "idle",
         \/ coord'.pc \in {"idle", "halt"}
         \/ /\ coord.pc = "result" /\ coord'.pc = "operate" /\ coord'.call = coord.call
            /\ receipt.outcome \in {"ok", "failed"}
  PROVE  WorkspaceInvariant'
<1> USE DEF WorkspaceInvariant
<1>1. /\ task.active = Len(call) /\ task.active \in Calls /\ Len(call) \in Nat
      /\ receipts \in [Calls -> Seq(Receipts)] /\ receipts[task.active] \in Seq(Receipts)
      /\ Len(receipts[task.active]) \in Nat
  BY ActiveIsLast, CallsTyped DEF WorkspaceShape
<1>2. PICK told \in Seq(Receipts) :
        /\ receipts' = [receipts EXCEPT ![task.active] = told]
        /\ Len(told) = Len(receipts[task.active]) + 1
        /\ \A i \in 1..Len(receipts[task.active]) : told[i] = receipts[task.active][i]
        /\ told[Len(told)] = receipt
  <2> DEFINE told == Append(receipts[task.active], receipt)
  <2>1. told \in Seq(Receipts) /\ Len(told) = Len(receipts[task.active]) + 1
    BY <1>1
  <2>2. (\A i \in 1..Len(receipts[task.active]) : told[i] = receipts[task.active][i])
        /\ told[Len(told)] = receipt
    BY <1>1
  <2>3. receipts' = [receipts EXCEPT ![task.active] = told]
    OBVIOUS
  <2> HIDE DEF told
  <2> QED BY <2>1, <2>2, <2>3
<1>3. /\ receipts' \in [Calls -> Seq(Receipts)]
      /\ receipts'[task.active] = told
      /\ \A c \in Calls : c # task.active => receipts'[c] = receipts[c]
  BY <1>1, <1>2
<1>4. WorkspaceShape'
  <2>1. command' \in CommandRecord
    BY DEF NoCommand, CommandRecord
  <2> QED BY <1>3, <2>1 DEF WorkspaceShape
<1>5. CallsChained'
  <2>1. ASSUME NEW c \in Calls, c > Len(call) PROVE Unasked(c)'
    <3>1. c # task.active
      BY <1>1, <2>1 DEF Calls
    <3> QED BY <1>3, <2>1, <3>1 DEF CallsChained, Unasked
  <2> QED BY <2>1 DEF CallsChained
<1>6. RevisionKnown'
  BY DEF RevisionKnown
<1>7. TreesKnown'
  <2>1. told # <<>>
    BY <1>1, <1>2
  <2> QED BY <1>1, <1>3, <2>1 DEF TreesKnown
<1>8. CoordinatorKnows'
  <2>1. CASE coord'.pc \in {"idle", "halt"}
    BY <2>1 DEF CoordinatorKnows, Locked, OperatingPcs, Underway, Early
  <2>2. CASE /\ coord.pc = "result" /\ coord'.pc = "operate" /\ coord'.call = coord.call
             /\ receipt.outcome \in {"ok", "failed"}
    <3>1. /\ coord.call = task.active /\ AllWell(task.active)
          /\ call[task.active].report = "operations" /\ requests[task.active] # <<>>
      BY <2>2 DEF CoordinatorKnows, OperatingPcs
    <3>2. performed[task.active] = Len(told)
      BY <1>2 DEF BatchOpen
    <3>3. ASSUME NEW i \in 1..Len(told) PROVE told[i].outcome \in {"ok", "failed"}
      <4>1. i \in 1..Len(receipts[task.active]) \/ i = Len(told)
        BY <1>1, <1>2
      <4> QED BY <1>2, <2>2, <3>1, <4>1 DEF AllWell
    <3>4. AllWell(task.active)'
      BY <1>3, <3>3 DEF AllWell
    <3>5. state \in {"operating", "stopping"}
      BY <2>2 DEF CoordinatorKnows, Locked, Early
    <3> QED BY <1>3, <2>2, <3>1, <3>2, <3>4, <3>5 DEF CoordinatorKnows, Locked, OperatingPcs, Underway
  <2> QED BY <2>1, <2>2
<1>9. ChecksKnown'
  <2>1. coord'.pc = "operate" => launcher = "none"
    BY DEF ChecksKnown, OperatingPcs
  <2> QED BY <2>1 DEF ChecksKnown, NoCommand, OperatingPcs
<1>10. SlotsHeld' /\ Quiet'
  <2>1. OwnRuns' = OwnRuns /\ OpenCommands' = 0 /\ load' = load
    BY DEF OwnRuns, Active, OpenCommands
  <2>2. OwnRuns \in {0, 1} /\ OpenCommands \in {0, 1} /\ load \in Nat /\ Parallel \in Nat
    BY ConstantsKnown DEF OwnRuns, OpenCommands, WorkspaceShape
  <2>3. load + OwnRuns + 0 <= Parallel
    BY <2>2 DEF SlotsHeld
  <2> QED BY <2>1, <2>3 DEF SlotsHeld, Quiet
<1>11. OperationsOnce'
  <2>1. ASSUME NEW c \in Calls
        PROVE  /\ Len(receipts'[c]) <= Len(requests[c])
               /\ performed[c] \in {Len(receipts'[c]), Len(receipts'[c]) + 1}
    <3>1. CASE c = task.active
      BY <1>2, <1>3, <3>1 DEF BatchOpen
    <3>2. CASE c # task.active
      BY <1>3, <3>2 DEF OperationsOnce
    <3> QED BY <3>1, <3>2
  <2> QED BY <2>1 DEF OperationsOnce
<1>12. CallsInformed'
  BY <1>3, EarlierInformed
<1>13. ExportMatches'
  BY DEF ExportMatches
<1> QED BY <1>4, <1>5, <1>6, <1>7, <1>8, <1>9, <1>10, <1>11, <1>12, <1>13

\* The coordinator's own receipt, or that of a reconcile, which does not know the outcome
\* (_perform, reconcile).
LEMMA RecordSafe == ASSUME WorkspaceInvariant, Record \/ Reconcile PROVE WorkspaceInvariant'
<1> USE DEF WorkspaceInvariant
<1>1. coord \in CoordRecord /\ command \in CommandRecord
  BY DEF WorkspaceShape
<1>2. CASE Record
  <2> DEFINE receipt == [outcome |-> coord.outcome, tree |-> coord.tree]
  <2>1. /\ coord.pc = "result" /\ command' = NoCommand
        /\ receipts' = [receipts EXCEPT ![coord.call] = Append(@, receipt)]
        /\ coord' = [coord EXCEPT !.pc = IF coord.outcome \in {"ok", "failed"} THEN "operate"
                                         ELSE "halt"]
        /\ UNCHANGED <<state, task, call, requests, export, load, tree, frozen, launcher, touched,
                       performed>>
    BY <1>2 DEF Record, work
  <2>2. receipt \in Receipts /\ receipt.outcome = coord.outcome
    BY <1>1 DEF CoordRecord, Receipts
  <2> HIDE DEF receipt
  <2>3. coord.call = task.active /\ task.active # 0 /\ BatchOpen(task.active)
    BY <2>1 DEF CoordinatorKnows, OperatingPcs, Underway
  <2>4. state \notin Early /\ launcher = "none"
    BY <2>1 DEF CoordinatorKnows, ChecksKnown, Locked, Early, OperatingPcs
  <2>5. /\ coord' \in CoordRecord /\ coord'.call = coord.call
        /\ coord'.pc = "halt" \/ (coord'.pc = "operate" /\ receipt.outcome \in {"ok", "failed"})
    BY <1>1, <2>1, <2>2 DEF CoordRecord
  <2>6. receipts' = [receipts EXCEPT ![task.active] = Append(@, receipt)]
    BY <2>1, <2>3
  <2> QED BY <2>1, <2>2, <2>3, <2>4, <2>5, <2>6, ReceiptSafe
<1>3. CASE Reconcile
  <2> DEFINE receipt == [outcome |-> "unknown", tree |-> Unknown]
  <2>1. /\ coord.pc = "idle" /\ command.owner = "dead" /\ command' = NoCommand
        /\ ~(command.child /\ launcher \in {"recorded", "running"})
        /\ receipts' = [receipts EXCEPT ![task.active] = Append(@, receipt)]
        /\ UNCHANGED <<state, task, call, requests, export, load, tree, frozen, launcher, touched,
                       performed, coord>>
    BY <1>3 DEF Reconcile, Locked, work
  <2>2. receipt \in Receipts
    BY DEF Receipts, Outcomes
  <2> HIDE DEF receipt
  <2>3. /\ task.active # 0 /\ BatchOpen(task.active) /\ launcher \notin {"recorded", "running"}
        /\ state \notin Early
    BY <2>1 DEF ChecksKnown, NoCommand
  <2> QED BY <1>1, <2>1, <2>2, <2>3, ReceiptSafe
<1> QED BY <1>2, <1>3

\* When all operations have their receipt the task's next revision answers them
\* (revise_in), unless the workspace is not operating any more.
LEMMA ReviseSafe == ASSUME WorkspaceInvariant, Revise PROVE WorkspaceInvariant'
<1> USE DEF WorkspaceInvariant
<1>1. /\ coord.pc = "operate" /\ Len(receipts[coord.call]) = Len(requests[coord.call])
      /\ UNCHANGED <<call, requests, receipts, command, export, load, tree, frozen, launcher, touched,
                     performed>>
  BY DEF Revise, work
<1>2. Idle \in CoordRecord /\ [Idle EXCEPT !.pc = "loop"] \in CoordRecord
      /\ Idle.pc = "idle" /\ [Idle EXCEPT !.pc = "loop"].pc = "loop" /\ state \in States
  BY ConstantsKnown DEF WorkspaceShape, CoordRecord, Idle, Outcomes
<1>3. CASE state # "operating"
  <2>1. coord' = Idle /\ state' = state /\ task' = task
    BY <1>3 DEF Revise
  <2> QED BY <1>1, <1>2, <2>1, ControlSafe
<1>4. CASE state = "operating"
  <2>1. /\ task' = [parent |-> coord.call, repair |-> FALSE, active |-> 0]
        /\ state' = "active" /\ coord' = [Idle EXCEPT !.pc = "loop"]
    BY <1>4 DEF Revise
  <2>2. /\ coord.call = task.active /\ task.active # 0 /\ AllWell(task.active)
        /\ call[task.active].report = "operations" /\ requests[task.active] # <<>>
    BY <1>1 DEF CoordinatorKnows, OperatingPcs
  <2>3. /\ task.active = Len(call) /\ task.active \in Calls /\ call # <<>>
        /\ task.active \in 0..MaxCalls
    BY <2>2, ActiveIsLast, CallsTyped
  <2>4. /\ task' \in TaskRecord /\ task'.parent = Len(call) /\ ~task'.repair /\ task'.active = 0
    BY <2>1, <2>2, <2>3, ConstantsKnown DEF TaskRecord
  <2>5. WorkspaceShape'
    <3>1. state' \in States
      BY <2>1 DEF States
    <3> QED BY <1>1, <1>2, <2>1, <2>4, <3>1 DEF WorkspaceShape
  <2>6. CallsChained'
    BY <1>1, <2>4 DEF CallsChained, Unasked
  <2>7. TreesKnown'
    BY <1>1 DEF TreesKnown, LatestTree
  <2>8. RevisionKnown'
    <3>1. receipts[Len(call)] # <<>> /\ Len(receipts[Len(call)]) = Len(requests[Len(call)])
      <4>1. requests[task.active] \in Seq(Operations) /\ receipts[task.active] \in Seq(Receipts)
        BY <2>3, CallsTyped
      <4> QED BY <1>1, <2>2, <2>3, <4>1
    <3>2. AllWell(Len(call))'
      BY <1>1, <2>2, <2>3 DEF AllWell
    <3> QED BY <1>1, <2>2, <2>3, <2>4, <3>1, <3>2 DEF RevisionKnown
  <2>9. CoordinatorKnows'
    BY <1>2, <2>1 DEF CoordinatorKnows, Locked, OperatingPcs, Underway
  <2>10. ChecksKnown'
    <3>1. launcher = "none" /\ command.owner = "none" /\ ~command.child
      BY <1>1 DEF ChecksKnown, OperatingPcs, WorkspaceShape, CommandRecord
    <3>2. command = NoCommand
      BY <3>1 DEF NoCommand, WorkspaceShape, CommandRecord
    <3> QED BY <1>1, <2>4, <3>1, <3>2 DEF ChecksKnown
  <2>11. SlotsHeld' /\ Quiet'
    <3>1. OwnRuns' = OwnRuns /\ OpenCommands' = OpenCommands /\ load' = load
      BY <1>1 DEF OwnRuns, Active, OpenCommands
    <3> QED BY <2>1, <3>1 DEF SlotsHeld, Quiet
  <2>12. OperationsOnce' /\ CallsInformed' /\ ExportMatches'
    BY <1>1, <1>4, <2>1 DEF OperationsOnce, CallsInformed, ExportMatches
  <2> QED BY <2>5, <2>6, <2>7, <2>8, <2>9, <2>10, <2>11, <2>12
<1> QED BY <1>3, <1>4

\* The final tree is frozen and then recorded, if nobody stopped the workspace (_freeze).
LEMMA ExportSafe == ASSUME WorkspaceInvariant, Freeze \/ RecordExport PROVE WorkspaceInvariant'
<1> USE DEF WorkspaceInvariant
<1>1. UNCHANGED <<task, call, requests, receipts, command, load, tree, launcher, touched, performed>>
  BY DEF Freeze, RecordExport, work
<1>2. /\ coord \in CoordRecord /\ Idle \in CoordRecord /\ Idle.pc = "idle" /\ state \in States
      /\ tree \in Trees /\ frozen \in Trees \union {Unknown}
  BY ConstantsKnown DEF WorkspaceShape, CoordRecord, Idle, Outcomes
<1>3. /\ coord.pc \in {"freeze", "record"} /\ coord.call = task.active /\ task.active # 0
      /\ call[task.active].report = "complete"
  BY DEF Freeze, RecordExport, CoordinatorKnows
<1>4. task.active = Len(call) /\ task.active \in 0..MaxCalls
  BY <1>3, ActiveIsLast, CallsTyped
<1>5. /\ OwnRuns' = OwnRuns /\ OpenCommands' = OpenCommands
      /\ CallsChained' /\ RevisionKnown' /\ OperationsOnce' /\ CallsInformed'
  BY <1>1 DEF OwnRuns, Active, OpenCommands, CallsChained, Unasked, RevisionKnown, AllWell,
     OperationsOnce, CallsInformed
<1>6. TreesKnown'
  BY <1>1 DEF TreesKnown, LatestTree
<1>7. state \notin Early \/ state = "active"
  BY <1>3 DEF CoordinatorKnows, Locked, Early
<1>8. state \in {"operating", "stopping"} /\ command.owner = "none" /\ ~command.child
  BY <1>3 DEF CoordinatorKnows, Locked, ChecksKnown, WorkspaceShape, CommandRecord
<1>9. CASE Freeze
  <2>1. CASE frozen' = tree /\ coord' = [coord EXCEPT !.pc = "record"]
    <3>1. coord' \in CoordRecord /\ coord'.pc = "record" /\ coord'.call = coord.call
          /\ coord.pc = "freeze" /\ state' = state /\ export' = export
      BY <1>2, <1>9, <2>1 DEF CoordRecord, Freeze
    <3>2. WorkspaceShape'
      BY <1>1, <1>2, <2>1, <3>1 DEF WorkspaceShape
    <3>3. CoordinatorKnows'
      BY <1>1, <1>3, <1>8, <2>1, <3>1 DEF CoordinatorKnows, Locked, OperatingPcs, Underway
    <3>4. ChecksKnown'
      BY <1>1, <1>8, <3>1 DEF ChecksKnown, Early, OperatingPcs
    <3>5. SlotsHeld' /\ Quiet' /\ ExportMatches'
      BY <1>1, <1>5, <3>1 DEF SlotsHeld, Quiet, ExportMatches
    <3> QED BY <1>5, <1>6, <3>2, <3>3, <3>4, <3>5
  <2>2. CASE frozen' = frozen /\ coord' = [coord EXCEPT !.pc = "halt"]
    <3>1. coord' \in CoordRecord /\ coord'.pc = "halt" /\ state' = state /\ export' = export
      BY <1>2, <1>9, <2>2 DEF CoordRecord, Freeze
    <3> QED BY <1>1, <1>2, <1>3, <1>8, <2>2, <3>1, ControlSafe
  <2> QED BY <1>9, <2>1, <2>2 DEF Freeze
<1>10. CASE RecordExport
  <2>1. coord.pc = "record" /\ coord' = Idle /\ frozen' = frozen
    BY <1>10 DEF RecordExport, work
  <2>2. CASE state # "operating"
    <3>1. state' = state /\ export' = export
      BY <1>10, <2>2 DEF RecordExport
    <3> QED BY <1>1, <1>2, <1>3, <1>8, <2>1, <3>1, ControlSafe
  <2>3. CASE state = "operating"
    <3>1. export' = [call |-> task.active, tree |-> frozen] /\ state' = "finished"
      BY <1>3, <1>10, <2>3 DEF RecordExport
    <3>2. WorkspaceShape'
      <4>1. export' \in ExportRecord /\ state' \in States
        BY <1>2, <1>4, <3>1 DEF ExportRecord, States
      <4> QED BY <1>1, <1>2, <2>1, <4>1 DEF WorkspaceShape
    <3>3. CoordinatorKnows'
      BY <1>2, <2>1, <3>1 DEF CoordinatorKnows, Locked, OperatingPcs, Underway
    <3>4. ChecksKnown'
      BY <1>1, <1>2, <1>8, <2>1, <3>1 DEF ChecksKnown, Early, OperatingPcs
    <3>5. SlotsHeld' /\ Quiet'
      BY <1>1, <1>5, <3>1 DEF SlotsHeld, Quiet
    <3>6. ExportMatches'
      <4>1. touched \/ frozen = call[task.active].tree
        BY <2>1 DEF CoordinatorKnows
      <4>2. export' # NoExport /\ export'.call = task.active /\ export'.tree = frozen
        BY <1>3, <3>1 DEF NoExport
      <4> QED BY <1>1, <1>3, <1>4, <3>1, <4>1, <4>2 DEF ExportMatches
    <3> QED BY <1>5, <1>6, <3>2, <3>3, <3>4, <3>5, <3>6
  <2> QED BY <2>2, <2>3
<1> QED BY <1>9, <1>10

-----------------------------------------------------------------------------
(* The theorems.                                                             *)

\* Every step of the workspace keeps the invariant (workspace.py).
LEMMA WorkspaceStep == WorkspaceInvariant /\ [Next]_vars => WorkspaceInvariant'
<1> SUFFICES ASSUME WorkspaceInvariant, [Next]_vars PROVE WorkspaceInvariant'
  OBVIOUS
<1>1. CASE Reserve \/ Create \/ Bind \/ Enter \/ Leave \/ Halt \/ Raise \/ Obstacle \/ Interrupted
           \/ Stop \/ FinishStop
  BY <1>1, ControlSteps
<1>2. CASE Submit
  BY <1>2, SubmitSafe
<1>3. CASE Repair
  BY <1>3, RepairSafe
<1>4. CASE Finish \/ \E batch \in Batches : Request(batch)
  BY <1>4, RequestSafe
<1>5. CASE Begin
  BY <1>5, BeginSafe
<1>6. CASE Edit
  BY <1>6, EditSafe
<1>7. CASE AdmitCheck \/ Fork \/ CheckEnds \/ LauncherSteps
  BY <1>7, CheckSafe
<1>8. CASE Record \/ Reconcile
  BY <1>8, RecordSafe
<1>9. CASE Revise
  BY <1>9, ReviseSafe
<1>10. CASE Freeze \/ RecordExport
  BY <1>10, ExportSafe
<1>11. CASE Launch \/ \E c \in Calls : StopRun(c) \/ RunSteps(c) \/ RunQuarantined(c)
  BY <1>11, RunStepsSafe
<1>12. CASE LoadChanges \/ Tamper
  BY <1>12, OthersSafe
<1>13. CASE Crash
  BY <1>13, CrashSafe
<1>14. CASE UNCHANGED vars
  <2>1. /\ UNCHANGED <<task, call, requests, receipts, command, export, load, tree, frozen, launcher,
                       touched, performed>>
        /\ state' = state /\ coord' = coord
    BY <1>14 DEF vars, work
  <2>2. coord \in CoordRecord /\ state \in States
    BY DEF WorkspaceInvariant, WorkspaceShape
  <2>3. /\ coord.pc # "idle" => state \in {"active", "operating", "stopping"}
        /\ state = "active" => coord.pc \in {"idle", "loop", "launch", "halt"}
    BY DEF WorkspaceInvariant, CoordinatorKnows, Locked
  <2> QED BY <2>1, <2>2, <2>3, ControlSafe
<1> QED BY <1>1, <1>2, <1>3, <1>4, <1>5, <1>6, <1>7, <1>8, <1>9, <1>10, <1>11, <1>12, <1>13, <1>14
       DEF Next, Pass, Performing, Finishing

\* The invariant holds in every state of a workspace (workspace.py).
THEOREM WorkspaceInvariantHolds == Spec => []WorkspaceInvariant
BY WorkspaceStarts, WorkspaceStep, PTL DEF Spec

\* Every state is well formed, and the executions of others never take more than the
\* limit leaves them (workspace.py).
THEOREM WorkspaceTypeCorrect == Spec => []TypeOK
<1>1. WorkspaceInvariant => TypeOK
  <2> SUFFICES ASSUME WorkspaceInvariant PROVE TypeOK
    OBVIOUS
  <2>1. OwnRuns \in {0, 1} /\ OpenCommands \in {0, 1} /\ load \in Nat /\ Parallel \in Nat
    BY ConstantsKnown DEF OwnRuns, OpenCommands, WorkspaceInvariant, WorkspaceShape
  <2>2. load \in 0..Parallel
    BY <2>1 DEF WorkspaceInvariant, SlotsHeld
  <2> QED BY <2>2 DEF WorkspaceInvariant, WorkspaceShape, TypeOK, TaskRecord, CallRecord, CommandRecord,
             ExportRecord, CoordRecord
<1> QED BY <1>1, WorkspaceInvariantHolds, PTL

\* A check that executes holds its slot, whatever died or was reconciled: runs, checks
\* and others stay within max_parallel (command_slots, reconcile).
THEOREM LimitAlwaysHolds == Spec => []LimitHolds
<1>1. WorkspaceInvariant => LimitHolds
  <2> SUFFICES ASSUME WorkspaceInvariant PROVE LimitHolds
    OBVIOUS
  <2>1. OwnRuns \in {0, 1} /\ OpenCommands \in {0, 1} /\ load \in Nat /\ Parallel \in Nat
        /\ Executing \in {0, 1}
    BY ConstantsKnown DEF OwnRuns, OpenCommands, Executing, WorkspaceInvariant, WorkspaceShape
  <2>2. Executing = 1 => OpenCommands = 1
    BY DEF WorkspaceInvariant, ChecksKnown, Executing, OpenCommands, NoCommand
  <2>3. load + OwnRuns + OpenCommands <= Parallel
    BY DEF WorkspaceInvariant, SlotsHeld
  <2> QED BY <2>1, <2>2, <2>3 DEF LimitHolds
<1> QED BY <1>1, WorkspaceInvariantHolds, PTL

\* No operation of a report is performed twice, not even after a crash (_perform).
THEOREM OperationsPerformedOnce == Spec => []OperationsOnce
BY WorkspaceInvariantHolds, PTL DEF WorkspaceInvariant

\* Every call is told what became of all operations of the one before it, and sees the
\* tree they left (submit_in, _receipts, revise_in).
THEOREM CallsStayInformed == Spec => []CallsInformed
BY WorkspaceInvariantHolds, PTL DEF WorkspaceInvariant

\* An export is of the tree that the complete report is about, and none is recorded once
\* a stop was requested (_freeze).
THEOREM ExportsAreExact == Spec => ExportExact
<1>1. WorkspaceInvariant => ExportMatches
  BY DEF WorkspaceInvariant
<1>2. [Next]_vars => [(state \in {"stopping", "stopped"}) => export' = export]_vars
  <2> SUFFICES ASSUME Next, state \in {"stopping", "stopped"}, ~UNCHANGED vars
               PROVE  export' = export
    OBVIOUS
  <2>1. RecordExport => export' = export
    BY DEF RecordExport
  <2> QED BY <2>1 DEF Next, Pass, Edit, Performing, Finishing, LauncherSteps, RunSteps,
             Reserve, Create, Bind, Becomes, Enter, Leave, Halt, Submit, Launch, Repair, Request,
             Finish, Raise, Obstacle, Interrupted, Begin, Read, Write, Patch, AdmitCheck, Fork, CheckEnds,
             Record, Revise, Freeze, LauncherRecords, LauncherExecutes, LauncherExits, Stop, StopRun,
             FinishStop, Reconcile, RunStarts, RunEnds, RunQuarantined, RunReconciled, RunBecomes,
             LoadChanges, Crash, Tamper
<1> QED BY <1>1, <1>2, WorkspaceInvariantHolds, PTL DEF Spec, ExportExact

\* In a stopped workspace nothing runs or is in doubt, and nothing of it changes any more
\* (_finish_stop).
THEOREM StoppedStaysQuiet == Spec => StoppedIsQuiet
<1>1. WorkspaceInvariant => (state = "stopped" => OwnRuns = 0 /\ Executing = 0 /\ command = NoCommand)
  BY DEF WorkspaceInvariant, Quiet, ChecksKnown, Executing, NoCommand
<1>2. WorkspaceInvariant /\ [Next]_vars =>
        [state = "stopped" => UNCHANGED <<state, task, call, requests, receipts, export>>
                              /\ (tree' # tree => touched' # touched)]_vars
  <2> SUFFICES ASSUME WorkspaceInvariant, Next, state = "stopped"
               PROVE  /\ UNCHANGED <<state, task, call, requests, receipts, export>>
                      /\ tree' # tree => touched' # touched
    OBVIOUS
  <2>1. coord.pc = "idle" /\ command = NoCommand /\ \A c \in Calls : ~Active(c)
    BY DEF WorkspaceInvariant, CoordinatorKnows, Locked, Quiet, OwnRuns, Active
  <2>2. ~(Pass \/ Obstacle \/ Performing \/ Finishing \/ Leave)
    BY <2>1 DEF Pass, Performing, Finishing, Leave, Edit, Editing, Operating, Submit, Repair, Finish,
       Raise, Obstacle, Request, Answered, Advancing, Interrupted, Begin, Read, Write, Patch, AdmitCheck, Fork,
       CheckEnds, Record, Revise, Freeze, RecordExport, Halt, Launch
  <2>3. ~(Reserve \/ Create \/ Bind \/ Enter \/ Stop \/ FinishStop \/ Reconcile)
    BY <2>1 DEF Reserve, Create, Bind, Becomes, Enter, Stop, FinishStop, Reconcile, NoCommand
  <2>4. \A c \in Calls : ~(StopRun(c) \/ RunSteps(c) \/ RunQuarantined(c))
    BY <2>1 DEF StopRun, RunSteps, RunQuarantined, RunStarts, RunEnds, RunReconciled, Active,
       ActiveStatuses
  <2>5. LauncherSteps \/ LoadChanges \/ Crash \/ Tamper
    BY <2>2, <2>3, <2>4 DEF Next
  <2>6. tree' # tree => touched' # touched
    BY <2>5 DEF LauncherSteps, LauncherRecords, LauncherExecutes, LauncherExits, LoadChanges, Crash,
       Tamper, work
  <2> QED BY <2>5, <2>6 DEF LauncherSteps, LauncherRecords, LauncherExecutes, LauncherExits,
             LoadChanges, Crash, Tamper
<1> QED BY <1>1, <1>2, WorkspaceInvariantHolds, PTL DEF Spec, StoppedIsQuiet
=============================================================================
