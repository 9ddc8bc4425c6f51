------------------------ MODULE RunLifecycleProofs ------------------------
(***************************************************************************)
(* Proofs about RunLifecycle for every set of sessions and namespaces,     *)
(* every bound and every set of faults.                                    *)
(***************************************************************************)
EXTENDS RunLifecycle, FiniteSetTheorems, TLAPS

-----------------------------------------------------------------------------
(* Type correctness.                                                         *)

\* What a step writes into one row is again a row of the table.
LEMMA PutType ==
  ASSUME TypeOK, NEW r \in Runs, NEW new \in RowType
  PROVE  [row EXCEPT ![r] = new] \in [Runs -> RowType]
BY DEF TypeOK

LEMMA FreshRowType ==
  ASSUME NEW s \in Sessions, NEW b \in 0..MaxRuns, NEW resume \in BOOLEAN
  PROVE  FreshRow(s, b, resume) \in RowType
BY BoundAssumption DEF FreshRow, RowType, Statuses, ACTIVE

LEMMA StatusType ==
  ASSUME NEW x \in RowType, NEW status \in Statuses
  PROVE  [x EXCEPT !.status = status] \in RowType
BY DEF RowType

LEMMA FlagTypes ==
  ASSUME NEW x \in RowType, NEW b \in BOOLEAN
  PROVE  /\ [x EXCEPT !.cancel = b] \in RowType
         /\ [x EXCEPT !.started = b] \in RowType
         /\ [x EXCEPT !.child = b] \in RowType
         /\ [x EXCEPT !.refused = b] \in RowType
         /\ [x EXCEPT !.sha = b] \in RowType
         /\ [x EXCEPT !.expired = b] \in RowType
BY DEF RowType

LEMMA ClaimType ==
  ASSUME NEW x \in RowType, NEW n \in Namespaces, NEW b \in 0..MaxBoot
  PROVE  [x EXCEPT !.status = "claimed", !.ns = n, !.boot = b] \in RowType
BY DEF RowType, Statuses, ACTIVE

LEMMA StopType ==
  ASSUME NEW x \in RowType, NEW status \in Statuses
  PROVE  [x EXCEPT !.cancel = TRUE, !.status = status] \in RowType
BY DEF RowType

LEMMA VerifiedType ==
  ASSUME TypeOK, NEW last \in Runs
  PROVE  Verified(last) \in [Runs -> RowType]
BY StatusType DEF Verified, TypeOK, Statuses, TERMINAL

LEMMA NoRowType == NoRow \in RowType
<1>1. FreshRow(NoSession, 0, FALSE) \in RowType
  BY BoundAssumption DEF FreshRow, RowType, Statuses, ACTIVE
<1> QED BY <1>1, StatusType DEF NoRow, Statuses

LEMMA InitType == Init => TypeOK
BY BoundAssumption, NoRowType
   DEF Init, TypeOK, WorkerPoints, Reasons, GroupStates, Outcomes

LEMMA InsertType ==
  ASSUME TypeOK, NEW table \in [Runs -> RowType], NEW s \in Sessions,
         NEW b \in 0..MaxRuns, NEW resume \in BOOLEAN, InsertRun(table, s, b, resume),
         backend' \in [Sessions -> 0..MaxRuns]
  PROVE  TypeOK'
<1>1. nrun + 1 \in Runs /\ nrun' \in 0..MaxRuns
  BY BoundAssumption DEF InsertRun, TypeOK, Runs
<1>2. row' \in [Runs -> RowType]
  BY <1>1, FreshRowType DEF InsertRun
<1> QED
  BY <1>1, <1>2 DEF InsertRun, TypeOK, host, procs, files

LEMMA ClientType ==
  ASSUME TypeOK, Client
  PROVE  TypeOK'
<1> USE BoundAssumption
<1>1. ASSUME NEW s \in Sessions, Start(s) PROVE TypeOK'
  <2>1. nrun + 1 \in 0..MaxRuns /\ row \in [Runs -> RowType]
    BY <1>1 DEF Start, InsertRun, TypeOK
  <2>2. backend' \in [Sessions -> 0..MaxRuns]
    BY <1>1, <2>1 DEF Start, TypeOK
  <2> QED BY <1>1, <2>1, <2>2, InsertType DEF Start
<1>2. ASSUME NEW s \in Sessions, Restart(s) PROVE TypeOK'
  <2>1. PICK last \in Runs :
          /\ backend' = [backend EXCEPT ![s] = nrun + 1]
          /\ InsertRun(Verified(last), s, nrun + 1, FALSE)
    BY <1>2 DEF Restart
  <2>2. nrun + 1 \in 0..MaxRuns
    BY <2>1 DEF InsertRun, TypeOK
  <2>3. backend' \in [Sessions -> 0..MaxRuns]
    BY <2>1, <2>2 DEF TypeOK
  <2> QED BY <2>1, <2>2, <2>3, VerifiedType, InsertType
<1>3. ASSUME NEW s \in Sessions, ResumeUnstarted(s) PROVE TypeOK'
  <2>1. PICK last \in Runs : InsertRun(Verified(last), s, backend[s], FALSE)
                             /\ UNCHANGED backend
    BY <1>3 DEF ResumeUnstarted
  <2> QED BY <2>1, VerifiedType, InsertType DEF TypeOK
<1>4. ASSUME NEW s \in Sessions, NEW ack \in BOOLEAN, Followup(s, ack) PROVE TypeOK'
  <2>1. PICK last \in Runs : InsertRun(Verified(last), s, backend[s], TRUE)
                             /\ UNCHANGED backend
    BY <1>4 DEF Followup
  <2> QED BY <2>1, VerifiedType, InsertType DEF TypeOK
<1>5. ASSUME NEW r \in Runs, Spawn(r) PROVE TypeOK'
  BY <1>5 DEF Spawn, TypeOK, rest, host, files, WorkerPoints
<1>6. ASSUME NEW r \in Runs, SpawnFails(r) PROVE TypeOK'
  <2>1. row' \in [Runs -> RowType]
    BY <1>6, StatusType, PutType DEF SpawnFails, Put, TypeOK, Statuses, TERMINAL
  <2> QED BY <1>6, <2>1 DEF SpawnFails, TypeOK, rest, host, files, WorkerPoints
<1>7. ASSUME NEW r \in Runs, GetRun(r) PROVE TypeOK'
  <2>1. row' \in [Runs -> RowType]
    BY <1>7, StatusType, PutType DEF GetRun, Put, TypeOK, Statuses, TERMINAL
  <2> QED BY <1>7, <2>1 DEF GetRun, TypeOK, rest, host, files, procs
<1>8. ASSUME NEW r \in Runs, Stop(r) PROVE TypeOK'
  <2>1. row[r] \in RowType
    BY DEF TypeOK
  <2>2. (IF Status(r) = "pending" THEN "cancelled" ELSE Status(r)) \in Statuses
    BY <2>1 DEF RowType, Statuses, TERMINAL, Status
  <2> DEFINE new == [row[r] EXCEPT !.cancel = TRUE,
                       !.status = IF Status(r) = "pending" THEN "cancelled" ELSE Status(r)]
  <2>4. new \in RowType
    BY <2>1, <2>2, StopType
  <2>3. row' \in [Runs -> RowType]
    BY <1>8, <2>4, PutType DEF Stop, Put
  <2> QED BY <1>8, <2>3 DEF Stop, TypeOK, rest, host, files, procs
<1>9. ASSUME NEW r \in Runs, ReconcileCommit(r) PROVE TypeOK'
  <2>1. row' \in [Runs -> RowType]
    BY <1>9, StatusType, PutType DEF ReconcileCommit, Put, TypeOK, Statuses, TERMINAL
  <2> QED BY <1>9, <2>1 DEF ReconcileCommit, TypeOK, host, files, procs
<1>10. ASSUME NEW r \in Runs, NEW n \in Namespaces, ReconcileCheck(r, n) PROVE TypeOK'
  BY <1>10 DEF ReconcileCheck, TypeOK, tables, host, files, procs
<1>11. ASSUME NEW n \in Namespaces, Refresh(n) PROVE TypeOK'
  <2>1. ASSUME NEW r \in Runs PROVE Refreshed(r, n) \in RowType
    BY StatusType DEF Refreshed, TypeOK, Statuses, TERMINAL, ACTIVE
  <2> QED BY <1>11, <2>1 DEF Refresh, TypeOK, rest, host, files, procs
<1>12. ASSUME NEW n \in 1..MaxLimit, ConfigureLimits(n) PROVE TypeOK'
  BY <1>12 DEF ConfigureLimits, TypeOK, tables, files, procs
<1>13. ASSUME BeginCommand \/ EndCommand PROVE TypeOK'
  BY <1>13 DEF BeginCommand, EndCommand, TypeOK, tables, files, procs
<1> QED
  BY <1>1, <1>2, <1>3, <1>4, <1>5, <1>6, <1>7, <1>8, <1>9, <1>10, <1>11, <1>12,
     <1>13 DEF Client

LEMMA WorkerType ==
  ASSUME TypeOK, NEW r \in Runs, WorkerStep(r)
  PROVE  TypeOK'
<1> USE BoundAssumption
<1>0. row[r] \in RowType
  BY DEF TypeOK
<1>1. ASSUME NEW n \in Namespaces, Claim(r, n) PROVE TypeOK'
  <2>1. [row[r] EXCEPT !.status = "claimed", !.ns = n, !.boot = boot] \in RowType
    <3>1. boot \in 0..MaxBoot
      BY DEF TypeOK
    <3> QED BY <1>0, <3>1, ClaimType
  <2> QED BY <1>1, <2>1, PutType
     DEF Claim, WorkerMoves, Put, TypeOK, rest, host, files, WorkerPoints
<1>2. ASSUME ClaimRefused(r) PROVE TypeOK'
  BY <1>2 DEF ClaimRefused, WorkerExits, WorkerEnds, TypeOK, rest, host, files,
     WorkerPoints, Reasons
<1>3. ASSUME Launch(r) PROVE TypeOK'
  <2>1. [row[r] EXCEPT !.status = "launching", !.started = TRUE] \in RowType
    <3>1. [row[r] EXCEPT !.status = "launching"] \in RowType
      BY <1>0, StatusType DEF Statuses, ACTIVE
    <3> QED BY <3>1, FlagTypes
  <2> QED BY <1>3, <2>1, PutType
     DEF Launch, WorkerMoves, Put, TypeOK, rest, host, files, WorkerPoints
<1>4. ASSUME LaunchCancelled(r) PROVE TypeOK'
  <2>1. [row[r] EXCEPT !.status = "cancelled"] \in RowType
    BY <1>0, StatusType DEF Statuses, TERMINAL
  <2> QED BY <1>4, <2>1, PutType
     DEF LaunchCancelled, WorkerExits, WorkerEnds, Put, TypeOK, rest, host, files,
         WorkerPoints, Reasons
<1>5. ASSUME WriteInvocation(r) PROVE TypeOK'
  BY <1>5 DEF WriteInvocation, WorkerMoves, TypeOK, tables, host, WorkerPoints
<1>6. ASSUME OpenWrapper(r) PROVE TypeOK'
  BY <1>6 DEF OpenWrapper, WorkerMoves, TypeOK, rest, host, files, WorkerPoints,
     GroupStates
<1>7. ASSUME WatchSeesExit(r) PROVE TypeOK'
  BY <1>7 DEF WatchSeesExit, WorkerMoves, TypeOK, rest, host, files, WorkerPoints
<1>8. ASSUME NEW why \in {"cancel", "limit"}, WatchInterrupts(r, why) PROVE TypeOK'
  <2>1. [row[r] EXCEPT !.status = "stopping"] \in RowType
    BY <1>0, StatusType DEF Statuses, ACTIVE
  <2> QED BY <1>8, <2>1, PutType
     DEF WatchInterrupts, WorkerMoves, Put, TypeOK, rest, host, files, WorkerPoints,
         Reasons
<1>9. ASSUME KillGroup(r) PROVE TypeOK'
  BY <1>9 DEF KillGroup, GroupEnds, WorkerMoves, TypeOK, rest, host, files,
     WorkerPoints, GroupStates, Outcomes
<1>10. ASSUME Settle(r) PROVE TypeOK'
  BY <1>10 DEF Settle, WorkerMoves, TypeOK, tables, host, WorkerPoints, Reasons
<1>11. ASSUME CommitResult(r) PROVE TypeOK'
  <2>1. [row[r] EXCEPT !.status = Verdict(r), !.sha = TRUE] \in RowType
    <3>1. Verdict(r) \in Statuses
      BY DEF Verdict, Statuses, TERMINAL
    <3>2. [row[r] EXCEPT !.status = Verdict(r)] \in RowType
      BY <1>0, <3>1, StatusType
    <3> QED BY <3>2, FlagTypes
  <2>2. blocked' \in [Sessions -> BOOLEAN]
    BY <1>11 DEF CommitResult, TypeOK
  <2> QED BY <1>11, <2>1, <2>2, PutType
     DEF CommitResult, WorkerExits, WorkerEnds, Put, TypeOK, host, files,
         WorkerPoints, Reasons
<1>12. ASSUME HandlerCleans(r) PROVE TypeOK'
  <2>1. [row[r] EXCEPT !.status = "failed"] \in RowType
    BY <1>0, StatusType DEF Statuses, TERMINAL
  <2>2. group' \in [Runs -> GroupStates] /\ outcome' \in [Runs -> Outcomes]
    BY <1>12 DEF HandlerCleans, GroupEnds, TypeOK, GroupStates, Outcomes
  <2> QED BY <1>12, <2>1, <2>2, PutType
     DEF HandlerCleans, WorkerExits, WorkerEnds, Put, TypeOK, rest, host, files,
         WorkerPoints, Reasons
<1>13. ASSUME HandlerQuarantines(r) PROVE TypeOK'
  <2>1. [row[r] EXCEPT !.status = "unknown"] \in RowType
    BY <1>0, StatusType DEF Statuses, ACTIVE
  <2> QED BY <1>13, <2>1, PutType
     DEF HandlerQuarantines, WorkerExits, WorkerEnds, Put, TypeOK, rest, host, files,
         WorkerPoints, Reasons
<1> QED
  BY <1>1, <1>2, <1>3, <1>4, <1>5, <1>6, <1>7, <1>8, <1>9, <1>10, <1>11, <1>12,
     <1>13 DEF WorkerStep

LEMMA ChildType ==
  ASSUME TypeOK, NEW r \in Runs, ChildStep(r)
  PROVE  TypeOK'
<1>0. row[r] \in RowType
  BY DEF TypeOK
<1>1. ASSUME WrapperRecords(r) PROVE TypeOK'
  <2>1. [row[r] EXCEPT !.status = "running", !.child = TRUE] \in RowType
    <3>1. [row[r] EXCEPT !.status = "running"] \in RowType
      BY <1>0, StatusType DEF Statuses, ACTIVE
    <3> QED BY <3>1, FlagTypes
  <2> QED BY <1>1, <2>1, PutType
     DEF WrapperRecords, Put, TypeOK, rest, host, files, GroupStates
<1>2. ASSUME WrapperRefuses(r) PROVE TypeOK'
  <2>1. PICK b \in BOOLEAN : row' = [row EXCEPT ![r] = [row[r] EXCEPT !.refused = b]]
    <3>1. row[r].refused \/ (Status(r) = "launching" /\ ~row[r].child) \in BOOLEAN
      OBVIOUS
    <3> QED BY <1>2 DEF WrapperRefuses, Put
  <2>2. [row[r] EXCEPT !.refused = b] \in RowType
    BY <1>0, FlagTypes
  <2> QED BY <1>2, <2>1, <2>2, PutType
     DEF WrapperRefuses, TypeOK, rest, host, files, GroupStates
<1>3. ASSUME WrapperAborts(r) PROVE TypeOK'
  BY <1>3 DEF WrapperAborts, TypeOK, rest, host, files, GroupStates
<1>4. ASSUME Exec(r) PROVE TypeOK'
  BY <1>4 DEF Exec, TypeOK, rest, host, files, GroupStates
<1>5. ASSUME NEW o \in {"success", "error", "divergent"},
             NEW left \in {"residue", "dead"}, ClaudeExits(r, o, left)
      PROVE TypeOK'
  BY <1>5 DEF ClaudeExits, TypeOK, rest, host, files, GroupStates, Outcomes
<1> QED
  BY <1>1, <1>2, <1>3, <1>4, <1>5 DEF ChildStep

LEMMA EnvironmentType ==
  ASSUME TypeOK, Environment
  PROVE  TypeOK'
<1> USE BoundAssumption
<1>1. ASSUME NEW r \in Runs, DeadlinePasses(r) PROVE TypeOK'
  <2>1. [row[r] EXCEPT !.expired = TRUE] \in RowType
    BY FlagTypes DEF TypeOK
  <2> QED BY <1>1, <2>1, PutType
     DEF DeadlinePasses, Put, TypeOK, rest, host, files, procs
<1>2. ASSUME NEW r \in Runs, WorkerFails(r) PROVE TypeOK'
  BY <1>2 DEF WorkerFails, TypeOK, rest, host, files, WorkerPoints
<1>3. ASSUME NEW r \in Runs, WorkerSignalled(r) PROVE TypeOK'
  BY <1>3 DEF WorkerSignalled, TypeOK, rest, host, files
<1>4. ASSUME NEW r \in Runs, WorkerCrashes(r) PROVE TypeOK'
  BY <1>4 DEF WorkerCrashes, WorkerEnds, TypeOK, rest, host, files, WorkerPoints,
     Reasons
<1>5. ASSUME NEW r \in Runs, GroupDies(r) PROVE TypeOK'
  BY <1>5 DEF GroupDies, GroupEnds, TypeOK, rest, host, files, GroupStates, Outcomes
<1>6. ASSUME NEW r \in Runs, ResultDamaged(r) PROVE TypeOK'
  BY <1>6 DEF ResultDamaged, TypeOK, tables, host, procs
<1>7. ASSUME NEW r \in Runs, ReconcilerDies(r) PROVE TypeOK'
  BY <1>7 DEF ReconcilerDies, TypeOK, tables, host, procs, files
<1>8. ASSUME UpgradeBinary PROVE TypeOK'
  BY <1>8 DEF UpgradeBinary, TypeOK, tables, procs, files
<1>9. ASSUME Reboot PROVE TypeOK'
  BY <1>9 DEF Reboot, TypeOK, tables, files, WorkerPoints, GroupStates, Reasons
<1> QED
  BY <1>1, <1>2, <1>3, <1>4, <1>5, <1>6, <1>7, <1>8, <1>9 DEF Environment

LEMMA NextType == TypeOK /\ [Next]_vars => TypeOK'
<1> SUFFICES ASSUME TypeOK, [Next]_vars PROVE TypeOK'
  OBVIOUS
<1>1. CASE UNCHANGED vars
  BY <1>1 DEF vars, TypeOK
<1>2. CASE Next
  BY <1>2, ClientType, WorkerType, ChildType, EnvironmentType DEF Next
<1> QED BY <1>1, <1>2

\* Every variable keeps its type: no row, process or file ever takes a value
\* the tables and the processes of the code cannot have.
THEOREM TypeCorrect == Spec => []TypeOK
<1>1. Init => TypeOK
  BY InitType
<1>2. TypeOK /\ [Next]_vars => TypeOK'
  BY NextType
<1> QED BY <1>1, <1>2, PTL DEF Spec

-----------------------------------------------------------------------------
(* The inductive invariant.                                                  *)

\* What one step may do to the tables when it inserts no row.
TurnsKept ==
  /\ nrun' = nrun /\ backend' = backend
  /\ \A q \in Runs :
       /\ row'[q].session = row[q].session
       /\ row'[q].backend = row[q].backend
       /\ row'[q].resume = row[q].resume
       /\ Status(q) \in TERMINAL => Status(q)' \in TERMINAL
       /\ row'[q].child /\ ~row[q].child => Status(q) \notin TERMINAL

\* The half of the invariant about processes, and the half about turns.
ProcessInvariant ==
  RowsInOrder /\ WorkersMatchRows /\ ExecutionsRecorded /\ ReconcilersRight
TurnInvariant == EarlierTurnsEnded /\ BackendsOwned /\ CreationsFirst

LEMMA KeptTurns ==
  ASSUME TypeOK, LifecycleInvariant, TurnsKept
  PROVE  TurnInvariant'
<1>1. EarlierTurnsEnded'
  BY DEF LifecycleInvariant, EarlierTurnsEnded, TurnsKept
<1>2. BackendsOwned'
  <2>1. \A s \in Sessions : Turns(s)' = Turns(s)
    BY DEF Turns, TurnsKept
  <2> QED
    BY <2>1 DEF LifecycleInvariant, BackendsOwned, TurnsKept, Runs
<1>3. CreationsFirst'
  <2> SUFFICES ASSUME NEW r \in Runs, NEW q \in Runs, r < q, q <= nrun,
                      row[r].backend = row[q].backend, ~row[q].resume
               PROVE  ~row'[r].child
    BY DEF CreationsFirst, TurnsKept
  <2>1. r <= nrun
    BY DEF Runs, TypeOK
  <2>2. row[r].session = row[q].session
    BY <2>1 DEF LifecycleInvariant, BackendsOwned
  <2>3. Status(r) \in TERMINAL
    BY <2>2 DEF LifecycleInvariant, EarlierTurnsEnded
  <2>4. ~row[r].child
    BY DEF LifecycleInvariant, CreationsFirst
  <2> QED BY <2>3, <2>4 DEF TurnsKept
<1> QED BY <1>1, <1>2, <1>3 DEF TurnInvariant

LEMMA InitInvariant == Init => LifecycleInvariant
<1> SUFFICES ASSUME Init PROVE LifecycleInvariant
  OBVIOUS
<1>1. \A r \in Runs : Status(r) = "absent" /\ row[r].session = NoSession /\ ~(r <= nrun)
  BY BoundAssumption DEF Init, NoRow, FreshRow, Status, Runs
<1>2. RowsInOrder
  BY <1>1 DEF Init, RowsInOrder
<1>3. WorkersMatchRows /\ ExecutionsRecorded /\ ReconcilersRight
  BY <1>1 DEF Init, WorkersMatchRows, RowOfWorker, ExecutionsRecorded, ReconcilersRight,
     Executing
<1>4. EarlierTurnsEnded /\ CreationsFirst
  BY <1>1 DEF Init, EarlierTurnsEnded, CreationsFirst
<1>5. BackendsOwned
  BY <1>1, SessionAssumption DEF Init, BackendsOwned, Turns
<1> QED BY <1>2, <1>3, <1>4, <1>5 DEF LifecycleInvariant

LEMMA WorkerInvariant ==
  ASSUME TypeOK, LifecycleInvariant, NEW r \in Runs, WorkerStep(r)
  PROVE  ProcessInvariant' /\ TurnsKept
<1> USE DEF LifecycleInvariant, ProcessInvariant, RowsInOrder, WorkersMatchRows,
        RowOfWorker, ExecutionsRecorded, ReconcilersRight, Executing, Status,
        TurnsKept, TERMINAL, rest, host, files, Put, WorkerMoves, WorkerExits, WorkerEnds
<1>0. row \in [Runs -> RowType] /\ worker \in [Runs -> WorkerPoints]
      /\ group \in [Runs -> GroupStates]
  BY DEF TypeOK
<1>1. ASSUME NEW n \in Namespaces, Claim(r, n) PROVE ProcessInvariant' /\ TurnsKept
  BY <1>0, <1>1 DEF Claim, RowType
<1>2. ASSUME ClaimRefused(r) PROVE ProcessInvariant' /\ TurnsKept
  BY <1>0, <1>2 DEF ClaimRefused
<1>3. ASSUME Launch(r) PROVE ProcessInvariant' /\ TurnsKept
  BY <1>0, <1>3 DEF Launch, RowType
<1>4. ASSUME LaunchCancelled(r) PROVE ProcessInvariant' /\ TurnsKept
  BY <1>0, <1>4 DEF LaunchCancelled, RowType
<1>5. ASSUME WriteInvocation(r) PROVE ProcessInvariant' /\ TurnsKept
  BY <1>0, <1>5 DEF WriteInvocation, tables, RowType
<1>6. ASSUME OpenWrapper(r) PROVE ProcessInvariant' /\ TurnsKept
  BY <1>0, <1>6 DEF OpenWrapper, RowType
<1>7. ASSUME WatchSeesExit(r) PROVE ProcessInvariant' /\ TurnsKept
  BY <1>0, <1>7 DEF WatchSeesExit, RowType
<1>8. ASSUME NEW why \in {"cancel", "limit"}, WatchInterrupts(r, why)
      PROVE  ProcessInvariant' /\ TurnsKept
  BY <1>0, <1>8 DEF WatchInterrupts, RowType
<1>9. ASSUME KillGroup(r) PROVE ProcessInvariant' /\ TurnsKept
  BY <1>0, <1>9 DEF KillGroup, GroupEnds, RowType
<1>10. ASSUME Settle(r) PROVE ProcessInvariant' /\ TurnsKept
  BY <1>0, <1>10 DEF Settle, tables, RowType
<1>11. ASSUME CommitResult(r) PROVE ProcessInvariant' /\ TurnsKept
  BY <1>0, <1>11 DEF CommitResult, Verdict, RowType
<1>12. ASSUME HandlerCleans(r) PROVE ProcessInvariant' /\ TurnsKept
  <2>1. /\ ~Executing(r)' /\ group'[r] \in {group[r], "dead"}
        /\ \A q \in Runs : q # r => group'[q] = group[q]
    BY <1>0, <1>12 DEF HandlerCleans, GroupEnds, GroupAlive
  <2>2. /\ row'[r].status = "failed" /\ row'[r].session = row[r].session
        /\ row'[r].backend = row[r].backend /\ row'[r].resume = row[r].resume
        /\ row'[r].child = row[r].child
        /\ \A q \in Runs : q # r => row'[q] = row[q] /\ worker'[q] = worker[q]
        /\ worker'[r] = "gone" /\ nrun' = nrun /\ boot' = boot
        /\ backend' = backend /\ reconciling' = reconciling
    BY <1>0, <1>12 DEF HandlerCleans, RowType
  <2>3. r <= nrun
    BY <1>0, <1>12 DEF HandlerCleans
  <2>4. RowsInOrder' /\ ReconcilersRight'
    BY <1>12, <2>1, <2>2, <2>3 DEF HandlerCleans, Runs, TypeOK
  <2>5. WorkersMatchRows' /\ ExecutionsRecorded'
    BY <1>12, <2>1, <2>2 DEF HandlerCleans
  <2>6. TurnsKept
    BY <1>12, <2>2 DEF HandlerCleans
  <2> QED BY <2>4, <2>5, <2>6
<1>13. ASSUME HandlerQuarantines(r) PROVE ProcessInvariant' /\ TurnsKept
  BY <1>0, <1>13 DEF HandlerQuarantines, RowType
<1> QED
  BY <1>1, <1>2, <1>3, <1>4, <1>5, <1>6, <1>7, <1>8, <1>9, <1>10, <1>11, <1>12,
     <1>13 DEF WorkerStep

LEMMA ChildInvariant ==
  ASSUME TypeOK, LifecycleInvariant, NEW r \in Runs, ChildStep(r)
  PROVE  ProcessInvariant' /\ TurnsKept
<1> USE DEF LifecycleInvariant, ProcessInvariant, RowsInOrder, WorkersMatchRows,
        RowOfWorker, ExecutionsRecorded, ReconcilersRight, Executing, Status,
        TurnsKept, TERMINAL, rest, host, files, Put
<1>0. row \in [Runs -> RowType] /\ worker \in [Runs -> WorkerPoints]
      /\ group \in [Runs -> GroupStates]
  BY DEF TypeOK
<1>1. ASSUME WrapperRecords(r) PROVE ProcessInvariant' /\ TurnsKept
  BY <1>0, <1>1 DEF WrapperRecords, MayExecute, WorkerAlive, RowType, WorkerPoints
<1>2. ASSUME WrapperRefuses(r) PROVE ProcessInvariant' /\ TurnsKept
  BY <1>0, <1>2 DEF WrapperRefuses, RowType
<1>3. ASSUME WrapperAborts(r) PROVE ProcessInvariant' /\ TurnsKept
  BY <1>0, <1>3 DEF WrapperAborts
<1>4. ASSUME Exec(r) PROVE ProcessInvariant' /\ TurnsKept
  BY <1>0, <1>4 DEF Exec
<1>5. ASSUME NEW o \in {"success", "error", "divergent"},
             NEW left \in {"residue", "dead"}, ClaudeExits(r, o, left)
      PROVE  ProcessInvariant' /\ TurnsKept
  BY <1>0, <1>5 DEF ClaudeExits
<1> QED
  BY <1>1, <1>2, <1>3, <1>4, <1>5 DEF ChildStep

LEMMA EnvironmentInvariant ==
  ASSUME TypeOK, LifecycleInvariant, Environment
  PROVE  ProcessInvariant' /\ TurnsKept
<1> USE DEF LifecycleInvariant, ProcessInvariant, RowsInOrder, WorkersMatchRows,
        RowOfWorker, ExecutionsRecorded, ReconcilersRight, Executing, Status,
        TurnsKept, TERMINAL, rest, host, files, procs, Put
<1>0. row \in [Runs -> RowType] /\ worker \in [Runs -> WorkerPoints]
      /\ group \in [Runs -> GroupStates]
  BY DEF TypeOK
<1>1. ASSUME NEW r \in Runs, DeadlinePasses(r) PROVE ProcessInvariant' /\ TurnsKept
  <2>1. /\ row'[r].status = row[r].status /\ row'[r].session = row[r].session
        /\ row'[r].backend = row[r].backend /\ row'[r].resume = row[r].resume
        /\ row'[r].child = row[r].child /\ row'[r].boot = row[r].boot
        /\ \A q \in Runs : q # r => row'[q] = row[q]
    BY <1>0, <1>1 DEF DeadlinePasses, RowType
  <2>2. r <= nrun
    BY <1>1 DEF DeadlinePasses
  <2>3. RowsInOrder' /\ ReconcilersRight'
    BY <1>1, <2>1, <2>2 DEF DeadlinePasses, Runs, TypeOK
  <2>4. WorkersMatchRows' /\ ExecutionsRecorded'
    BY <1>1, <2>1 DEF DeadlinePasses
  <2>5. TurnsKept
    BY <1>1, <2>1 DEF DeadlinePasses
  <2> QED BY <2>3, <2>4, <2>5
<1>2. ASSUME NEW r \in Runs, WorkerFails(r) PROVE ProcessInvariant' /\ TurnsKept
  BY <1>0, <1>2 DEF WorkerFails
<1>3. ASSUME NEW r \in Runs, WorkerSignalled(r) PROVE ProcessInvariant' /\ TurnsKept
  BY <1>0, <1>3 DEF WorkerSignalled
<1>4. ASSUME NEW r \in Runs, WorkerCrashes(r) PROVE ProcessInvariant' /\ TurnsKept
  BY <1>0, <1>4 DEF WorkerCrashes, WorkerEnds, WorkerAlive
<1>5. ASSUME NEW r \in Runs, GroupDies(r) PROVE ProcessInvariant' /\ TurnsKept
  BY <1>0, <1>5 DEF GroupDies, GroupEnds, GroupAlive
<1>6. ASSUME NEW r \in Runs, ResultDamaged(r) PROVE ProcessInvariant' /\ TurnsKept
  BY <1>0, <1>6 DEF ResultDamaged, tables
<1>7. ASSUME NEW r \in Runs, ReconcilerDies(r) PROVE ProcessInvariant' /\ TurnsKept
  BY <1>0, <1>7 DEF ReconcilerDies, tables
<1>8. ASSUME UpgradeBinary PROVE ProcessInvariant' /\ TurnsKept
  BY <1>0, <1>8 DEF UpgradeBinary, tables
<1>9. ASSUME Reboot PROVE ProcessInvariant' /\ TurnsKept
  <2>1. ASSUME NEW r \in Runs
        PROVE  /\ ~Executing(r)'
               /\ r <= nrun => worker'[r] = "gone"
               /\ r > nrun => worker'[r] = "none" /\ group'[r] = "none"
    BY <1>0, <1>9 DEF Reboot, GroupAlive, Runs, TypeOK
  <2>2. \A r \in Runs : r <= nrun \/ r > nrun
    BY DEF Runs, TypeOK
  <2> QED BY <1>9, <2>1, <2>2 DEF Reboot, tables
<1> QED
  BY <1>1, <1>2, <1>3, <1>4, <1>5, <1>6, <1>7, <1>8, <1>9 DEF Environment

LEMMA ClientCallInvariant ==
  ASSUME TypeOK, LifecycleInvariant,
         \/ \E r \in Runs : \/ Spawn(r) \/ SpawnFails(r) \/ GetRun(r) \/ Stop(r)
                            \/ ReconcileCommit(r)
                            \/ \E n \in Namespaces : ReconcileCheck(r, n)
         \/ \E n \in Namespaces : Refresh(n)
         \/ \E n \in 1..MaxLimit : ConfigureLimits(n)
         \/ BeginCommand \/ EndCommand
  PROVE  ProcessInvariant' /\ TurnsKept
<1> USE DEF LifecycleInvariant, ProcessInvariant, RowsInOrder, WorkersMatchRows,
        RowOfWorker, ExecutionsRecorded, ReconcilersRight, Executing, Status,
        TurnsKept, TERMINAL, rest, host, files, procs, Put
<1>0. row \in [Runs -> RowType] /\ worker \in [Runs -> WorkerPoints]
      /\ group \in [Runs -> GroupStates]
  BY DEF TypeOK
<1>1. ASSUME NEW r \in Runs, Spawn(r) PROVE ProcessInvariant' /\ TurnsKept
  BY <1>0, <1>1 DEF Spawn, Runs, TypeOK
<1>2. ASSUME NEW r \in Runs, SpawnFails(r) PROVE ProcessInvariant' /\ TurnsKept
  <2>1. /\ \/ row[r].status = "pending" /\ row'[r].status = "launch_failed"
           \/ row'[r].status = row[r].status
        /\ row'[r].session = row[r].session
        /\ row'[r].backend = row[r].backend /\ row'[r].resume = row[r].resume
        /\ row'[r].child = row[r].child /\ row'[r].boot = row[r].boot
        /\ \A q \in Runs : q # r => row'[q] = row[q]
    BY <1>0, <1>2 DEF SpawnFails, RowType
  <2>2. /\ UNCHANGED <<nrun, backend, group, boot, reconciling>>
        /\ r <= nrun /\ worker[r] = "none" /\ worker'[r] = "gone"
        /\ \A q \in Runs : q # r => worker'[q] = worker[q]
    BY <1>0, <1>2 DEF SpawnFails
  <2>3. RowsInOrder'
    BY <2>1, <2>2 DEF Runs, TypeOK
  <2>4. ReconcilersRight'
    BY <2>1, <2>2 DEF TypeOK
  <2>5. WorkersMatchRows' /\ ExecutionsRecorded'
    BY <2>1, <2>2
  <2>6. TurnsKept
    BY <2>1, <2>2
  <2> QED BY <2>3, <2>4, <2>5, <2>6
<1>3. ASSUME NEW r \in Runs, GetRun(r) PROVE ProcessInvariant' /\ TurnsKept
  BY <1>0, <1>3 DEF GetRun, RowType
<1>4. ASSUME NEW r \in Runs, Stop(r) PROVE ProcessInvariant' /\ TurnsKept
  <2>1. /\ row'[r].status \in {row[r].status, "cancelled"}
        /\ row'[r].status = "cancelled" => row[r].status \in {"pending", "cancelled"}
        /\ row'[r].session = row[r].session
        /\ row'[r].backend = row[r].backend /\ row'[r].resume = row[r].resume
        /\ row'[r].child = row[r].child /\ row'[r].boot = row[r].boot
        /\ \A q \in Runs : q # r => row'[q] = row[q]
    <3>1. PICK to : /\ row' = [row EXCEPT ![r] = [row[r] EXCEPT !.cancel = TRUE, !.status = to]]
                    /\ to = IF Status(r) = "pending" THEN "cancelled" ELSE Status(r)
      BY <1>4 DEF Stop
    <3>2. /\ row'[r].status = to /\ row'[r].session = row[r].session
          /\ row'[r].backend = row[r].backend /\ row'[r].resume = row[r].resume
          /\ row'[r].child = row[r].child /\ row'[r].boot = row[r].boot
          /\ \A q \in Runs : q # r => row'[q] = row[q]
      BY <1>0, <3>1 DEF RowType
    <3> QED BY <3>1, <3>2
  <2>2. r <= nrun /\ row[r].status # "absent"
    BY <1>4 DEF Stop, ACTIVE
  <2>3. UNCHANGED <<nrun, backend, worker, group, boot, reconciling>>
    BY <1>4 DEF Stop
  <2>4. RowsInOrder'
    BY <2>1, <2>2, <2>3 DEF Runs, TypeOK
  <2>5. ReconcilersRight'
    BY <2>1, <2>3 DEF TypeOK
  <2>6. WorkersMatchRows' /\ ExecutionsRecorded'
    BY <2>1, <2>3
  <2>7. TurnsKept
    BY <2>1, <2>3
  <2> QED BY <2>4, <2>5, <2>6, <2>7
<1>5. ASSUME NEW r \in Runs, ReconcileCommit(r) PROVE ProcessInvariant' /\ TurnsKept
  BY <1>0, <1>5 DEF ReconcileCommit, RowType
<1>6. ASSUME NEW r \in Runs, NEW n \in Namespaces, ReconcileCheck(r, n)
      PROVE  ProcessInvariant' /\ TurnsKept
  <2>1. worker[r] = "gone" /\ ~Executing(r)
    BY <1>0, <1>6 DEF ReconcileCheck, WorkerAlive, ExecutionSeen, GroupAlive, WorkerPoints
  <2> QED BY <1>6, <2>1 DEF ReconcileCheck, tables
<1>7. ASSUME NEW n \in Namespaces, Refresh(n) PROVE ProcessInvariant' /\ TurnsKept
  <2>1. ASSUME NEW q \in Runs
        PROVE  /\ row'[q].session = row[q].session /\ row'[q].backend = row[q].backend
               /\ row'[q].resume = row[q].resume /\ row'[q].child = row[q].child
               /\ row'[q].boot = row[q].boot
               /\ \/ row'[q] = row[q]
                  \/ row[q].status = "pending" /\ row'[q].status = "launch_failed"
                  \/ /\ worker[q] \in {"none", "gone"}
                     /\ \/ row[q].status = "claimed" /\ row'[q].status = "launch_failed"
                        \/ /\ row[q].status \in {"launching", "running", "stopping"}
                           /\ row'[q].status = "unknown"
    BY <1>0, <1>7 DEF Refresh, Refreshed, LaunchExpired, Orphaned, WorkerSeen, WorkerAlive, ACTIVE, RowType
  <2>2. RowsInOrder'
    <3>1. \A q \in Runs : /\ row'[q].status = "absent" <=> row[q].status = "absent"
                          /\ row[q].status = "absent" => row'[q] = row[q]
      BY <2>1
    <3>2. nrun' = nrun /\ worker' = worker /\ group' = group /\ \A q \in Runs : q > nrun <=> ~(q <= nrun)
      BY <1>7 DEF Refresh, Runs, TypeOK
    <3> QED BY <2>1, <3>1, <3>2
  <2>5. ReconcilersRight'
    BY <1>7, <2>1 DEF Refresh, TypeOK
  <2>3. WorkersMatchRows' /\ ExecutionsRecorded'
    BY <1>7, <2>1 DEF Refresh
  <2>4. TurnsKept
    BY <1>7, <2>1 DEF Refresh
  <2> QED BY <2>2, <2>3, <2>4, <2>5
<1>8. ASSUME NEW n \in 1..MaxLimit, ConfigureLimits(n) PROVE ProcessInvariant' /\ TurnsKept
  BY <1>0, <1>8 DEF ConfigureLimits, tables
<1>9. ASSUME BeginCommand \/ EndCommand PROVE ProcessInvariant' /\ TurnsKept
  BY <1>0, <1>9 DEF BeginCommand, EndCommand, tables
<1> QED
  BY <1>1, <1>2, <1>3, <1>4, <1>5, <1>6, <1>7, <1>8, <1>9

-----------------------------------------------------------------------------
(* The four ways to reserve a run.                                           *)

\* The table a reservation inserts into: the current one, but for a damaged
\* completed run that it found and failed.
SettledTable(table) ==
  /\ table \in [Runs -> RowType]
  /\ \A q \in Runs :
       /\ \/ table[q] = row[q]
          \/ Status(q) = "completed" /\ table[q].status = "failed"
       /\ table[q].session = row[q].session /\ table[q].backend = row[q].backend
       /\ table[q].resume = row[q].resume /\ table[q].child = row[q].child
       /\ table[q].boot = row[q].boot

LEMMA VerifiedSettled ==
  ASSUME TypeOK, NEW last \in Runs
  PROVE  SettledTable(Verified(last))
<1>1. Verified(last) \in [Runs -> RowType]
  BY VerifiedType
<1>2. row \in [Runs -> RowType]
  BY DEF TypeOK
<1> QED BY <1>1, <1>2 DEF SettledTable, Verified, Status, RowType

LEMMA TurnsEnded ==
  ASSUME TypeOK, LifecycleInvariant, NEW s \in Sessions, NEW last \in Runs,
         NEW ack \in BOOLEAN, ContextSettled(s, last, ack)
  PROVE  /\ \A q \in Turns(s) : Status(q) \in TERMINAL
         /\ backend[s] # 0
<1>1. last \in Turns(s) /\ \A q \in Turns(s) : q <= last
  BY DEF ContextSettled, IsLatest
<1>2. last <= nrun
  <2>1. NoRow.session = NoSession
    BY DEF NoRow, FreshRow
  <2>2. row[last].session # NoSession
    BY <1>1, SessionAssumption DEF Turns
  <2>3. ~(last > nrun)
    BY <2>1, <2>2 DEF LifecycleInvariant, RowsInOrder
  <2> QED BY <2>3 DEF Runs, TypeOK
<1>3. Status(last) \in TERMINAL
  <2>1. Status(last) \in Statuses
    BY DEF TypeOK, RowType, Status
  <2>2. Status(last) # "absent"
    BY <1>2 DEF LifecycleInvariant, RowsInOrder
  <2> QED BY <2>1, <2>2 DEF ContextSettled, Statuses
<1>4. ASSUME NEW q \in Turns(s), q # last PROVE Status(q) \in TERMINAL
  <2>1. q \in Runs /\ q < last /\ row[q].session = row[last].session
    BY <1>1, <1>4 DEF Turns, Runs
  <2> QED BY <1>2, <2>1 DEF LifecycleInvariant, EarlierTurnsEnded
<1> QED BY <1>1, <1>3, <1>4 DEF LifecycleInvariant, BackendsOwned

LEMMA InsertInvariant ==
  ASSUME TypeOK, LifecycleInvariant, NEW s \in Sessions, NEW b \in 0..MaxRuns,
         NEW resume \in BOOLEAN, NEW table, SettledTable(table),
         \A q \in Turns(s) : Status(q) \in TERMINAL,
         InsertRun(table, s, b, resume),
         \/ b = nrun + 1 /\ backend' = [backend EXCEPT ![s] = nrun + 1]
         \/ /\ b = backend[s] /\ b # 0 /\ backend' = backend
            /\ resume \/ \A q \in Turns(s) : row[q].backend = b => ~row[q].child
  PROVE  LifecycleInvariant'
<1> DEFINE new == nrun + 1
<1>0. /\ nrun \in Nat /\ new \in Runs /\ nrun' = new /\ Runs \subseteq Nat
      /\ row \in [Runs -> RowType] /\ backend \in [Sessions -> 0..MaxRuns]
  BY BoundAssumption DEF InsertRun, TypeOK, Runs
<1>1. /\ row' \in [Runs -> RowType]
      /\ row'[new] = FreshRow(s, b, resume)
      /\ \A q \in Runs : q # new => row'[q] = table[q]
  BY <1>0, FreshRowType DEF InsertRun, SettledTable
<1>2. /\ row'[new].status = "pending" /\ row'[new].session = s
      /\ row'[new].backend = b /\ row'[new].resume = resume /\ ~row'[new].child
  BY <1>1 DEF FreshRow
<1>3. /\ Status(new) = "absent" /\ worker[new] = "none" /\ group[new] = "none"
      /\ row[new] = NoRow
  BY <1>0 DEF LifecycleInvariant, RowsInOrder
<1>4. ASSUME NEW q \in Runs, q # new
      PROVE  /\ row'[q].session = row[q].session /\ row'[q].backend = row[q].backend
             /\ row'[q].resume = row[q].resume /\ row'[q].child = row[q].child
             /\ row'[q].boot = row[q].boot
             /\ row'[q] = row[q] \/ (Status(q) = "completed" /\ Status(q)' = "failed")
             /\ q <= nrun' <=> q <= nrun
  BY <1>0, <1>1, <1>4 DEF SettledTable, Status
<1>5. UNCHANGED <<worker, group, boot, reconciling>>
  BY DEF InsertRun, procs, host
<1>6. RowsInOrder'
  <2> SUFFICES ASSUME NEW q \in Runs
               PROVE  /\ q <= nrun' <=> Status(q)' # "absent"
                      /\ q <= nrun' => row'[q].session \in Sessions
                      /\ q > nrun' => row'[q] = NoRow /\ worker'[q] = "none" /\ group'[q] = "none"
    BY DEF RowsInOrder
  <2>1. CASE q = new
    BY <1>0, <1>2, <2>1 DEF Status
  <2>2. CASE q # new
    <3>1. q > nrun' => q > nrun
      BY <1>0
    <3>2. /\ q <= nrun <=> Status(q) # "absent"
          /\ q <= nrun => row[q].session \in Sessions
          /\ q > nrun => row[q] = NoRow /\ worker[q] = "none" /\ group[q] = "none"
      BY DEF LifecycleInvariant, RowsInOrder
    <3>3. Status(q)' # "absent" <=> Status(q) # "absent"
      BY <1>4, <2>2 DEF Status
    <3>4. q > nrun => row'[q] = NoRow
      BY <1>0, <1>4, <2>2, <3>2, <3>3 DEF Status
    <3> QED BY <1>4, <1>5, <2>2, <3>1, <3>2, <3>3, <3>4
  <2> QED BY <2>1, <2>2
<1>7. WorkersMatchRows'
  BY <1>2, <1>3, <1>4, <1>5
     DEF LifecycleInvariant, WorkersMatchRows, RowOfWorker, Status
<1>8. ExecutionsRecorded' /\ ReconcilersRight'
  BY <1>2, <1>3, <1>4, <1>5, <1>0
     DEF LifecycleInvariant, ExecutionsRecorded, ReconcilersRight, Executing, Status, TypeOK
<1>9. EarlierTurnsEnded'
  <2> SUFFICES ASSUME NEW r \in Runs, NEW q \in Runs, r < q, q <= nrun',
                      row'[r].session = row'[q].session
               PROVE  Status(r)' \in TERMINAL
    BY DEF EarlierTurnsEnded
  <2>1. r # new /\ (q = new \/ q <= nrun)
    BY <1>0
  <2>2. Status(r) \in TERMINAL
    <3>1. CASE q = new
      BY <1>2, <1>4, <2>1, <3>1 DEF Turns
    <3>2. CASE q # new
      BY <1>4, <2>1, <3>2 DEF LifecycleInvariant, EarlierTurnsEnded
    <3> QED BY <3>1, <3>2
  <2> QED BY <1>4, <2>1, <2>2 DEF Status, TERMINAL
<1>10. b \in 1..new /\ (b = new \/ b <= nrun)
  BY <1>0 DEF LifecycleInvariant, BackendsOwned
<1>11. \A q \in Runs : q <= nrun => row[q].backend \in 1..nrun
  BY DEF LifecycleInvariant, BackendsOwned
<1>12. \A q \in Runs : q <= nrun /\ row[q].backend = b => row[q].session = s
  BY <1>0, <1>11 DEF LifecycleInvariant, BackendsOwned
<1>13. BackendsOwned'
  <2>1. \A q \in Runs : q <= nrun' => row'[q].backend \in 1..nrun'
    BY <1>0, <1>2, <1>4, <1>10, <1>11
  <2>2. \A r, q \in Runs :
          r <= nrun' /\ q <= nrun' /\ row'[r].backend = row'[q].backend =>
            row'[r].session = row'[q].session
    <3> SUFFICES ASSUME NEW r \in Runs, NEW q \in Runs, r <= nrun', q <= nrun',
                        row'[r].backend = row'[q].backend
                 PROVE  row'[r].session = row'[q].session
      OBVIOUS
    <3>1. CASE r = new \/ q = new
      BY <1>2, <1>4, <1>12, <3>1
    <3>2. CASE r # new /\ q # new
      BY <1>4, <3>2 DEF LifecycleInvariant, BackendsOwned
    <3> QED BY <3>1, <3>2
  <2>3. ASSUME NEW t \in Sessions
        PROVE  /\ backend'[t] <= nrun'
               /\ backend'[t] = 0 => Turns(t)' = {}
               /\ \A r \in Runs : r <= nrun' /\ row'[r].backend = backend'[t] =>
                                   row'[r].session = t
               /\ \A u \in Sessions : backend'[t] = backend'[u] /\ backend'[t] # 0 => t = u
    <3>1. backend'[s] = b /\ \A u \in Sessions : u # s => backend'[u] = backend[u]
      BY <1>0
    <3>2. \A u \in Sessions : backend[u] <= nrun /\ (u # s => backend[u] # b \/ b = 0)
      BY <1>0 DEF LifecycleInvariant, BackendsOwned
    <3>3. backend'[t] <= nrun'
      BY <1>0, <1>10, <3>1, <3>2
    <3>4. backend'[t] = 0 => Turns(t)' = {}
      <4>1. backend'[t] = 0 => t # s /\ backend[t] = 0
        BY <1>10, <3>1
      <4>2. backend[t] = 0 => Turns(t) = {}
        BY DEF LifecycleInvariant, BackendsOwned
      <4> QED BY <1>2, <1>4, <4>1, <4>2 DEF Turns
    <3>5. \A r \in Runs : r <= nrun' /\ row'[r].backend = backend'[t] => row'[r].session = t
      <4> SUFFICES ASSUME NEW r \in Runs, r <= nrun', row'[r].backend = backend'[t]
                   PROVE  row'[r].session = t
        OBVIOUS
      <4>1. CASE r = new
        BY <1>2, <1>10, <3>1, <3>2, <4>1
      <4>2. CASE r # new /\ t = s
        BY <1>4, <1>12, <3>1, <4>2
      <4>3. CASE r # new /\ t # s
        BY <1>4, <3>1, <4>3 DEF LifecycleInvariant, BackendsOwned
      <4> QED BY <4>1, <4>2, <4>3
    <3>6. \A u \in Sessions : backend'[t] = backend'[u] /\ backend'[t] # 0 => t = u
      BY <1>10, <3>1, <3>2 DEF LifecycleInvariant, BackendsOwned
    <3> QED BY <3>3, <3>4, <3>5, <3>6
  <2> QED BY <2>1, <2>2, <2>3 DEF BackendsOwned
<1>14. CreationsFirst'
  <2> SUFFICES ASSUME NEW r \in Runs, NEW q \in Runs, r < q, q <= nrun',
                      row'[r].backend = row'[q].backend, ~row'[q].resume
               PROVE  ~row'[r].child
    BY DEF CreationsFirst
  <2>1. r # new /\ r <= nrun /\ (q = new \/ q <= nrun)
    BY <1>0
  <2>2. CASE q = new
    <3>1. row[r].backend = b /\ ~resume
      BY <1>2, <1>4, <2>1, <2>2
    <3>2. b # new
      BY <1>0, <1>11, <2>1, <3>1
    <3>3. r \in Turns(s)
      BY <1>12, <2>1, <3>1 DEF Turns
    <3> QED BY <1>4, <2>1, <3>1, <3>2, <3>3
  <2>3. CASE q # new
    BY <1>4, <2>1, <2>3 DEF LifecycleInvariant, CreationsFirst
  <2> QED BY <2>2, <2>3
<1> QED
  BY <1>6, <1>7, <1>8, <1>9, <1>13, <1>14 DEF LifecycleInvariant

LEMMA ReserveInvariant ==
  ASSUME TypeOK, LifecycleInvariant, NEW s \in Sessions,
         Start(s) \/ Restart(s) \/ ResumeUnstarted(s) \/ \E ack \in BOOLEAN : Followup(s, ack)
  PROVE  LifecycleInvariant'
<1>0. backend[s] \in 0..MaxRuns /\ row \in [Runs -> RowType]
  BY DEF TypeOK
<1>1. CASE Start(s)
  <2>1. nrun + 1 \in 0..MaxRuns
    BY <1>1, BoundAssumption DEF Start, InsertRun, TypeOK
  <2>2. Turns(s) = {}
    BY <1>1 DEF Start, LifecycleInvariant, BackendsOwned
  <2>3. SettledTable(row)
    BY <1>0 DEF SettledTable
  <2> QED BY <1>1, <2>1, <2>2, <2>3, InsertInvariant DEF Start
<1>2. CASE Restart(s)
  <2>1. PICK last \in Runs : /\ ContextSettled(s, last, TRUE)
                             /\ backend' = [backend EXCEPT ![s] = nrun + 1]
                             /\ InsertRun(Verified(last), s, nrun + 1, FALSE)
    BY <1>2 DEF Restart
  <2>2. nrun + 1 \in 0..MaxRuns
    BY <2>1, BoundAssumption DEF InsertRun, TypeOK
  <2>3. \A q \in Turns(s) : Status(q) \in TERMINAL
    BY <2>1, TurnsEnded
  <2> QED BY <2>1, <2>2, <2>3, VerifiedSettled, InsertInvariant
<1>3. CASE ResumeUnstarted(s)
  <2>1. PICK last \in Runs : /\ BackendUnstarted(s, backend[s])
                             /\ ContextSettled(s, last, TRUE)
                             /\ InsertRun(Verified(last), s, backend[s], FALSE)
                             /\ UNCHANGED backend
    BY <1>3 DEF ResumeUnstarted
  <2>2. (\A q \in Turns(s) : Status(q) \in TERMINAL) /\ backend[s] # 0
    BY <2>1, TurnsEnded
  <2>3. \A q \in Turns(s) : row[q].backend = backend[s] => ~row[q].child
    BY <2>1 DEF BackendUnstarted
  <2> QED BY <1>0, <2>1, <2>2, <2>3, VerifiedSettled, InsertInvariant
<1>4. ASSUME NEW ack \in BOOLEAN, Followup(s, ack) PROVE LifecycleInvariant'
  <2>1. PICK last \in Runs : /\ ContextSettled(s, last, ack)
                             /\ InsertRun(Verified(last), s, backend[s], TRUE)
                             /\ UNCHANGED backend
    BY <1>4 DEF Followup
  <2>2. (\A q \in Turns(s) : Status(q) \in TERMINAL) /\ backend[s] # 0
    BY <2>1, TurnsEnded
  <2> QED BY <1>0, <2>1, <2>2, VerifiedSettled, InsertInvariant
<1> QED BY <1>1, <1>2, <1>3, <1>4

LEMMA NextInvariant ==
  ASSUME TypeOK, LifecycleInvariant, [Next]_vars
  PROVE  LifecycleInvariant'
<1>1. CASE UNCHANGED vars
  BY <1>1 DEF vars, LifecycleInvariant, RowsInOrder, WorkersMatchRows, RowOfWorker,
     ExecutionsRecorded, ReconcilersRight, EarlierTurnsEnded, BackendsOwned,
     CreationsFirst, Executing, Status, Turns
<1>2. CASE \E s \in Sessions : Start(s) \/ Restart(s) \/ ResumeUnstarted(s)
                               \/ \E ack \in BOOLEAN : Followup(s, ack)
  BY <1>2, ReserveInvariant
<1>3. CASE Next /\ ProcessInvariant' /\ TurnsKept
  BY <1>3, KeptTurns DEF ProcessInvariant, TurnInvariant, LifecycleInvariant
<1> QED
  BY <1>1, <1>2, <1>3, ClientCallInvariant, WorkerInvariant, ChildInvariant,
     EnvironmentInvariant DEF Next, Client

\* The processes and the tables always agree as LifecycleInvariant says.
THEOREM LifecycleCorrect == Spec => []LifecycleInvariant
<1>1. Init => TypeOK /\ LifecycleInvariant
  BY InitType, InitInvariant
<1>2. (TypeOK /\ LifecycleInvariant) /\ [Next]_vars => (TypeOK /\ LifecycleInvariant)'
  BY NextType, NextInvariant
<1> QED BY <1>1, <1>2, PTL DEF Spec

\* Nothing of an execution is alive once its run is terminal, so capacity and
\* the session are never given away under a live Claude.
THEOREM ExecutionContained == Spec => []NoEscapedExecution
<1>1. LifecycleInvariant => NoEscapedExecution
  BY DEF LifecycleInvariant, ExecutionsRecorded, NoEscapedExecution, ACTIVE
<1> QED BY <1>1, LifecycleCorrect, PTL

\* A session never has two active rows, nor two live executions.
THEOREM SessionExclusive == Spec => []OneTurnPerSession
<1>1. TypeOK /\ LifecycleInvariant => OneTurnPerSession
  <2> SUFFICES ASSUME TypeOK, LifecycleInvariant, NEW r \in Runs, NEW q \in Runs,
                      row[r].session = row[q].session,
                      Status(r) \in ACTIVE /\ Status(q) \in ACTIVE, r # q
               PROVE  FALSE
    BY DEF OneTurnPerSession, LifecycleInvariant, ExecutionsRecorded, ACTIVE
  <2>1. r <= nrun /\ q <= nrun
    BY DEF LifecycleInvariant, RowsInOrder, ACTIVE
  <2>2. Status(r) \in TERMINAL \/ Status(q) \in TERMINAL
    BY <2>1 DEF LifecycleInvariant, EarlierTurnsEnded, Runs
  <2> QED BY <2>2 DEF ACTIVE, TERMINAL
<1> QED BY <1>1, TypeCorrect, LifecycleCorrect, PTL

\* No two executions are both asked to create the same conversation.
THEOREM CreationUnique == Spec => []ConversationCreatedOnce
<1>1. TypeOK /\ LifecycleInvariant => ConversationCreatedOnce
  <2> SUFFICES ASSUME TypeOK, LifecycleInvariant, NEW r \in Runs, NEW q \in Runs,
                      row[r].child, ~row[r].resume, row[q].child, ~row[q].resume,
                      row[r].backend = row[q].backend, r # q
               PROVE  FALSE
    BY DEF ConversationCreatedOnce
  <2>1. \A p \in Runs : row[p].child => p <= nrun
    <3>1. ~NoRow.child
      BY DEF NoRow, FreshRow
    <3>2. \A p \in Runs : p > nrun => ~row[p].child
      BY <3>1 DEF LifecycleInvariant, RowsInOrder
    <3> QED BY <3>2 DEF Runs, TypeOK
  <2> QED BY <2>1 DEF LifecycleInvariant, CreationsFirst, Runs
<1> QED BY <1>1, TypeCorrect, LifecycleCorrect, PTL

-----------------------------------------------------------------------------
(* What one step may do to one row.                                          *)

StepSafe(r) ==
  /\ Status(r) \in TERMINAL /\ Status(r)' # Status(r) =>
       Status(r) = "completed" /\ Status(r)' = "failed" /\ ~ResultValid(r)
  /\ Status(r) = "unknown" /\ Status(r)' # "unknown" =>
       Status(r)' = "interrupted" /\ r \in reconciling
  /\ row'[r].child /\ ~row[r].child => ~row[r].cancel
  /\ Status(r)' \in ACTIVE /\ Status(r) \notin ACTIVE => r = nrun + 1 /\ nrun' = nrun + 1

LEMMA WorkerSafe ==
  ASSUME TypeOK, LifecycleInvariant, NEW r \in Runs, NEW q \in Runs, WorkerStep(q)
  PROVE  StepSafe(r)
<1> USE DEF StepSafe, LifecycleInvariant, WorkersMatchRows, RowOfWorker, Status,
        TERMINAL, ACTIVE, rest, Put, WorkerMoves, WorkerExits, WorkerEnds
<1>0. row \in [Runs -> RowType]
  BY DEF TypeOK
<1>1. ASSUME NEW n \in Namespaces, Claim(q, n) PROVE StepSafe(r)
  BY <1>0, <1>1 DEF Claim, RowType
<1>2. ASSUME ClaimRefused(q) PROVE StepSafe(r)
  BY <1>0, <1>2 DEF ClaimRefused
<1>3. ASSUME Launch(q) PROVE StepSafe(r)
  BY <1>0, <1>3 DEF Launch, RowType
<1>4. ASSUME LaunchCancelled(q) PROVE StepSafe(r)
  BY <1>0, <1>4 DEF LaunchCancelled, RowType
<1>5. ASSUME WriteInvocation(q) PROVE StepSafe(r)
  BY <1>0, <1>5 DEF WriteInvocation, tables
<1>6. ASSUME OpenWrapper(q) PROVE StepSafe(r)
  BY <1>0, <1>6 DEF OpenWrapper
<1>7. ASSUME WatchSeesExit(q) PROVE StepSafe(r)
  BY <1>0, <1>7 DEF WatchSeesExit
<1>8. ASSUME KillGroup(q) PROVE StepSafe(r)
  BY <1>0, <1>8 DEF KillGroup
<1>9. ASSUME Settle(q) PROVE StepSafe(r)
  BY <1>0, <1>9 DEF Settle, tables
<1>10. ASSUME CommitResult(q) PROVE StepSafe(r)
  BY <1>0, <1>10 DEF CommitResult, Verdict, RowType
<1>11. ASSUME HandlerCleans(q) PROVE StepSafe(r)
  BY <1>0, <1>11 DEF HandlerCleans, RowType
<1>12. ASSUME HandlerQuarantines(q) PROVE StepSafe(r)
  BY <1>0, <1>12 DEF HandlerQuarantines, RowType
<1>13. ASSUME NEW why \in {"cancel", "limit"}, WatchInterrupts(q, why) PROVE StepSafe(r)
  BY <1>0, <1>13 DEF WatchInterrupts, RowType
<1> QED
  BY <1>1, <1>2, <1>3, <1>4, <1>5, <1>6, <1>7, <1>8, <1>9, <1>10, <1>11, <1>12, <1>13 DEF WorkerStep

LEMMA ChildSafe ==
  ASSUME TypeOK, LifecycleInvariant, NEW r \in Runs, NEW q \in Runs, ChildStep(q)
  PROVE  StepSafe(r)
<1> USE DEF StepSafe, Status, TERMINAL, ACTIVE, rest, Put
<1>0. row \in [Runs -> RowType]
  BY DEF TypeOK
<1>1. ASSUME WrapperRecords(q) PROVE StepSafe(r)
  BY <1>0, <1>1 DEF WrapperRecords, MayExecute, RowType
<1>2. ASSUME WrapperRefuses(q) PROVE StepSafe(r)
  BY <1>0, <1>2 DEF WrapperRefuses, RowType
<1>3. ASSUME UNCHANGED row PROVE StepSafe(r)
  BY <1>3
<1> QED
  BY <1>1, <1>2, <1>3 DEF ChildStep, WrapperAborts, Exec, ClaudeExits

LEMMA EnvironmentSafe ==
  ASSUME TypeOK, LifecycleInvariant, NEW r \in Runs, Environment
  PROVE  StepSafe(r)
<1>1. ASSUME NEW q \in Runs, DeadlinePasses(q) PROVE StepSafe(r)
  BY <1>1 DEF StepSafe, Status, TERMINAL, ACTIVE, DeadlinePasses, Put, TypeOK, RowType
<1>2. ASSUME UNCHANGED row PROVE StepSafe(r)
  BY <1>2 DEF StepSafe, Status
<1> QED
  BY <1>1, <1>2 DEF Environment, WorkerFails, WorkerSignalled, WorkerCrashes, GroupDies,
     ResultDamaged, ReconcilerDies, UpgradeBinary, Reboot, rest, tables

LEMMA ClientSafe ==
  ASSUME TypeOK, LifecycleInvariant, NEW r \in Runs, Client
  PROVE  StepSafe(r)
<1> USE DEF StepSafe, Status, TERMINAL, ACTIVE, Put
<1>0. row \in [Runs -> RowType]
  BY DEF TypeOK
<1>1. ASSUME NEW s \in Sessions, NEW table, NEW b, NEW resume,
             InsertRun(table, s, b, resume),
             table = row \/ \E last \in Runs : table = Verified(last)
      PROVE  StepSafe(r)
  <2>1. nrun + 1 \in Runs /\ nrun \in Nat
    BY <1>1, BoundAssumption DEF InsertRun, Runs, TypeOK
  <2>2. /\ table \in [Runs -> RowType]
        /\ table[r].child = row[r].child
        /\ table[r].status = row[r].status
           \/ /\ row[r].status = "completed" /\ ~ResultValid(r)
              /\ table[r].status = "failed"
    BY <1>0, <1>1, VerifiedType DEF Verified, RowType
  <2>3. CASE r = nrun + 1
    <3>1. row[r].status = "absent"
      BY <2>1, <2>3 DEF LifecycleInvariant, RowsInOrder, NoRow
    <3>2. row'[r].status = "pending" /\ ~row'[r].child /\ nrun' = nrun + 1
      BY <1>1, <2>1, <2>2, <2>3 DEF InsertRun, FreshRow
    <3> QED BY <2>3, <3>1, <3>2
  <2>4. CASE r # nrun + 1
    <3>1. row'[r] = table[r]
      BY <1>1, <2>1, <2>2, <2>4 DEF InsertRun
    <3> QED BY <2>2, <3>1
  <2> QED BY <2>3, <2>4
<1>2. ASSUME NEW q \in Runs, SpawnFails(q) \/ GetRun(q) \/ Stop(q) \/ ReconcileCommit(q)
      PROVE  StepSafe(r)
  <2>1. CASE SpawnFails(q)
    BY <1>0, <2>1 DEF SpawnFails, RowType
  <2>2. CASE GetRun(q)
    BY <1>0, <2>2 DEF GetRun, RowType
  <2>3. CASE Stop(q)
    <3>1. PICK to : /\ row' = [row EXCEPT ![q] = [row[q] EXCEPT !.cancel = TRUE, !.status = to]]
                    /\ to = IF Status(q) = "pending" THEN "cancelled" ELSE Status(q)
      BY <2>3 DEF Stop
    <3>2. /\ row'[q].status = to /\ row'[q].child = row[q].child
          /\ r # q => row'[r] = row[r]
      BY <1>0, <3>1 DEF RowType
    <3> QED BY <3>1, <3>2
  <2>4. CASE ReconcileCommit(q)
    BY <1>0, <2>4 DEF ReconcileCommit, RowType
  <2> QED BY <1>2, <2>1, <2>2, <2>3, <2>4
<1>3. ASSUME NEW n \in Namespaces, Refresh(n) PROVE StepSafe(r)
  BY <1>0, <1>3 DEF Refresh, Refreshed, LaunchExpired, Orphaned, RowType
<1>4. ASSUME UNCHANGED row PROVE StepSafe(r)
  BY <1>4
<1>5. ASSUME NEW q \in Runs, Spawn(q) \/ \E n \in Namespaces : ReconcileCheck(q, n)
      PROVE  UNCHANGED row
  BY <1>5 DEF Spawn, ReconcileCheck, tables, rest
<1>6. ASSUME BeginCommand \/ EndCommand \/ \E n \in 1..MaxLimit : ConfigureLimits(n)
      PROVE  UNCHANGED row
  BY <1>6 DEF BeginCommand, EndCommand, ConfigureLimits, tables
<1>7. ASSUME NEW s \in Sessions,
             Start(s) \/ Restart(s) \/ ResumeUnstarted(s) \/ \E ack \in BOOLEAN : Followup(s, ack)
      PROVE  StepSafe(r)
  BY <1>1, <1>7 DEF Start, Restart, ResumeUnstarted, Followup
<1> QED
  BY <1>2, <1>3, <1>4, <1>5, <1>6, <1>7 DEF Client

LEMMA NextSafe ==
  ASSUME TypeOK, LifecycleInvariant, [Next]_vars, NEW r \in Runs
  PROVE  StepSafe(r)
<1>1. CASE UNCHANGED vars
  BY <1>1 DEF vars, StepSafe, Status
<1> QED
  BY <1>1, WorkerSafe, ChildSafe, EnvironmentSafe, ClientSafe DEF Next

\* A terminal run is final: only a completed one whose result file was lost
\* or altered may still become failed.
THEOREM TerminalRunsFinal == Spec => TerminalIsFinal
<1>1. TypeOK /\ LifecycleInvariant /\ [Next]_vars =>
        [\A r \in Runs : Status(r) \in TERMINAL =>
           \/ Status(r)' = Status(r)
           \/ Status(r) = "completed" /\ Status(r)' = "failed" /\ ~ResultValid(r)]_vars
  BY NextSafe DEF StepSafe
<1> QED BY <1>1, TypeCorrect, LifecycleCorrect, PTL DEF Spec, TerminalIsFinal

\* Quarantine ends only by reconciliation, with worker and execution gone.
THEOREM QuarantineSound == Spec => QuarantineHolds
<1>1. TypeOK /\ LifecycleInvariant /\ [Next]_vars =>
        [\A r \in Runs : Status(r) = "unknown" /\ Status(r)' # "unknown" =>
           /\ Status(r)' = "interrupted"
           /\ ~WorkerAlive(r) /\ ~Executing(r)]_vars
  BY NextSafe DEF StepSafe, LifecycleInvariant, ReconcilersRight, WorkerAlive
<1> QED BY <1>1, TypeCorrect, LifecycleCorrect, PTL DEF Spec, QuarantineHolds

\* A cancel recorded before the execution is recorded prevents it for good.
THEOREM CancelEffective == Spec => CancelPreventsExecution
<1>1. TypeOK /\ LifecycleInvariant /\ [Next]_vars =>
        [\A r \in Runs : row[r].cancel /\ ~row[r].child => ~row'[r].child]_vars
  BY NextSafe DEF StepSafe
<1> QED BY <1>1, TypeCorrect, LifecycleCorrect, PTL DEF Spec, CancelPreventsExecution

-----------------------------------------------------------------------------
(* Capacity.                                                                 *)

LEMMA ActiveFinite ==
  ASSUME TypeOK
  PROVE  /\ IsFiniteSet(ActiveRuns) /\ Cardinality(ActiveRuns) \in Nat
         /\ IsFiniteSet(ActiveRuns') /\ Cardinality(ActiveRuns') \in Nat
<1>1. IsFiniteSet(Runs)
  BY FS_Interval, BoundAssumption DEF Runs
<1>2. ActiveRuns \in SUBSET Runs /\ ActiveRuns' \in SUBSET Runs
  BY DEF ActiveRuns
<1>3. IsFiniteSet(ActiveRuns) /\ IsFiniteSet(ActiveRuns')
  BY <1>1, <1>2, FS_Subset
<1> QED BY <1>3, FS_CardinalityType

\* The steps that neither reserve, nor open or close a command, nor set the limit.
RunStep ==
  \/ \E r \in Runs : \/ Spawn(r) \/ SpawnFails(r) \/ GetRun(r) \/ Stop(r)
                     \/ ReconcileCommit(r)
                     \/ \E n \in Namespaces : ReconcileCheck(r, n)
                     \/ WorkerStep(r) \/ ChildStep(r)
  \/ \E n \in Namespaces : Refresh(n)
  \/ Environment

LEMMA RunStepKeepsCount ==
  ASSUME RunStep
  PROVE  UNCHANGED <<nrun, commands, limit>>
<1>1. ASSUME NEW r \in Runs,
             \/ Spawn(r) \/ SpawnFails(r) \/ GetRun(r) \/ Stop(r) \/ ReconcileCommit(r)
             \/ \E n \in Namespaces : ReconcileCheck(r, n)
      PROVE  UNCHANGED <<nrun, commands, limit>>
  BY <1>1 DEF Spawn, SpawnFails, GetRun, Stop, ReconcileCommit, ReconcileCheck, rest,
     host, tables
<1>2. ASSUME NEW n \in Namespaces, Refresh(n) PROVE UNCHANGED <<nrun, commands, limit>>
  BY <1>2 DEF Refresh, rest, host
<1>3. ASSUME NEW r \in Runs, WorkerStep(r) PROVE UNCHANGED <<nrun, commands, limit>>
  <2>1. UNCHANGED <<nrun, host>>
    BY <1>3 DEF WorkerStep, Claim, ClaimRefused, Launch, LaunchCancelled, WriteInvocation,
       OpenWrapper, WatchSeesExit, KillGroup, Settle, CommitResult, HandlerCleans,
       HandlerQuarantines, WatchInterrupts, rest, tables
  <2> QED BY <2>1 DEF host
<1>4. ASSUME NEW r \in Runs, ChildStep(r) PROVE UNCHANGED <<nrun, commands, limit>>
  BY <1>4 DEF ChildStep, WrapperRecords, WrapperRefuses, WrapperAborts, Exec, ClaudeExits,
     rest, host
<1>5. CASE Environment
  <2>1. ASSUME NEW r \in Runs,
               \/ DeadlinePasses(r) \/ WorkerFails(r) \/ WorkerSignalled(r)
               \/ WorkerCrashes(r) \/ GroupDies(r) \/ ResultDamaged(r) \/ ReconcilerDies(r)
        PROVE  UNCHANGED <<nrun, host>>
    BY <2>1 DEF DeadlinePasses, WorkerFails, WorkerSignalled, WorkerCrashes,
       GroupDies, ResultDamaged, ReconcilerDies, rest, tables
  <2>2. ASSUME UpgradeBinary \/ Reboot PROVE UNCHANGED <<nrun, commands, limit>>
    BY <2>2 DEF UpgradeBinary, Reboot, tables
  <2> QED BY <1>5, <2>1, <2>2 DEF Environment, host
<1> QED BY <1>1, <1>2, <1>3, <1>4, <1>5 DEF RunStep

\* How one step may change what is counted against the limit.
LEMMA CountedStep ==
  ASSUME TypeOK, LifecycleInvariant, [Next]_vars
  PROVE  \/ nrun' = nrun /\ commands' \in Nat /\ commands' <= commands
         \/ HasCapacity /\ commands' = commands + 1 /\ limit' = limit /\ row' = row
         \/ HasCapacity /\ commands' = commands /\ limit' = limit
<1> USE DEF TypeOK
<1>1. CASE UNCHANGED vars
  BY <1>1 DEF vars
<1>2. CASE \E s \in Sessions : Start(s) \/ Restart(s) \/ ResumeUnstarted(s)
                               \/ \E ack \in BOOLEAN : Followup(s, ack)
  BY <1>2 DEF Start, Restart, ResumeUnstarted, Followup, InsertRun, host
<1>3. CASE BeginCommand
  BY <1>3 DEF BeginCommand, tables
<1>4. CASE EndCommand
  BY <1>4 DEF EndCommand, tables
<1>5. CASE \E n \in 1..MaxLimit : ConfigureLimits(n)
  BY <1>5 DEF ConfigureLimits, tables
<1>6. CASE RunStep
  BY <1>6, RunStepKeepsCount
<1> QED
  BY <1>1, <1>2, <1>3, <1>4, <1>5, <1>6 DEF Next, Client, RunStep

LEMMA CapacityStep ==
  ASSUME TypeOK, LifecycleInvariant, [Next]_vars
  PROVE  InUse' > InUse => InUse' <= limit
<1>1. /\ IsFiniteSet(ActiveRuns) /\ Cardinality(ActiveRuns) \in Nat
      /\ Cardinality(ActiveRuns') \in Nat /\ commands \in Nat /\ limit \in Nat
      /\ nrun \in Nat
  BY ActiveFinite DEF TypeOK
<1>2. ActiveRuns' \subseteq ActiveRuns \union {nrun + 1}
  BY NextSafe DEF StepSafe, ActiveRuns
<1>3. Cardinality(ActiveRuns') <= Cardinality(ActiveRuns) + 1
  <2>1. /\ IsFiniteSet(ActiveRuns \union {nrun + 1})
        /\ Cardinality(ActiveRuns \union {nrun + 1}) <= Cardinality(ActiveRuns) + 1
        /\ Cardinality(ActiveRuns \union {nrun + 1}) \in Nat
    BY <1>1, FS_AddElement
  <2>2. Cardinality(ActiveRuns') <= Cardinality(ActiveRuns \union {nrun + 1})
    BY <1>2, <2>1, FS_Subset
  <2> QED BY <1>1, <2>1, <2>2
<1>4. CASE nrun' = nrun /\ commands' \in Nat /\ commands' <= commands
  <2>1. ActiveRuns' \subseteq ActiveRuns
    BY <1>1, <1>4, NextSafe DEF StepSafe, ActiveRuns
  <2>2. Cardinality(ActiveRuns') <= Cardinality(ActiveRuns)
    BY <1>1, <2>1, FS_Subset
  <2> QED BY <1>1, <1>4, <2>2 DEF InUse
<1>5. CASE HasCapacity /\ commands' = commands + 1 /\ limit' = limit /\ row' = row
  <2>1. ActiveRuns' = ActiveRuns
    BY <1>5 DEF ActiveRuns, Status
  <2> QED BY <1>1, <1>5, <2>1 DEF InUse, HasCapacity
<1>6. CASE HasCapacity /\ commands' = commands /\ limit' = limit
  BY <1>1, <1>3, <1>6 DEF InUse, HasCapacity
<1> QED BY <1>4, <1>5, <1>6, CountedStep

\* Runs and workspace commands together never grow past the limit in force.
THEOREM CapacityKept == Spec => CapacityRespected
<1>1. TypeOK /\ LifecycleInvariant /\ [Next]_vars => [InUse' > InUse => InUse' <= limit]_vars
  <2> SUFFICES ASSUME TypeOK, LifecycleInvariant, [Next]_vars
               PROVE  InUse' > InUse => InUse' <= limit
    OBVIOUS
  <2> QED BY CapacityStep
<1> QED BY <1>1, TypeCorrect, LifecycleCorrect, PTL DEF Spec, CapacityRespected

-----------------------------------------------------------------------------
(* Completed runs.                                                           *)

\* What stands behind the verdict of a run: a stream that reports success is
\* of a recorded execution, the result file is there before the worker
\* commits, and a completed run has all that its worker saw.
Evidence(r) ==
  /\ outcome[r] = "success" => row[r].child
  /\ worker[r] = "writing" => result[r] # "none"
  /\ Status(r) = "completed" =>
       row[r].sha /\ outcome[r] = "success" /\ result[r] # "none" /\ group[r] = "dead"

EvidenceInvariant == \A r \in Runs : Evidence(r)

\* A run that a step does not concern keeps its evidence.
SameRun(r) ==
  /\ row'[r] = row[r] /\ worker'[r] = worker[r] /\ group'[r] = group[r]
  /\ outcome'[r] = outcome[r] /\ result'[r] = result[r]

LEMMA SameEvidence ==
  ASSUME NEW r \in Runs, Evidence(r), SameRun(r)
  PROVE  Evidence(r)'
BY DEF SameRun, Evidence, Status

\* run_worker: success is the verdict on a stream only after the worker wrote
\* result.json with nothing of the group left alive.
LEMMA WorkerEvidence ==
  ASSUME TypeOK, LifecycleInvariant, EvidenceInvariant, NEW q \in Runs, WorkerStep(q)
  PROVE  EvidenceInvariant'
<1> USE DEF Status, rest, host, files, Put, WorkerMoves, WorkerExits, WorkerEnds
<1>0. /\ row \in [Runs -> RowType] /\ worker \in [Runs -> WorkerPoints]
      /\ group \in [Runs -> GroupStates] /\ outcome \in [Runs -> Outcomes]
      /\ result \in [Runs -> {"none", "intact", "damaged"}]
      /\ reason \in [Runs -> Reasons]
  BY DEF TypeOK
<1>a. \A r \in Runs : Evidence(r)
  BY DEF EvidenceInvariant
<1>b. RowOfWorker(q)
  BY DEF LifecycleInvariant, WorkersMatchRows
<1>1. ASSUME NEW n \in Namespaces, Claim(q, n) PROVE EvidenceInvariant'
  BY <1>0, <1>a, <1>1 DEF Claim, RowType, Evidence, EvidenceInvariant
<1>2. ASSUME ClaimRefused(q) PROVE EvidenceInvariant'
  BY <1>0, <1>a, <1>2 DEF ClaimRefused, Evidence, EvidenceInvariant
<1>3. ASSUME Launch(q) PROVE EvidenceInvariant'
  BY <1>0, <1>a, <1>3 DEF Launch, RowType, Evidence, EvidenceInvariant
<1>4. ASSUME LaunchCancelled(q) PROVE EvidenceInvariant'
  BY <1>0, <1>a, <1>4 DEF LaunchCancelled, RowType, Evidence, EvidenceInvariant
<1>5. ASSUME WriteInvocation(q) PROVE EvidenceInvariant'
  BY <1>0, <1>a, <1>5 DEF WriteInvocation, tables, Evidence, EvidenceInvariant
<1>6. ASSUME OpenWrapper(q) PROVE EvidenceInvariant'
  BY <1>0, <1>a, <1>b, <1>6 DEF OpenWrapper, RowOfWorker, Evidence, EvidenceInvariant
<1>7. ASSUME WatchSeesExit(q) PROVE EvidenceInvariant'
  BY <1>0, <1>a, <1>7 DEF WatchSeesExit, Evidence, EvidenceInvariant
<1>8. ASSUME NEW why \in {"cancel", "limit"}, WatchInterrupts(q, why)
      PROVE  EvidenceInvariant'
  BY <1>0, <1>a, <1>8 DEF WatchInterrupts, RowType, Evidence, EvidenceInvariant
<1>9. ASSUME KillGroup(q) PROVE EvidenceInvariant'
  BY <1>0, <1>a, <1>b, <1>9
     DEF KillGroup, GroupEnds, RowOfWorker, Evidence, EvidenceInvariant
<1>10. ASSUME Settle(q) PROVE EvidenceInvariant'
  <2>1. /\ row' = row /\ group' = group /\ outcome' = outcome
        /\ result'[q] = "intact" /\ worker'[q] = "writing"
        /\ \A r \in Runs : r # q => SameRun(r)
    BY <1>0, <1>10 DEF Settle, tables, SameRun
  <2>2. Evidence(q)'
    BY <1>a, <2>1 DEF Evidence
  <2> QED BY <1>a, <2>1, <2>2, SameEvidence DEF EvidenceInvariant
<1>11. ASSUME CommitResult(q) PROVE EvidenceInvariant'
  <2>1. /\ row'[q].status = Verdict(q) /\ row'[q].sha /\ row'[q].child = row[q].child
        /\ worker[q] = "writing" /\ worker'[q] = "gone"
        /\ group' = group /\ outcome' = outcome /\ result' = result
        /\ \A r \in Runs : r # q => SameRun(r)
    BY <1>0, <1>11 DEF CommitResult, RowType, SameRun
  <2>2. Verdict(q) = "completed" => outcome[q] = "success"
    BY DEF Verdict
  <2>3. group[q] = "dead"
    BY <1>b, <2>1 DEF RowOfWorker
  <2>4. Evidence(q)'
    BY <1>a, <2>1, <2>2, <2>3 DEF Evidence
  <2> QED BY <1>a, <2>1, <2>4, SameEvidence DEF EvidenceInvariant
<1>12. ASSUME HandlerCleans(q) PROVE EvidenceInvariant'
  <2>1. /\ row'[q].status = "failed" /\ row'[q].child = row[q].child
        /\ worker'[q] = "gone" /\ result' = result
        /\ outcome'[q] = "success" => outcome[q] = "success"
        /\ \A r \in Runs : r # q => SameRun(r)
    <3>1. /\ row'[q].status = "failed" /\ row'[q].child = row[q].child
          /\ worker'[q] = "gone" /\ result' = result
          /\ \A r \in Runs : r # q => row'[r] = row[r] /\ worker'[r] = worker[r]
      BY <1>0, <1>12 DEF HandlerCleans, RowType
    <3>2. /\ outcome'[q] = "success" => outcome[q] = "success"
          /\ \A r \in Runs : r # q => group'[r] = group[r] /\ outcome'[r] = outcome[r]
      BY <1>0, <1>12 DEF HandlerCleans, GroupEnds
    <3> QED BY <3>1, <3>2 DEF SameRun
  <2>2. Evidence(q)'
    BY <1>a, <2>1 DEF Evidence
  <2> QED BY <1>a, <2>1, <2>2, SameEvidence DEF EvidenceInvariant
<1>13. ASSUME HandlerQuarantines(q) PROVE EvidenceInvariant'
  BY <1>0, <1>a, <1>13 DEF HandlerQuarantines, RowType, Evidence, EvidenceInvariant
<1> QED
  BY <1>1, <1>2, <1>3, <1>4, <1>5, <1>6, <1>7, <1>8, <1>9, <1>10, <1>11, <1>12,
     <1>13 DEF WorkerStep

\* exec_claude: only a recorded execution leaves a stream, and no completed
\* run has a process that could change it.
LEMMA ChildEvidence ==
  ASSUME TypeOK, LifecycleInvariant, EvidenceInvariant, NEW q \in Runs, ChildStep(q)
  PROVE  EvidenceInvariant'
<1> USE DEF Status, rest, host, files, Put, Evidence, EvidenceInvariant
<1>0. /\ row \in [Runs -> RowType] /\ group \in [Runs -> GroupStates]
      /\ outcome \in [Runs -> Outcomes]
  BY DEF TypeOK
<1>1. ASSUME WrapperRecords(q) PROVE EvidenceInvariant'
  BY <1>0, <1>1 DEF WrapperRecords, RowType
<1>2. ASSUME WrapperRefuses(q) PROVE EvidenceInvariant'
  BY <1>0, <1>2 DEF WrapperRefuses, RowType
<1>3. ASSUME WrapperAborts(q) PROVE EvidenceInvariant'
  BY <1>0, <1>3 DEF WrapperAborts
<1>4. ASSUME Exec(q) PROVE EvidenceInvariant'
  BY <1>0, <1>4 DEF Exec
<1>5. ASSUME NEW o \in {"success", "error", "divergent"},
             NEW left \in {"residue", "dead"}, ClaudeExits(q, o, left)
      PROVE  EvidenceInvariant'
  <2>1. row[q].child
    BY <1>5 DEF ClaudeExits, LifecycleInvariant, ExecutionsRecorded, Executing
  <2> QED BY <1>0, <1>5, <2>1 DEF ClaudeExits
<1> QED BY <1>1, <1>2, <1>3, <1>4, <1>5 DEF ChildStep

\* Crashes, signals and reboots end processes without making a success of
\* them, and a damaged result file is a file still.
LEMMA EnvironmentEvidence ==
  ASSUME TypeOK, LifecycleInvariant, EvidenceInvariant, Environment
  PROVE  EvidenceInvariant'
<1> USE DEF Status, rest, host, files, procs, Put, Evidence, EvidenceInvariant
<1>0. /\ row \in [Runs -> RowType] /\ worker \in [Runs -> WorkerPoints]
      /\ group \in [Runs -> GroupStates] /\ outcome \in [Runs -> Outcomes]
      /\ result \in [Runs -> {"none", "intact", "damaged"}]
  BY DEF TypeOK
<1>1. ASSUME NEW r \in Runs, DeadlinePasses(r) PROVE EvidenceInvariant'
  BY <1>0, <1>1 DEF DeadlinePasses, RowType
<1>2. ASSUME NEW r \in Runs, WorkerFails(r) PROVE EvidenceInvariant'
  BY <1>0, <1>2 DEF WorkerFails
<1>3. ASSUME NEW r \in Runs, WorkerSignalled(r) PROVE EvidenceInvariant'
  BY <1>0, <1>3 DEF WorkerSignalled
<1>4. ASSUME NEW r \in Runs, WorkerCrashes(r) PROVE EvidenceInvariant'
  BY <1>0, <1>4 DEF WorkerCrashes, WorkerEnds
<1>5. ASSUME NEW r \in Runs, GroupDies(r) PROVE EvidenceInvariant'
  BY <1>0, <1>5 DEF GroupDies, GroupEnds
<1>6. ASSUME NEW r \in Runs, ResultDamaged(r) PROVE EvidenceInvariant'
  BY <1>0, <1>6 DEF ResultDamaged, tables
<1>7. ASSUME NEW r \in Runs, ReconcilerDies(r) PROVE EvidenceInvariant'
  BY <1>0, <1>7 DEF ReconcilerDies, tables
<1>8. ASSUME UpgradeBinary PROVE EvidenceInvariant'
  BY <1>0, <1>8 DEF UpgradeBinary, tables
<1>9. ASSUME Reboot PROVE EvidenceInvariant'
  BY <1>0, <1>9 DEF Reboot, GroupAlive, tables
<1> QED
  BY <1>1, <1>2, <1>3, <1>4, <1>5, <1>6, <1>7, <1>8, <1>9 DEF Environment

\* A client call makes no run completed and touches no file or process of one.
LEMMA ClientCallEvidence ==
  ASSUME TypeOK, EvidenceInvariant,
         \/ \E r \in Runs : \/ Spawn(r) \/ SpawnFails(r) \/ GetRun(r) \/ Stop(r)
                            \/ ReconcileCommit(r)
                            \/ \E n \in Namespaces : ReconcileCheck(r, n)
         \/ \E n \in Namespaces : Refresh(n)
         \/ \E n \in 1..MaxLimit : ConfigureLimits(n)
         \/ BeginCommand \/ EndCommand
  PROVE  EvidenceInvariant'
<1> USE DEF Status, rest, host, files, procs, Put, Evidence, EvidenceInvariant
<1>0. row \in [Runs -> RowType] /\ worker \in [Runs -> WorkerPoints]
  BY DEF TypeOK
<1>1. ASSUME NEW r \in Runs, Spawn(r) PROVE EvidenceInvariant'
  BY <1>0, <1>1 DEF Spawn
<1>2. ASSUME NEW r \in Runs, SpawnFails(r) PROVE EvidenceInvariant'
  BY <1>0, <1>2 DEF SpawnFails, RowType
<1>3. ASSUME NEW r \in Runs, GetRun(r) PROVE EvidenceInvariant'
  BY <1>0, <1>3 DEF GetRun, RowType
<1>4. ASSUME NEW r \in Runs, Stop(r) PROVE EvidenceInvariant'
  <2>1. PICK to : /\ row' = [row EXCEPT ![r] = [row[r] EXCEPT !.cancel = TRUE, !.status = to]]
                  /\ to = IF Status(r) = "pending" THEN "cancelled" ELSE Status(r)
    BY <1>4 DEF Stop
  <2>2. /\ row'[r].status = to /\ row'[r].child = row[r].child /\ row'[r].sha = row[r].sha
        /\ \A q \in Runs : q # r => row'[q] = row[q]
    BY <1>0, <2>1 DEF RowType
  <2>3. UNCHANGED <<worker, group, outcome, result>>
    BY <1>4 DEF Stop
  <2> QED BY <2>1, <2>2, <2>3
<1>5. ASSUME NEW r \in Runs, ReconcileCommit(r) PROVE EvidenceInvariant'
  BY <1>0, <1>5 DEF ReconcileCommit, RowType
<1>6. ASSUME NEW r \in Runs, NEW n \in Namespaces, ReconcileCheck(r, n)
      PROVE  EvidenceInvariant'
  BY <1>0, <1>6 DEF ReconcileCheck, tables
<1>7. ASSUME NEW n \in Namespaces, Refresh(n) PROVE EvidenceInvariant'
  BY <1>0, <1>7 DEF Refresh, Refreshed, LaunchExpired, Orphaned, RowType
<1>8. ASSUME NEW n \in 1..MaxLimit, ConfigureLimits(n) PROVE EvidenceInvariant'
  BY <1>0, <1>8 DEF ConfigureLimits, tables
<1>9. ASSUME BeginCommand \/ EndCommand PROVE EvidenceInvariant'
  BY <1>0, <1>9 DEF BeginCommand, EndCommand, tables
<1> QED
  BY <1>1, <1>2, <1>3, <1>4, <1>5, <1>6, <1>7, <1>8, <1>9

\* reserve_in inserts a run of which nothing is known.
LEMMA ReserveEvidence ==
  ASSUME TypeOK, LifecycleInvariant, EvidenceInvariant, NEW s, NEW b, NEW resume,
         NEW table, InsertRun(table, s, b, resume),
         table = row \/ \E last \in Runs : table = Verified(last)
  PROVE  EvidenceInvariant'
<1> SUFFICES ASSUME NEW r \in Runs PROVE Evidence(r)'
  BY DEF EvidenceInvariant
<1>1. nrun + 1 \in Runs /\ nrun \in Nat /\ row \in [Runs -> RowType]
  BY BoundAssumption DEF InsertRun, Runs, TypeOK
<1>2. /\ table \in [Runs -> RowType]
      /\ table[r].child = row[r].child /\ table[r].sha = row[r].sha
      /\ table[r].status = row[r].status \/ table[r].status = "failed"
  BY <1>1, VerifiedType DEF Verified, RowType
<1>3. UNCHANGED <<worker, group, outcome, result>>
  BY DEF InsertRun, procs, files
<1>4. Evidence(r)
  BY DEF EvidenceInvariant
<1>5. CASE r = nrun + 1
  <2>1. worker[r] = "none" /\ ~row[r].child
    BY <1>1, <1>5 DEF LifecycleInvariant, RowsInOrder, NoRow, FreshRow
  <2>2. row'[r].status = "pending"
    BY <1>1, <1>2, <1>5 DEF InsertRun, FreshRow
  <2> QED BY <1>3, <1>4, <2>1, <2>2 DEF Evidence, Status
<1>6. CASE r # nrun + 1
  <2>1. row'[r] = table[r]
    BY <1>1, <1>2, <1>6 DEF InsertRun
  <2> QED BY <1>2, <1>3, <1>4, <2>1 DEF Evidence, Status
<1> QED BY <1>5, <1>6

LEMMA NextEvidence ==
  ASSUME TypeOK, LifecycleInvariant, EvidenceInvariant, [Next]_vars
  PROVE  EvidenceInvariant'
<1>1. CASE UNCHANGED vars
  BY <1>1 DEF vars, EvidenceInvariant, Evidence, Status
<1>2. CASE \E s \in Sessions : Start(s) \/ Restart(s) \/ ResumeUnstarted(s)
                               \/ \E ack \in BOOLEAN : Followup(s, ack)
  BY <1>2, ReserveEvidence DEF Start, Restart, ResumeUnstarted, Followup
<1> QED
  BY <1>1, <1>2, ClientCallEvidence, WorkerEvidence, ChildEvidence, EnvironmentEvidence
     DEF Next, Client

\* A completed run is one whose recorded execution ended with a valid stream
\* and whose result was written before the verdict, with nothing left alive.
THEOREM CompletionEvidenced == Spec => []CompletedIsEvidenced
<1>1. Init => EvidenceInvariant
  BY DEF Init, EvidenceInvariant, Evidence, Status, NoRow, FreshRow
<1>2. TypeOK /\ LifecycleInvariant /\ EvidenceInvariant /\ [Next]_vars => EvidenceInvariant'
  BY NextEvidence
<1>3. EvidenceInvariant => CompletedIsEvidenced
  BY DEF EvidenceInvariant, Evidence, CompletedIsEvidenced, GroupAlive
<1> QED BY <1>1, <1>2, <1>3, TypeCorrect, LifecycleCorrect, PTL DEF Spec

-----------------------------------------------------------------------------
(* RunLifecycle implements ExecutionSlots.                                   *)

Holders == {row[r].session : r \in ActiveRuns}
Executors == {row[r].session : r \in {q \in Runs : Executing(q)}}

\* Active runs of different sessions hold at least as many slots.
LEMMA HoldersCounted ==
  ASSUME TypeOK
  PROVE  Cardinality(Holders) \in Nat /\ Cardinality(Holders) <= Cardinality(ActiveRuns)
<1> DEFINE f == [r \in ActiveRuns |-> row[r].session]
<1>1. f \in Surjection(ActiveRuns, Holders)
  BY DEF Surjection, Holders
<1>2. IsFiniteSet(Holders) /\ Cardinality(Holders) <= Cardinality(ActiveRuns)
  BY <1>1, ActiveFinite, FS_Surjection
<1> QED BY <1>2, FS_CardinalityType

\* The instance has a FiniteSets of its own.
LEMMA SameCardinality ==
  ASSUME NEW S
  PROVE  Slots!Cardinality(S) = Cardinality(S)
BY DEF Slots!Cardinality, Cardinality

\* Only the wrapper's transaction starts an execution.
LEMMA ExecutionStarts ==
  ASSUME TypeOK, LifecycleInvariant, [Next]_vars, NEW r \in Runs,
         Executing(r)', ~Executing(r)
  PROVE  WrapperRecords(r)
<1> USE DEF Executing
<1>0. group \in [Runs -> GroupStates]
  BY DEF TypeOK
<1>1. CASE UNCHANGED group
  BY <1>1
<1>2. CASE Environment
  <2>1. ASSUME NEW q \in Runs, GroupDies(q) PROVE FALSE
    BY <1>0, <2>1 DEF GroupDies, GroupEnds
  <2>2. ASSUME Reboot PROVE FALSE
    BY <1>0, <2>2 DEF Reboot, GroupAlive
  <2>3. ASSUME NEW q \in Runs,
               \/ DeadlinePasses(q) \/ WorkerFails(q) \/ WorkerSignalled(q)
               \/ WorkerCrashes(q) \/ ResultDamaged(q) \/ ReconcilerDies(q)
        PROVE  UNCHANGED group
    BY <2>3 DEF DeadlinePasses, WorkerFails, WorkerSignalled, WorkerCrashes,
       ResultDamaged, ReconcilerDies, procs
  <2>4. ASSUME UpgradeBinary PROVE UNCHANGED group
    BY <2>4 DEF UpgradeBinary, procs
  <2> QED BY <1>1, <1>2, <2>1, <2>2, <2>3, <2>4 DEF Environment
<1>3. ASSUME NEW q \in Runs, ChildStep(q) PROVE WrapperRecords(r)
  BY <1>0, <1>3 DEF ChildStep, WrapperRecords, WrapperRefuses, WrapperAborts, Exec, ClaudeExits
<1>4. ASSUME NEW q \in Runs, WorkerStep(q) PROVE FALSE
  <2>1. ASSUME OpenWrapper(q) \/ KillGroup(q) \/ HandlerCleans(q) PROVE FALSE
    BY <1>0, <2>1 DEF OpenWrapper, KillGroup, HandlerCleans, GroupEnds
  <2>2. ASSUME ~(OpenWrapper(q) \/ KillGroup(q) \/ HandlerCleans(q)) PROVE UNCHANGED group
    BY <1>4, <2>2 DEF WorkerStep, Claim, ClaimRefused, Launch, LaunchCancelled,
       WriteInvocation, WatchSeesExit, Settle, CommitResult, HandlerQuarantines,
       WatchInterrupts, rest
  <2> QED BY <1>1, <2>1, <2>2
<1>5. CASE Client
  <2>1. ASSUME NEW s \in Sessions,
               Start(s) \/ Restart(s) \/ ResumeUnstarted(s) \/ \E ack \in BOOLEAN : Followup(s, ack)
        PROVE  UNCHANGED group
    BY <2>1 DEF Start, Restart, ResumeUnstarted, Followup, InsertRun, procs
  <2>2. ASSUME NEW q \in Runs,
               \/ Spawn(q) \/ SpawnFails(q) \/ GetRun(q) \/ Stop(q) \/ ReconcileCommit(q)
               \/ \E n \in Namespaces : ReconcileCheck(q, n)
        PROVE  UNCHANGED group
    BY <2>2 DEF Spawn, SpawnFails, GetRun, Stop, ReconcileCommit, ReconcileCheck, procs
  <2>3. ASSUME \/ \E n \in Namespaces : Refresh(n)
               \/ \E n \in 1..MaxLimit : ConfigureLimits(n)
               \/ BeginCommand \/ EndCommand
        PROVE  UNCHANGED group
    BY <2>3 DEF Refresh, ConfigureLimits, BeginCommand, EndCommand, procs
  <2> QED BY <1>1, <1>5, <2>1, <2>2, <2>3 DEF Client
<1>6. CASE UNCHANGED vars
  BY <1>1, <1>6 DEF vars
<1> QED BY <1>2, <1>3, <1>4, <1>5, <1>6 DEF Next

\* A reservation takes the slot of a session that held none.
LEMMA InsertSlots ==
  ASSUME TypeOK, LifecycleInvariant, NEW s \in Sessions, NEW b, NEW resume,
         NEW table, SettledTable(table),
         \A q \in Turns(s) : Status(q) \in TERMINAL,
         InsertRun(table, s, b, resume)
  PROVE  /\ s \notin Holders /\ Holders' = Holders \union {s}
         /\ Executors' = Executors /\ UNCHANGED <<commands, limit>> /\ HasCapacity
<1> DEFINE new == nrun + 1
<1>0. new \in Runs /\ nrun \in Nat /\ row \in [Runs -> RowType]
  BY BoundAssumption DEF InsertRun, TypeOK, Runs
<1>1. /\ row'[new].status = "pending" /\ row'[new].session = s
      /\ \A q \in Runs : q # new => row'[q] = table[q]
  BY <1>0 DEF InsertRun, SettledTable, FreshRow
<1>2. Status(new) = "absent" /\ ~Executing(new)
  BY <1>0 DEF LifecycleInvariant, RowsInOrder, Executing
<1>3. ASSUME NEW q \in Runs, q # new
      PROVE  /\ row'[q].session = row[q].session
             /\ Status(q)' \in ACTIVE <=> Status(q) \in ACTIVE
  BY <1>1, <1>3 DEF SettledTable, Status, ACTIVE
<1>4. Holders' = Holders \union {s}
  <2>1. ASSUME NEW x \in Holders' PROVE x \in Holders \union {s}
    BY <1>1, <1>3, <2>1 DEF Holders, ActiveRuns
  <2>2. s \in Holders'
    BY <1>0, <1>1 DEF Holders, ActiveRuns, Status, ACTIVE
  <2>3. ASSUME NEW x \in Holders PROVE x \in Holders'
    <3>1. PICK q \in Runs : Status(q) \in ACTIVE /\ x = row[q].session
      BY DEF Holders, ActiveRuns
    <3>2. q # new
      BY <1>2, <3>1 DEF ACTIVE
    <3> QED BY <1>3, <3>1, <3>2 DEF Holders, ActiveRuns
  <2> QED BY <2>1, <2>2, <2>3
<1>5. s \notin Holders
  BY DEF Holders, ActiveRuns, Turns, ACTIVE, TERMINAL
<1>6. Executors' = Executors
  <2>1. \A q \in Runs : Executing(q)' <=> Executing(q)
    BY DEF InsertRun, procs, Executing
  <2> QED BY <1>2, <1>3, <2>1 DEF Executors
<1> QED BY <1>4, <1>5, <1>6 DEF InsertRun, host

LEMMA ReserveSlots ==
  ASSUME TypeOK, LifecycleInvariant, NEW s \in Sessions,
         Start(s) \/ Restart(s) \/ ResumeUnstarted(s) \/ \E ack \in BOOLEAN : Followup(s, ack)
  PROVE  Slots!Acquire
<1>1. PICK table, b, resume : /\ SettledTable(table) /\ InsertRun(table, s, b, resume)
                              /\ \A q \in Turns(s) : Status(q) \in TERMINAL
  <2>1. CASE Start(s)
    <3>1. Turns(s) = {} /\ SettledTable(row)
      BY <2>1 DEF Start, LifecycleInvariant, BackendsOwned, SettledTable, TypeOK
    <3> QED BY <2>1, <3>1 DEF Start
  <2>2. CASE Restart(s)
    BY <2>2, TurnsEnded, VerifiedSettled DEF Restart
  <2>3. CASE ResumeUnstarted(s)
    BY <2>3, TurnsEnded, VerifiedSettled DEF ResumeUnstarted
  <2>4. CASE \E ack \in BOOLEAN : Followup(s, ack)
    BY <2>4, TurnsEnded, VerifiedSettled DEF Followup
  <2> QED BY <2>1, <2>2, <2>3, <2>4
<1>2. /\ s \notin Holders /\ Holders' = Holders \union {s}
      /\ Executors' = Executors /\ UNCHANGED <<commands, limit>> /\ HasCapacity
  BY <1>1, InsertSlots
<1>3. commands + Cardinality(Holders) < limit
  BY <1>2, HoldersCounted, ActiveFinite DEF HasCapacity, TypeOK
<1>4. Slots!InUse = commands + Cardinality(Holders)
  BY SameCardinality DEF Slots!InUse, Holders
<1> QED BY <1>2, <1>3, <1>4 DEF Slots!Acquire, Holders, Executors

\* Any other step of a run gives slots back or keeps them, except that the
\* wrapper's transaction begins an execution.
LEMMA KeptSlots ==
  ASSUME TypeOK, LifecycleInvariant, LifecycleInvariant', [Next]_vars, TurnsKept
  PROVE  /\ Holders' \subseteq Holders
         /\ Executors' \subseteq Holders'
         /\ \/ Executors' \subseteq Executors
            \/ \E s \in Holders \ Executors :
                 Executors' = Executors \union {s} /\ Holders' = Holders
<1>0. /\ nrun \in Nat /\ row \in [Runs -> RowType] /\ group \in [Runs -> GroupStates]
  BY DEF TypeOK
<1>1. \A r \in Runs : Status(r)' \in ACTIVE => Status(r) \in ACTIVE
  BY <1>0, NextSafe DEF StepSafe, TurnsKept
<1>2. Holders' \subseteq Holders
  BY <1>1 DEF Holders, ActiveRuns, TurnsKept
<1>3. Executors' \subseteq Holders'
  BY DEF LifecycleInvariant, ExecutionsRecorded, Executors, Holders, ActiveRuns, ACTIVE
<1>4. CASE \A r \in Runs : Executing(r)' => Executing(r)
  BY <1>2, <1>3, <1>4 DEF Executors, TurnsKept
<1>5. CASE \E r \in Runs : Executing(r)' /\ ~Executing(r)
  <2>1. PICK r \in Runs : Executing(r)' /\ ~Executing(r)
    BY <1>5
  <2>2. WrapperRecords(r)
    BY <2>1, ExecutionStarts
  <2>3. /\ Status(r) = "launching" /\ Status(r)' = "running"
        /\ \A q \in Runs : q # r => row'[q] = row[q] /\ group'[q] = group[q]
    BY <1>0, <2>2 DEF WrapperRecords, MayExecute, Put, Status, RowType
  <2>4. Holders' = Holders
    <3>1. \A q \in Runs : Status(q)' \in ACTIVE <=> Status(q) \in ACTIVE
      BY <2>3 DEF Status, ACTIVE
    <3> QED BY <3>1 DEF Holders, ActiveRuns, TurnsKept
  <2>5. row[r].session \in Holders
    BY <2>3 DEF Holders, ActiveRuns, ACTIVE
  <2>6. row[r].session \notin Executors
    <3> SUFFICES ASSUME NEW q \in Runs, Executing(q), row[q].session = row[r].session
                 PROVE  FALSE
      BY DEF Executors
    <3>1. q # r /\ Status(q) \in ACTIVE /\ q <= nrun /\ r <= nrun
      BY <2>1, <2>3 DEF LifecycleInvariant, ExecutionsRecorded, RowsInOrder, ACTIVE
    <3>2. Status(q) \in TERMINAL \/ Status(r) \in TERMINAL
      BY <3>1 DEF LifecycleInvariant, EarlierTurnsEnded, Runs
    <3> QED BY <2>3, <3>1, <3>2 DEF ACTIVE, TERMINAL
  <2>7. Executors' = Executors \union {row[r].session}
    <3>1. \A q \in Runs : Executing(q)' <=> (Executing(q) \/ q = r)
      BY <2>1, <2>3 DEF Executing
    <3> QED BY <3>1 DEF Executors, TurnsKept
  <2> QED BY <1>2, <1>3, <2>4, <2>5, <2>6, <2>7
<1> QED BY <1>2, <1>3, <1>4, <1>5

LEMMA SlotsStep ==
  ASSUME TypeOK, LifecycleInvariant, LifecycleInvariant', [Next]_vars
  PROVE  [Slots!Next]_Slots!slots
<1> USE DEF Slots!Next, Slots!slots, Holders, Executors
<1>1. CASE UNCHANGED vars
  BY <1>1 DEF vars, ActiveRuns, Executing, Status
<1>2. CASE \E s \in Sessions : Start(s) \/ Restart(s) \/ ResumeUnstarted(s)
                               \/ \E ack \in BOOLEAN : Followup(s, ack)
  BY <1>2, ReserveSlots
<1>3. CASE BeginCommand
  <2>1. commands + Cardinality(Holders) < limit
    BY <1>3, HoldersCounted, ActiveFinite DEF BeginCommand, HasCapacity, TypeOK
  <2>2. Slots!InUse = commands + Cardinality(Holders)
    BY SameCardinality DEF Slots!InUse
  <2>3. Holders' = Holders /\ Executors' = Executors /\ commands' = commands + 1 /\ limit' = limit
    BY <1>3 DEF BeginCommand, tables, procs, ActiveRuns, Executing, Status
  <2> QED BY <2>1, <2>2, <2>3 DEF Slots!Acquire
<1>4. CASE EndCommand
  BY <1>4 DEF EndCommand, Slots!ReleaseCommand, tables, procs, ActiveRuns, Executing, Status
<1>5. CASE \E n \in 1..MaxLimit : ConfigureLimits(n)
  BY <1>5 DEF ConfigureLimits, Slots!Resize, tables, procs, ActiveRuns, Executing, Status
<1>6. CASE RunStep
  <2>1. TurnsKept
    BY <1>6, WorkerInvariant, ChildInvariant, EnvironmentInvariant, ClientCallInvariant
       DEF RunStep
  <2>2. /\ Holders' \subseteq Holders
        /\ Executors' \subseteq Holders'
        /\ \/ Executors' \subseteq Executors
           \/ \E s \in Holders \ Executors :
                Executors' = Executors \union {s} /\ Holders' = Holders
    BY <2>1, KeptSlots
  <2> QED BY <1>6, <2>2, RunStepKeepsCount DEF Slots!Release, Slots!Begin
<1> QED
  BY <1>1, <1>2, <1>3, <1>4, <1>5, <1>6 DEF Next, Client, RunStep

\* RunLifecycle implements the abstract slots: a session executes only while
\* it holds one, whatever crashes, races and client calls do.
THEOREM SlotsRefined == Spec => SlotsImplemented
<1>1. Init => Slots!Init
  <2> SUFFICES ASSUME Init PROVE Slots!Init
    OBVIOUS
  <2>1. Holders = {} /\ Executors = {}
    BY DEF Init, Holders, Executors, ActiveRuns, Status, NoRow, FreshRow, ACTIVE, Executing
  <2> QED BY <2>1 DEF Init, Slots!Init, Holders, Executors
<1>2. TypeOK /\ LifecycleInvariant /\ LifecycleInvariant' /\ [Next]_vars
        => [Slots!Next]_Slots!slots
  <2> SUFFICES ASSUME TypeOK, LifecycleInvariant, LifecycleInvariant', [Next]_vars
               PROVE  [Slots!Next]_Slots!slots
    OBVIOUS
  <2> QED BY SlotsStep
<1> QED
  BY <1>1, <1>2, TypeCorrect, LifecycleCorrect, PTL DEF Spec, SlotsImplemented, Slots!Spec

-----------------------------------------------------------------------------
(* RunLifecycle implements RunLife.                                          *)

\* What stands behind the life of a run: nothing has started before the launch, and a
\* recorded result is the last word of a worker that has ended its group, with a
\* divergence recorded in the session by the same transaction.
Known(r) ==
  /\ Status(r) \in {"absent", "pending", "claimed"} => ~row[r].started /\ ~row[r].child
  /\ row[r].sha => Status(r) \in TERMINAL /\ worker[r] = "gone" /\ ~GroupAlive(r)
  /\ row[r].sha /\ outcome[r] = "divergent" => blocked[row[r].session]

LifeKnown == \A r \in Runs : Known(r)

\* What a step makes of the life of one run, and of those it does not concern.
Advances(r) == LifeStatus(r)' = LifeStatus(r) \/ LifeStatus(r)' \in Life!Moves(LifeStatus(r))
OnlyAdvances(q) ==
  Advances(q) /\ \A r \in Runs : r # q => LifeStatus(r)' = LifeStatus(r)

\* A run that a step leaves alone keeps its life.
LEMMA SameLife ==
  ASSUME NEW r \in Runs, Known(r), SameRun(r), UNCHANGED blocked
  PROVE  Known(r)' /\ LifeStatus(r)' = LifeStatus(r)
BY DEF SameRun, Known, LifeStatus, Status, GroupAlive

\* What is read of one run in its life is enough to know what becomes of it.
LEMMA OneAdvances ==
  ASSUME LifeKnown, NEW q \in Runs, Known(q)', Advances(q), UNCHANGED blocked,
         \A r \in Runs : r # q => SameRun(r)
  PROVE  LifeKnown' /\ OnlyAdvances(q)
BY SameLife DEF LifeKnown, OnlyAdvances

\* run_worker: a claimed run lives, and what its worker commits is its end.
LEMMA WorkerLife ==
  ASSUME TypeOK, LifecycleInvariant, LifeKnown, NEW q \in Runs, WorkerStep(q)
  PROVE  LifeKnown' /\ OnlyAdvances(q)
<1> USE DEF Status, rest, host, files, Put, WorkerMoves, WorkerExits, WorkerEnds
<1>0. /\ row \in [Runs -> RowType] /\ worker \in [Runs -> WorkerPoints]
      /\ group \in [Runs -> GroupStates] /\ outcome \in [Runs -> Outcomes]
      /\ result \in [Runs -> {"none", "intact", "damaged"}]
      /\ reason \in [Runs -> Reasons] /\ blocked \in [Sessions -> BOOLEAN]
  BY DEF TypeOK
<1>a. Known(q)
  BY DEF LifeKnown
<1>b. RowOfWorker(q)
  BY DEF LifecycleInvariant, WorkersMatchRows
<1>c. row[q].sha => worker[q] = "gone"
  BY <1>a DEF Known
<1>1. ASSUME NEW n \in Namespaces, Claim(q, n) PROVE LifeKnown' /\ OnlyAdvances(q)
  <2>1. /\ Status(q) = "pending" /\ row'[q].status = "claimed" /\ row'[q].sha = row[q].sha
        /\ row'[q].started = row[q].started /\ row'[q].child = row[q].child
        /\ worker[q] = "spawned" /\ \A r \in Runs : r # q => SameRun(r)
    BY <1>0, <1>1 DEF Claim, RowType, SameRun
  <2>2. Known(q)' /\ Advances(q) /\ UNCHANGED blocked
    BY <1>1, <1>a, <1>c, <2>1 DEF Claim, Known, Advances, LifeStatus, Life!Moves, ACTIVE, TERMINAL
  <2> QED BY <2>1, <2>2, OneAdvances
<1>2. ASSUME ClaimRefused(q) PROVE LifeKnown' /\ OnlyAdvances(q)
  <2>1. /\ row' = row /\ outcome' = outcome /\ worker[q] = "spawned"
        /\ UNCHANGED blocked /\ \A r \in Runs : r # q => SameRun(r)
    BY <1>0, <1>2 DEF ClaimRefused, SameRun
  <2>2. Known(q)' /\ Advances(q)
    BY <1>a, <1>c, <2>1 DEF Known, Advances, LifeStatus
  <2> QED BY <2>1, <2>2, OneAdvances
<1>3. ASSUME Launch(q) PROVE LifeKnown' /\ OnlyAdvances(q)
  <2>1. /\ row'[q].status = "launching" /\ row'[q].sha = row[q].sha
        /\ worker[q] = "claimed" /\ UNCHANGED blocked /\ \A r \in Runs : r # q => SameRun(r)
    BY <1>0, <1>3 DEF Launch, RowType, SameRun
  <2>2. Status(q) = "claimed"
    BY <1>b, <2>1 DEF RowOfWorker
  <2>3. Known(q)' /\ Advances(q)
    BY <1>c, <2>1, <2>2 DEF Known, Advances, LifeStatus, ACTIVE, TERMINAL
  <2> QED BY <2>1, <2>3, OneAdvances
<1>4. ASSUME LaunchCancelled(q) PROVE LifeKnown' /\ OnlyAdvances(q)
  <2>1. /\ row'[q].status = "cancelled" /\ row'[q].sha = row[q].sha
        /\ row'[q].started = row[q].started /\ row'[q].child = row[q].child
        /\ worker[q] = "claimed" /\ UNCHANGED blocked /\ \A r \in Runs : r # q => SameRun(r)
    BY <1>0, <1>4 DEF LaunchCancelled, RowType, SameRun
  <2>2. Status(q) = "claimed"
    BY <1>b, <2>1 DEF RowOfWorker
  <2>3. Known(q)' /\ Advances(q)
    BY <1>a, <1>c, <2>1, <2>2 DEF Known, Advances, LifeStatus, Life!Moves, ACTIVE, TERMINAL
  <2> QED BY <2>1, <2>3, OneAdvances
<1>5. ASSUME WriteInvocation(q) \/ WatchSeesExit(q) PROVE LifeKnown' /\ OnlyAdvances(q)
  <2>1. /\ row' = row /\ outcome' = outcome /\ worker[q] # "gone"
        /\ UNCHANGED blocked /\ \A r \in Runs : r # q => SameRun(r)
    BY <1>0, <1>5 DEF WriteInvocation, WatchSeesExit, SameRun, tables
  <2>2. Known(q)' /\ Advances(q)
    BY <1>a, <1>c, <2>1 DEF Known, Advances, LifeStatus
  <2> QED BY <2>1, <2>2, OneAdvances
<1>6. ASSUME OpenWrapper(q) PROVE LifeKnown' /\ OnlyAdvances(q)
  <2>1. /\ row' = row /\ outcome' = outcome /\ worker[q] = "opening"
        /\ UNCHANGED blocked /\ \A r \in Runs : r # q => SameRun(r)
    BY <1>0, <1>6 DEF OpenWrapper, SameRun
  <2>2. Known(q)' /\ Advances(q)
    BY <1>a, <1>c, <2>1 DEF Known, Advances, LifeStatus
  <2> QED BY <2>1, <2>2, OneAdvances
<1>7. ASSUME NEW why \in {"cancel", "limit"}, WatchInterrupts(q, why)
      PROVE  LifeKnown' /\ OnlyAdvances(q)
  <2>1. /\ row'[q].status = "stopping" /\ row'[q].sha = row[q].sha
        /\ worker[q] = "watching" /\ UNCHANGED blocked /\ \A r \in Runs : r # q => SameRun(r)
    BY <1>0, <1>7 DEF WatchInterrupts, RowType, SameRun
  <2>2. Status(q) \in {"launching", "running"}
    BY <1>b, <2>1 DEF RowOfWorker
  <2>3. Known(q)' /\ Advances(q)
    BY <1>c, <2>1, <2>2 DEF Known, Advances, LifeStatus, ACTIVE, TERMINAL
  <2> QED BY <2>1, <2>3, OneAdvances
<1>8. ASSUME KillGroup(q) PROVE LifeKnown' /\ OnlyAdvances(q)
  <2>1. /\ row' = row /\ worker[q] = "killing"
        /\ UNCHANGED blocked /\ \A r \in Runs : r # q => SameRun(r)
    BY <1>0, <1>8 DEF KillGroup, GroupEnds, SameRun
  <2>2. Status(q) \in {"launching", "running", "stopping"}
    BY <1>b, <2>1 DEF RowOfWorker
  <2>3. Known(q)' /\ Advances(q)
    BY <1>c, <2>1, <2>2 DEF Known, Advances, LifeStatus, ACTIVE, TERMINAL
  <2> QED BY <2>1, <2>3, OneAdvances
<1>9. ASSUME Settle(q) PROVE LifeKnown' /\ OnlyAdvances(q)
  <2>1. /\ row' = row /\ outcome' = outcome /\ worker[q] = "settling"
        /\ UNCHANGED blocked /\ \A r \in Runs : r # q => SameRun(r)
    BY <1>0, <1>9 DEF Settle, SameRun, tables
  <2>2. Known(q)' /\ Advances(q)
    BY <1>a, <1>c, <2>1 DEF Known, Advances, LifeStatus
  <2> QED BY <2>1, <2>2, OneAdvances
<1>10. ASSUME CommitResult(q) PROVE LifeKnown' /\ OnlyAdvances(q)
  <2>1. /\ row'[q].status = Verdict(q) /\ row'[q].sha /\ row'[q].child = row[q].child
        /\ row'[q].started = row[q].started /\ row'[q].session = row[q].session
        /\ worker[q] = "writing" /\ worker'[q] = "gone" /\ group' = group /\ outcome' = outcome
        /\ \A r \in Runs : r # q => SameRun(r)
    BY <1>0, <1>10 DEF CommitResult, RowType, SameRun
  <2>2. Status(q) \in {"launching", "running", "stopping"} /\ group[q] = "dead"
    BY <1>b, <2>1 DEF RowOfWorker
  <2>3. Verdict(q) \in {"completed", "cancelled", "failed"}
    BY DEF Verdict
  <2>4. /\ \A s \in Sessions : blocked[s] => blocked'[s]
        /\ outcome[q] = "divergent" => blocked'[row[q].session]
    <3>1. row[q].session \in Sessions
      BY <2>2 DEF LifecycleInvariant, RowsInOrder
    <3> QED BY <1>0, <1>10, <3>1 DEF CommitResult
  <2>5. Known(q)'
    BY <2>1, <2>2, <2>3, <2>4 DEF Known, TERMINAL, GroupAlive
  <2>6. Advances(q)
    BY <2>1, <2>2, <2>3 DEF Advances, LifeStatus, Life!Moves, ACTIVE, TERMINAL
  <2>7. ASSUME NEW r \in Runs, r # q PROVE Known(r)' /\ LifeStatus(r)' = LifeStatus(r)
    <3>1. Known(r) /\ SameRun(r)
      BY <2>1, <2>7 DEF LifeKnown
    <3>2. row[r].sha => row[r].session \in Sessions
      BY <3>1 DEF Known, LifecycleInvariant, RowsInOrder, TERMINAL
    <3> QED BY <2>4, <3>1, <3>2 DEF SameRun, Known, LifeStatus, GroupAlive
  <2> QED BY <2>5, <2>6, <2>7 DEF LifeKnown, OnlyAdvances
<1>11. ASSUME HandlerCleans(q) PROVE LifeKnown' /\ OnlyAdvances(q)
  <2>1. /\ row'[q].status = "failed" /\ row'[q].sha = row[q].sha
        /\ row'[q].child = row[q].child /\ row'[q].started = row[q].started
        /\ worker[q] = "failing" /\ UNCHANGED blocked
        /\ \A r \in Runs : r # q => row'[r] = row[r] /\ worker'[r] = worker[r]
                                    /\ result'[r] = result[r]
    BY <1>0, <1>11 DEF HandlerCleans, RowType
  <2>2. \A r \in Runs : r # q => group'[r] = group[r] /\ outcome'[r] = outcome[r]
    BY <1>0, <1>11 DEF HandlerCleans, GroupEnds
  <2>3. Status(q) \in {"claimed", "launching", "running", "stopping"}
    BY <1>b, <2>1 DEF RowOfWorker
  <2>4. Known(q)' /\ Advances(q)
    BY <1>a, <1>c, <2>1, <2>3 DEF Known, Advances, LifeStatus, Life!Moves, ACTIVE, TERMINAL
  <2>5. \A r \in Runs : r # q => SameRun(r)
    BY <2>1, <2>2 DEF SameRun
  <2> QED BY <2>1, <2>4, <2>5, OneAdvances
<1>12. ASSUME HandlerQuarantines(q) PROVE LifeKnown' /\ OnlyAdvances(q)
  <2>1. /\ row'[q].status = "unknown" /\ row'[q].sha = row[q].sha
        /\ worker[q] = "failing" /\ UNCHANGED blocked /\ \A r \in Runs : r # q => SameRun(r)
    BY <1>0, <1>12 DEF HandlerQuarantines, RowType, SameRun
  <2>2. Status(q) \in {"claimed", "launching", "running", "stopping"}
    BY <1>b, <2>1 DEF RowOfWorker
  <2>3. Known(q)' /\ Advances(q)
    BY <1>c, <2>1, <2>2 DEF Known, Advances, LifeStatus, Life!Moves, ACTIVE, TERMINAL
  <2> QED BY <2>1, <2>3, OneAdvances
<1> QED
  BY <1>1, <1>2, <1>3, <1>4, <1>5, <1>6, <1>7, <1>8, <1>9, <1>10, <1>11, <1>12 DEF WorkerStep

\* exec_claude: an execution is recorded, begins and ends while its run lives.
LEMMA ChildLife ==
  ASSUME TypeOK, LifecycleInvariant, LifeKnown, NEW q \in Runs, ChildStep(q)
  PROVE  LifeKnown' /\ OnlyAdvances(q)
<1> USE DEF Status, rest, host, files, Put
<1>0. /\ row \in [Runs -> RowType] /\ group \in [Runs -> GroupStates]
      /\ outcome \in [Runs -> Outcomes]
  BY DEF TypeOK
<1>a. Known(q)
  BY DEF LifeKnown
<1>1. ASSUME WrapperRecords(q) PROVE LifeKnown' /\ OnlyAdvances(q)
  <2>1. /\ Status(q) = "launching" /\ row'[q].status = "running" /\ row'[q].sha = row[q].sha
        /\ UNCHANGED blocked /\ \A r \in Runs : r # q => SameRun(r)
    BY <1>0, <1>1 DEF WrapperRecords, MayExecute, RowType, SameRun
  <2>2. Known(q)' /\ Advances(q)
    BY <1>a, <2>1 DEF Known, Advances, LifeStatus, ACTIVE, TERMINAL
  <2> QED BY <2>1, <2>2, OneAdvances
<1>2. ASSUME WrapperRefuses(q) \/ WrapperAborts(q) PROVE LifeKnown' /\ OnlyAdvances(q)
  <2>1. /\ row'[q].status = row[q].status /\ row'[q].sha = row[q].sha
        /\ row'[q].child = row[q].child /\ row'[q].started = row[q].started
        /\ row'[q].session = row[q].session /\ UNCHANGED <<blocked, worker, outcome>>
        /\ group'[q] = "dead" /\ \A r \in Runs : r # q => SameRun(r)
    BY <1>0, <1>2 DEF WrapperRefuses, WrapperAborts, RowType, SameRun
  <2>2. Known(q)' /\ Advances(q)
    BY <1>a, <2>1 DEF Known, Advances, LifeStatus, GroupAlive
  <2> QED BY <2>1, <2>2, OneAdvances
<1>3. ASSUME Exec(q) PROVE LifeKnown' /\ OnlyAdvances(q)
  <2>1. /\ row' = row /\ UNCHANGED <<blocked, worker, outcome>> /\ group[q] = "armed"
        /\ \A r \in Runs : r # q => SameRun(r)
    BY <1>0, <1>3 DEF Exec, SameRun
  <2>2. Known(q)' /\ Advances(q)
    BY <1>a, <2>1 DEF Known, Advances, LifeStatus, GroupAlive
  <2> QED BY <2>1, <2>2, OneAdvances
<1>4. ASSUME NEW o \in {"success", "error", "divergent"}, NEW left \in {"residue", "dead"},
             ClaudeExits(q, o, left)
      PROVE  LifeKnown' /\ OnlyAdvances(q)
  <2>1. /\ row' = row /\ UNCHANGED <<blocked, worker>> /\ group[q] = "claude"
        /\ \A r \in Runs : r # q => SameRun(r)
    BY <1>0, <1>4 DEF ClaudeExits, SameRun
  <2>2. Status(q) \in {"running", "stopping", "unknown"}
    BY <2>1 DEF LifecycleInvariant, ExecutionsRecorded, Executing
  <2>3. Known(q)' /\ Advances(q)
    BY <1>a, <2>1, <2>2 DEF Known, Advances, LifeStatus, GroupAlive, ACTIVE
  <2> QED BY <2>1, <2>3, OneAdvances
<1> QED BY <1>1, <1>2, <1>3, <1>4 DEF ChildStep

\* Steps that change nothing but processes and files, and no stream of a run that has ended.
LEMMA QuietLife ==
  ASSUME LifeKnown, UNCHANGED <<row, blocked>>,
         \A r \in Runs : /\ ~row[r].sha \/ UNCHANGED outcome[r]
                         /\ outcome'[r] = outcome[r] \/ Status(r) \in ACTIVE
                         /\ worker[r] = "gone" => worker'[r] = "gone"
                         /\ GroupAlive(r)' => GroupAlive(r)
  PROVE  LifeKnown' /\ \A r \in Runs : LifeStatus(r)' = LifeStatus(r)
<1> SUFFICES ASSUME NEW r \in Runs PROVE Known(r)' /\ LifeStatus(r)' = LifeStatus(r)
  BY DEF LifeKnown
<1>1. Known(r)
  BY DEF LifeKnown
<1>2. CASE outcome'[r] = outcome[r]
  BY <1>1, <1>2 DEF Known, LifeStatus, Status
<1>3. CASE Status(r) \in ACTIVE
  BY <1>1, <1>3 DEF Known, LifeStatus, Status, ACTIVE, TERMINAL
<1> QED BY <1>2, <1>3

\* Deadlines, crashes, signals, a lost file and a reboot decide about no run by themselves.
LEMMA EnvironmentLife ==
  ASSUME TypeOK, LifecycleInvariant, LifeKnown, Environment
  PROVE  LifeKnown' /\ \A r \in Runs : LifeStatus(r)' = LifeStatus(r)
<1> USE DEF Status, rest, host, files, procs, Put
<1>0. /\ row \in [Runs -> RowType] /\ worker \in [Runs -> WorkerPoints]
      /\ group \in [Runs -> GroupStates] /\ outcome \in [Runs -> Outcomes] /\ nrun \in Nat
  BY DEF TypeOK
<1>a. \A r \in Runs : row[r].sha => ~GroupAlive(r)
  BY DEF LifeKnown, Known
<1>1. ASSUME NEW q \in Runs, DeadlinePasses(q)
      PROVE  LifeKnown' /\ \A r \in Runs : LifeStatus(r)' = LifeStatus(r)
  <2>1. /\ UNCHANGED <<blocked, worker, group, outcome>>
        /\ \A r \in Runs : /\ row'[r].status = row[r].status /\ row'[r].sha = row[r].sha
                           /\ row'[r].child = row[r].child /\ row'[r].started = row[r].started
                           /\ row'[r].session = row[r].session
    BY <1>0, <1>1 DEF DeadlinePasses, RowType
  <2> QED BY <2>1 DEF LifeKnown, Known, LifeStatus, GroupAlive
<1>2. ASSUME NEW q \in Runs,
             WorkerFails(q) \/ WorkerSignalled(q) \/ WorkerCrashes(q)
      PROVE  LifeKnown' /\ \A r \in Runs : LifeStatus(r)' = LifeStatus(r)
  <2>1. UNCHANGED <<row, blocked, group, outcome>>
    BY <1>2 DEF WorkerFails, WorkerSignalled, WorkerCrashes
  <2>2. \A r \in Runs : worker[r] = "gone" => worker'[r] = "gone"
    BY <1>0, <1>2 DEF WorkerFails, WorkerSignalled, WorkerCrashes, WorkerEnds
  <2>3. \A r \in Runs : GroupAlive(r)' => GroupAlive(r)
    BY <2>1 DEF GroupAlive
  <2> QED BY <2>1, <2>2, <2>3, QuietLife
<1>3. ASSUME NEW q \in Runs, GroupDies(q)
      PROVE  LifeKnown' /\ \A r \in Runs : LifeStatus(r)' = LifeStatus(r)
  <2>1. UNCHANGED <<row, blocked, worker>> /\ GroupAlive(q)
    BY <1>3 DEF GroupDies
  <2>2. \A r \in Runs : /\ GroupAlive(r)' => GroupAlive(r)
                        /\ outcome'[r] = outcome[r] \/ (r = q /\ group[q] = "claude")
    BY <1>0, <1>3 DEF GroupDies, GroupEnds, GroupAlive
  <2>3. group[q] = "claude" => Status(q) \in ACTIVE
    BY DEF LifecycleInvariant, ExecutionsRecorded, Executing, ACTIVE
  <2>4. ~row[q].sha
    BY <1>a, <2>1
  <2> QED BY <2>1, <2>2, <2>3, <2>4, QuietLife
<1>4. ASSUME UpgradeBinary \/ \E q \in Runs : ResultDamaged(q) \/ ReconcilerDies(q)
      PROVE  LifeKnown' /\ \A r \in Runs : LifeStatus(r)' = LifeStatus(r)
  <2>1. UNCHANGED <<row, blocked, worker, group, outcome>>
    BY <1>4 DEF UpgradeBinary, ResultDamaged, ReconcilerDies, tables
  <2> QED BY <2>1, QuietLife DEF GroupAlive
<1>5. ASSUME Reboot
      PROVE  LifeKnown' /\ \A r \in Runs : LifeStatus(r)' = LifeStatus(r)
  <2>1. UNCHANGED <<row, blocked, outcome>>
    BY <1>5 DEF Reboot, tables
  <2>2. \A r \in Runs : /\ worker[r] = "gone" => worker'[r] = "gone"
                        /\ GroupAlive(r)' => GroupAlive(r)
    BY <1>0, <1>5 DEF Reboot, GroupAlive
  <2> QED BY <2>1, <2>2, QuietLife
<1> QED BY <1>1, <1>2, <1>3, <1>4, <1>5 DEF Environment

\* Client calls on existing runs: a run nobody claimed ends unstarted, a damaged result
\* fails, and whoever reconciles ends what was in doubt.
LEMMA ClientCallLife ==
  ASSUME TypeOK, LifecycleInvariant, EvidenceInvariant, LifeKnown, NEW q \in Runs,
         \/ Spawn(q) \/ SpawnFails(q) \/ GetRun(q) \/ Stop(q) \/ ReconcileCommit(q)
         \/ \E n \in Namespaces : ReconcileCheck(q, n)
  PROVE  LifeKnown' /\ OnlyAdvances(q)
<1> USE DEF Status, rest, host, files, procs, Put
<1>0. row \in [Runs -> RowType] /\ worker \in [Runs -> WorkerPoints]
  BY DEF TypeOK
<1>a. Known(q) /\ Evidence(q)
  BY DEF LifeKnown, EvidenceInvariant
<1>1. CASE Spawn(q)
  <2>1. /\ row' = row /\ UNCHANGED <<blocked, group, outcome>> /\ worker[q] = "none"
        /\ \A r \in Runs : r # q => SameRun(r)
    BY <1>0, <1>1 DEF Spawn, SameRun
  <2>2. Known(q)' /\ Advances(q)
    BY <1>a, <2>1 DEF Known, Advances, LifeStatus, GroupAlive
  <2> QED BY <2>1, <2>2, OneAdvances
<1>2. CASE SpawnFails(q)
  <2>1. /\ row'[q].status = (IF Status(q) = "pending" THEN "launch_failed" ELSE Status(q))
        /\ row'[q].sha = row[q].sha /\ row'[q].child = row[q].child
        /\ row'[q].started = row[q].started /\ row'[q].session = row[q].session
        /\ UNCHANGED <<blocked, group, outcome>> /\ worker[q] = "none"
        /\ \A r \in Runs : r # q => SameRun(r)
    BY <1>0, <1>2 DEF SpawnFails, SameRun, RowType
  <2>2. Known(q)' /\ Advances(q)
    BY <1>a, <2>1 DEF Known, Advances, LifeStatus, Life!Moves, GroupAlive, ACTIVE, TERMINAL
  <2> QED BY <2>1, <2>2, OneAdvances
<1>3. CASE GetRun(q)
  <2>1. /\ Status(q) = "completed" /\ row'[q].status = "failed"
        /\ row'[q].sha = row[q].sha /\ row'[q].child = row[q].child
        /\ row'[q].session = row[q].session
        /\ UNCHANGED <<blocked, worker, group, outcome>>
        /\ \A r \in Runs : r # q => SameRun(r)
    BY <1>0, <1>3 DEF GetRun, SameRun, RowType
  <2>2. Known(q)' /\ Advances(q)
    BY <1>a, <2>1 DEF Known, Evidence, Advances, LifeStatus, Life!Moves, GroupAlive, ACTIVE, TERMINAL
  <2> QED BY <2>1, <2>2, OneAdvances
<1>4. CASE Stop(q)
  <2> DEFINE to == IF Status(q) = "pending" THEN "cancelled" ELSE Status(q)
  <2>a. row' = [row EXCEPT ![q] = [row[q] EXCEPT !.cancel = TRUE, !.status = to]]
    BY <1>4, Zenon DEF Stop
  <2>b. to = IF Status(q) = "pending" THEN "cancelled" ELSE Status(q)
    OBVIOUS
  <2> HIDE DEF to
  <2>0. /\ row' = [row EXCEPT ![q] = [row[q] EXCEPT !.cancel = TRUE, !.status = to]]
        /\ to = IF Status(q) = "pending" THEN "cancelled" ELSE Status(q)
    BY <2>a, <2>b, Zenon
  <2>1. /\ row'[q].status = to /\ row'[q].sha = row[q].sha /\ row'[q].child = row[q].child
        /\ row'[q].started = row[q].started /\ row'[q].session = row[q].session
        /\ \A r \in Runs : r # q => row'[r] = row[r]
    BY <1>0, <2>0 DEF RowType
  <2>2. UNCHANGED <<blocked, worker, group, outcome, result>>
    <3>1. UNCHANGED <<rest, procs>>
      BY <1>4, Zenon DEF Stop
    <3> QED BY <3>1
  <2>3. Known(q)' /\ Advances(q)
    BY <1>a, <2>0, <2>1, <2>2
       DEF Known, Advances, LifeStatus, Life!Moves, GroupAlive, ACTIVE, TERMINAL
  <2> QED BY <2>1, <2>2, <2>3, OneAdvances DEF SameRun
<1>5. CASE ReconcileCommit(q)
  <2>1. /\ row'[q].status = (IF Status(q) = "unknown" THEN "interrupted" ELSE Status(q))
        /\ row'[q].sha = row[q].sha /\ row'[q].child = row[q].child
        /\ row'[q].started = row[q].started /\ row'[q].session = row[q].session
        /\ UNCHANGED <<blocked, worker, group, outcome>>
        /\ \A r \in Runs : r # q => SameRun(r)
    BY <1>0, <1>5 DEF ReconcileCommit, SameRun, RowType
  <2>2. Known(q)' /\ Advances(q)
    BY <1>a, <2>1 DEF Known, Advances, LifeStatus, Life!Moves, GroupAlive, ACTIVE, TERMINAL
  <2> QED BY <2>1, <2>2, OneAdvances
<1>6. CASE \E n \in Namespaces : ReconcileCheck(q, n)
  <2>1. UNCHANGED <<row, blocked, worker, group, outcome, result>>
    BY <1>6 DEF ReconcileCheck, tables
  <2>2. Known(q)' /\ Advances(q)
    BY <1>a, <2>1 DEF Known, Advances, LifeStatus, GroupAlive
  <2> QED BY <2>1, <2>2, OneAdvances DEF SameRun
<1> QED BY <1>1, <1>2, <1>3, <1>4, <1>5, <1>6

\* The status of a run is active exactly as long as its row is, and only the end of a turn
\* that never began is "unstarted".
LEMMA LifeReads ==
  ASSUME TypeOK, NEW r \in Runs
  PROVE  /\ LifeStatus(r) \in Life!ActiveStatuses <=> Status(r) \in ACTIVE
         /\ LifeStatus(r) = "unstarted" => ~row[r].started
         /\ LifeStatus(r) = "divergent" => row[r].sha /\ outcome[r] = "divergent"
         /\ LifeStatus(r) = "completed" <=> Status(r) = "completed"
         /\ Status(r) \in TERMINAL \ {"completed"} /\ ~row[r].child =>
              LifeStatus(r) \in Life!NeverExecuted
<1>1. Status(r) \in Statuses
  BY DEF TypeOK, RowType, Status
<1> QED
  BY <1>1 DEF LifeStatus, Life!ActiveStatuses, Life!NeverExecuted, Statuses, ACTIVE, TERMINAL

\* The instance has a FiniteSets of its own.
LEMMA SameLifeCardinality ==
  ASSUME NEW S
  PROVE  Life!Cardinality(S) = Cardinality(S)
BY DEF Life!Cardinality, Cardinality

\* What the life of a run reads of another one of its session (context of a follow-up).
LEMMA FreeSession ==
  ASSUME TypeOK, LifecycleInvariant, LifeKnown, NEW s \in Sessions, HasCapacity,
         \A q \in Turns(s) : Status(q) \in TERMINAL, Turns(s) = {} \/ ~blocked[s]
  PROVE  Life!Free(s) /\ Life!Turns(s) = Turns(s)
<1>1. Life!Turns(s) = Turns(s)
  BY DEF Life!Turns, Life!Runs, Turns, Runs
<1>2. ASSUME NEW q \in Turns(s)
      PROVE  LifeStatus(q) \notin Life!ActiveStatuses \union {"divergent"}
  <2>1. q \in Runs /\ Status(q) \in TERMINAL /\ row[q].session = s /\ ~blocked[s]
    BY <1>2 DEF Turns
  <2>2. ~(row[q].sha /\ outcome[q] = "divergent")
    BY <2>1 DEF LifeKnown, Known
  <2> QED BY <2>1, <2>2, LifeReads DEF ACTIVE, TERMINAL
<1>3. Life!ActiveTurns = ActiveRuns
  BY LifeReads DEF Life!ActiveTurns, Life!Runs, ActiveRuns, Runs
<1>4. Cardinality(ActiveRuns) < MaxLimit
  BY ActiveFinite, BoundAssumption DEF HasCapacity, TypeOK
<1>5. Life!Cardinality(Life!ActiveTurns) < MaxLimit
  BY <1>3, <1>4, SameLifeCardinality
<1>6. \A q \in Life!Turns(s) :
        [r \in Runs |-> LifeStatus(r)][q] \notin Life!ActiveStatuses \union {"divergent"}
  BY <1>1, <1>2 DEF Turns
<1> QED BY <1>1, <1>5, <1>6 DEF Life!Free

\* reserve_in: a new run begins its life, and a damaged one of its session may have failed.
LEMMA ReserveLife ==
  ASSUME TypeOK, LifecycleInvariant, EvidenceInvariant, LifeKnown, NEW s \in Sessions,
         NEW b, NEW resume, NEW table, InsertRun(table, s, b, resume),
         table = row \/ \E last \in Turns(s) : table = Verified(last),
         \A q \in Turns(s) : Status(q) \in TERMINAL, Turns(s) = {} \/ ~blocked[s]
  PROVE  LifeKnown' /\ Life!Reserve(s, b, resume)
<1> DEFINE failing == {r \in Turns(s) : Status(r) = "completed" /\ table[r] # row[r]}
<1>0. PICK new \in Runs : new = nrun + 1
  BY BoundAssumption DEF InsertRun, Runs, TypeOK
<1>d. PICK damaged \in SUBSET Runs : damaged = failing
  BY DEF Turns
<1>1. /\ nrun \in Nat /\ row \in [Runs -> RowType] /\ nrun < MaxRuns
      /\ nrun' = new /\ UNCHANGED <<blocked, worker, group, outcome>> /\ HasCapacity
  BY <1>0 DEF InsertRun, TypeOK, procs
<1>2. /\ table \in [Runs -> RowType]
      /\ \A r \in Runs : /\ table[r].child = row[r].child /\ table[r].sha = row[r].sha
                         /\ table[r].started = row[r].started
                         /\ table[r].session = row[r].session
                         /\ table[r].backend = row[r].backend
                         /\ table[r].resume = row[r].resume
                         /\ \/ table[r] = row[r]
                            \/ r \in damaged /\ table[r].status = "failed"
  <2>1. CASE table = row
    BY <1>1, <2>1
  <2>2. CASE \E last \in Turns(s) : table = Verified(last)
    <3>1. PICK last \in Turns(s) : table = Verified(last)
      BY <2>2
    <3>2. last \in Runs /\ Verified(last) \in [Runs -> RowType]
      BY <3>1, VerifiedType DEF Turns
    <3>3. CASE Verified(last) = row
      BY <1>1, <3>1, <3>3
    <3>4. CASE /\ Status(last) = "completed"
               /\ Verified(last) = [row EXCEPT ![last] = [row[last] EXCEPT !.status = "failed"]]
      <4>1. /\ table[last].status = "failed" /\ table[last] # row[last]
            /\ table[last].child = row[last].child /\ table[last].sha = row[last].sha
            /\ table[last].started = row[last].started
            /\ table[last].session = row[last].session
            /\ table[last].backend = row[last].backend /\ table[last].resume = row[last].resume
            /\ \A r \in Runs : r # last => table[r] = row[r]
        BY <1>1, <3>1, <3>2, <3>4 DEF RowType, Status
      <4> QED BY <1>d, <3>1, <3>2, <3>4, <4>1
    <3> QED BY <3>3, <3>4 DEF Verified
  <2> QED BY <2>1, <2>2
<1>3. /\ row'[new] = FreshRow(s, b, resume)
      /\ \A r \in Runs : r # new => row'[r] = table[r]
  BY <1>0, <1>1, <1>2 DEF InsertRun
<1>4. Status(new) = "absent" /\ row[new] = NoRow
  BY <1>0, <1>1 DEF LifecycleInvariant, RowsInOrder
<1>5. Known(new)' /\ LifeStatus(new)' = "pending"
  BY <1>3 DEF Known, LifeStatus, Status, FreshRow
<1>6. ASSUME NEW r \in Runs, r # new
      PROVE  /\ Known(r)'
             /\ LifeStatus(r)' = IF r \in damaged THEN "failed" ELSE LifeStatus(r)
  <2>1. Known(r) /\ Evidence(r)
    BY DEF LifeKnown, EvidenceInvariant
  <2>2. CASE table[r] = row[r]
    <3>1. row'[r] = row[r] /\ r \notin damaged
      BY <1>d, <1>3, <1>6, <2>2
    <3> QED BY <1>1, <2>1, <3>1 DEF Known, LifeStatus, Status, GroupAlive
  <2>3. CASE r \in damaged /\ table[r].status = "failed"
    <3>1. Status(r) = "completed"
      BY <1>d, <2>3
    <3>2. /\ row'[r].status = "failed" /\ row'[r].child /\ row'[r].sha = row[r].sha
          /\ row'[r].session = row[r].session /\ outcome'[r] = "success"
      BY <1>1, <1>2, <1>3, <1>6, <2>1, <2>3, <3>1 DEF Evidence
    <3> QED BY <1>1, <2>1, <2>3, <3>2 DEF Known, LifeStatus, Status, GroupAlive, ACTIVE, TERMINAL
  <2> QED BY <1>2, <2>2, <2>3
<1>7. LifeKnown'
  BY <1>5, <1>6 DEF LifeKnown
<1>8. Life!Free(s) /\ Life!Turns(s) = Turns(s)
  BY <1>1, FreeSession
<1>9. [r \in Runs |-> [session |-> row'[r].session, backend |-> row'[r].backend,
                       resume |-> row'[r].resume]] =
        [[r \in Runs |-> [session |-> row[r].session, backend |-> row[r].backend,
                          resume |-> row[r].resume]]
           EXCEPT ![new] = [session |-> s, backend |-> b, resume |-> resume]]
  <2>1. row'[new].session = s /\ row'[new].backend = b /\ row'[new].resume = resume
    BY <1>3 DEF FreshRow
  <2>2. \A r \in Runs : r # new => /\ row'[r].session = row[r].session
                                   /\ row'[r].backend = row[r].backend
                                   /\ row'[r].resume = row[r].resume
    BY <1>2, <1>3
  <2> QED BY <1>1, <2>1, <2>2
<1>10. /\ damaged \in SUBSET {r \in Turns(s) : [q \in Runs |-> LifeStatus(q)][r] = "completed"}
       /\ [r \in Runs |-> LifeStatus(r)'] =
            [r \in Runs |-> IF r = new THEN "pending"
                            ELSE IF r \in damaged THEN "failed" ELSE [q \in Runs |-> LifeStatus(q)][r]]
  <2>1. ASSUME NEW r \in damaged PROVE r \in Runs /\ LifeStatus(r) = "completed"
    BY <1>d, <2>1, LifeReads DEF Turns
  <2> QED BY <1>d, <1>5, <1>6, <2>1
<1>11. \E lost \in SUBSET {r \in Life!Turns(s) : [q \in Runs |-> LifeStatus(q)][r] = "completed"} :
         [r \in Runs |-> LifeStatus(r)'] =
           [r \in Life!Runs |-> IF r = nrun + 1 THEN "pending"
                                ELSE IF r \in lost THEN "failed" ELSE [q \in Runs |-> LifeStatus(q)][r]]
  <2>1. Life!Runs = Runs
    BY DEF Life!Runs, Runs
  <2> QED BY <1>0, <1>8, <1>10, <2>1
<1>12. nrun < MaxRuns /\ Life!Free(s) /\ nrun' = nrun + 1
  BY <1>0, <1>1, <1>8
<1>13. Life!Reserve(s, b, resume)
  BY <1>0, <1>9, <1>11, <1>12, Zenon DEF Life!Reserve
<1> QED BY <1>7, <1>13

\* start, restart, followup and the repetition of a turn that did not execute.
LEMMA ReservationLife ==
  ASSUME TypeOK, LifecycleInvariant, EvidenceInvariant, LifeKnown, NEW s \in Sessions,
         Start(s) \/ Restart(s) \/ ResumeUnstarted(s) \/ \E ack \in BOOLEAN : Followup(s, ack)
  PROVE  LifeKnown' /\ (Life!Begin(s) \/ Life!Resume(s) \/ Life!Repeat(s))
<1>1. CASE Start(s)
  <2>1. Turns(s) = {} /\ InsertRun(row, s, nrun + 1, FALSE)
    BY <1>1 DEF Start, LifecycleInvariant, BackendsOwned
  <2>2. LifeKnown' /\ Life!Reserve(s, nrun + 1, FALSE)
    BY <2>1, ReserveLife
  <2> QED BY <1>1, <2>2 DEF Start, Life!Begin
<1>2. CASE Restart(s)
  <2>1. PICK last \in Runs : /\ ContextSettled(s, last, TRUE)
                             /\ InsertRun(Verified(last), s, nrun + 1, FALSE)
    BY <1>2 DEF Restart
  <2>2. last \in Turns(s) /\ ~blocked[s] /\ \A q \in Turns(s) : Status(q) \in TERMINAL
    BY <2>1, TurnsEnded DEF ContextSettled, IsLatest
  <2>3. LifeKnown' /\ Life!Reserve(s, nrun + 1, FALSE)
    BY <2>1, <2>2, ReserveLife
  <2> QED BY <1>2, <2>3 DEF Restart, Life!Begin
<1>3. CASE ResumeUnstarted(s)
  <2>1. PICK last \in Runs : /\ ContextSettled(s, last, TRUE) /\ BackendUnstarted(s, backend[s])
                             /\ InsertRun(Verified(last), s, backend[s], FALSE)
    BY <1>3 DEF ResumeUnstarted
  <2>2. last \in Turns(s) /\ ~blocked[s] /\ \A q \in Turns(s) : Status(q) \in TERMINAL
    BY <2>1, TurnsEnded DEF ContextSettled, IsLatest
  <2>3. LifeKnown' /\ Life!Reserve(s, backend[s], FALSE)
    BY <2>1, <2>2, ReserveLife
  <2>4. /\ \E r \in Turns(s) : row[r].backend = backend[s]
        /\ \A r \in Turns(s) : row[r].backend = backend[s] => LifeStatus(r) \in Life!NeverExecuted
    BY <2>1, LifeReads DEF BackendUnstarted, Turns, TERMINAL
  <2>5. Life!Turns(s) = Turns(s) /\ Turns(s) \subseteq Runs
    BY DEF Life!Turns, Life!Runs, Turns, Runs
  <2>6. backend' = backend
    BY <1>3 DEF ResumeUnstarted
  <2> QED BY <2>3, <2>4, <2>5, <2>6 DEF Life!Repeat
<1>4. CASE \E ack \in BOOLEAN : Followup(s, ack)
  <2>1. PICK ack \in BOOLEAN, last \in Runs :
           /\ ContextSettled(s, last, ack) /\ ResumeBinaryKnown(s)
           /\ InsertRun(Verified(last), s, backend[s], TRUE)
    BY <1>4 DEF Followup
  <2>2. last \in Turns(s) /\ ~blocked[s] /\ \A q \in Turns(s) : Status(q) \in TERMINAL
    BY <2>1, TurnsEnded DEF ContextSettled, IsLatest
  <2>3. LifeKnown' /\ Life!Reserve(s, backend[s], TRUE)
    BY <2>1, <2>2, ReserveLife
  <2>4. \E r \in Turns(s) : LifeStatus(r) # "unstarted"
    BY <2>1, LifeReads DEF ResumeBinaryKnown, Turns
  <2>5. Life!Turns(s) = Turns(s) /\ Turns(s) \subseteq Runs
    BY DEF Life!Turns, Life!Runs, Turns, Runs
  <2>6. backend' = backend
    BY <1>4 DEF Followup
  <2> QED BY <2>3, <2>4, <2>5, <2>6 DEF Life!Resume
<1> QED BY <1>1, <1>2, <1>3, <1>4

\* refresh: what nobody claimed ends unstarted, and so does what died before its launch;
\* what died later is in doubt.
LEMMA RefreshLife ==
  ASSUME TypeOK, LifeKnown, NEW n \in Namespaces, Refresh(n)
  PROVE  LifeKnown' /\ Life!Refresh
<1> DEFINE late == {r \in Runs : LaunchExpired(r)}
           dead == {r \in Runs : ~LaunchExpired(r) /\ Orphaned(r, n) /\ Status(r) = "claimed"}
           doubtful == {r \in Runs : ~LaunchExpired(r) /\ Orphaned(r, n) /\ Status(r) # "claimed"}
<1>0. row \in [Runs -> RowType]
  BY DEF TypeOK
<1>1. /\ UNCHANGED <<nrun, backend, blocked, worker, group, outcome>>
      /\ \A r \in Runs : row'[r] = Refreshed(r, n)
  BY DEF Refresh, rest, procs
<1>2. ASSUME NEW r \in Runs
      PROVE  /\ row'[r].status = IF r \in late \union dead THEN "launch_failed"
                                 ELSE IF r \in doubtful THEN "unknown" ELSE Status(r)
             /\ row'[r].session = row[r].session /\ row'[r].backend = row[r].backend
             /\ row'[r].resume = row[r].resume /\ row'[r].started = row[r].started
             /\ row'[r].child = row[r].child /\ row'[r].sha = row[r].sha
  <2>1. row[r] \in RowType
    BY <1>0
  <2>2. CASE LaunchExpired(r)
    <3>1. row'[r] = [row[r] EXCEPT !.status = "launch_failed"] /\ r \in late
      BY <1>1, <2>2 DEF Refreshed, LaunchExpired, Orphaned
    <3> HIDE DEF late
    <3> QED BY <2>1, <3>1 DEF RowType
  <2>3. CASE ~LaunchExpired(r) /\ Orphaned(r, n) /\ Status(r) = "claimed"
    <3>1. row'[r] = [row[r] EXCEPT !.status = "launch_failed"] /\ r \in dead
      BY <1>1, <2>3 DEF Refreshed
    <3> HIDE DEF dead
    <3> QED BY <2>1, <3>1 DEF RowType
  <2>4. CASE ~LaunchExpired(r) /\ Orphaned(r, n) /\ Status(r) # "claimed"
    <3>1. row'[r] = [row[r] EXCEPT !.status = "unknown"]
      BY <1>1, <2>4 DEF Refreshed
    <3>2. r \notin late \union dead /\ r \in doubtful
      BY <2>4
    <3> HIDE DEF late, dead, doubtful
    <3> QED BY <2>1, <3>1, <3>2 DEF RowType
  <2>5. CASE ~LaunchExpired(r) /\ ~Orphaned(r, n)
    <3>1. row'[r] = row[r]
      BY <1>1, <2>5 DEF Refreshed
    <3>2. r \notin late \union dead /\ r \notin doubtful
      BY <2>5
    <3> HIDE DEF late, dead, doubtful
    <3> QED BY <3>1, <3>2 DEF Status
  <2> QED BY <2>2, <2>3, <2>4, <2>5
<1>3. /\ \A r \in late : Status(r) = "pending"
      /\ \A r \in dead : Status(r) = "claimed"
      /\ \A r \in doubtful : Status(r) \in {"launching", "running", "stopping"}
      /\ late \in SUBSET Runs /\ dead \in SUBSET Runs /\ doubtful \in SUBSET Runs
  BY DEF LaunchExpired, Orphaned, ACTIVE
<1> HIDE DEF late, dead, doubtful
<1>4. ASSUME NEW r \in Runs
      PROVE  /\ Known(r)'
             /\ LifeStatus(r)' = IF r \in late \union dead THEN "unstarted"
                                 ELSE IF r \in doubtful THEN "unknown" ELSE LifeStatus(r)
             /\ r \in late => LifeStatus(r) = "pending"
             /\ r \in dead \union doubtful => LifeStatus(r) = "live"
  <2>1. Known(r)
    BY DEF LifeKnown
  <2>2. CASE r \in late \union dead
    <3>1. Status(r) \in {"pending", "claimed"} /\ row'[r].status = "launch_failed"
      BY <1>2, <1>3, <2>2
    <3>2. ~row'[r].started /\ ~row'[r].child /\ ~row'[r].sha
      BY <1>2, <2>1, <3>1 DEF Known, TERMINAL
    <3>3. Known(r)' /\ LifeStatus(r)' = "unstarted"
      BY <3>1, <3>2 DEF Known, LifeStatus, Status, ACTIVE
    <3>4. r \notin doubtful
      BY <1>3, <3>1
    <3>5. Status(r) = "claimed" => LifeStatus(r) = "live"
      BY DEF LifeStatus, ACTIVE, TERMINAL
    <3>6. Status(r) = "pending" => LifeStatus(r) = "pending"
      BY DEF LifeStatus, ACTIVE, TERMINAL
    <3> QED BY <1>3, <2>2, <3>3, <3>4, <3>5, <3>6
  <2>3. CASE r \in doubtful /\ r \notin late \union dead
    <3>1. Status(r) \in {"launching", "running", "stopping"} /\ row'[r].status = "unknown"
      BY <1>2, <1>3, <2>3
    <3>2. ~row'[r].sha
      BY <1>2, <2>1, <3>1 DEF Known, TERMINAL
    <3>3. LifeStatus(r) = "live"
      BY <3>1 DEF LifeStatus, ACTIVE, TERMINAL
    <3>4. Known(r)' /\ LifeStatus(r)' = "unknown"
      BY <3>1, <3>2 DEF Known, LifeStatus, Status, ACTIVE, TERMINAL
    <3> QED BY <2>3, <3>3, <3>4
  <2>4. CASE r \notin late \union dead \union doubtful
    <3>1. row'[r].status = Status(r)
      BY <1>2, <2>4
    <3> QED BY <1>1, <1>2, <2>1, <2>4, <3>1 DEF Known, LifeStatus, Status, GroupAlive
  <2> QED BY <2>2, <2>3, <2>4
<1>5. [r \in Runs |-> LifeStatus(r)'] =
        [r \in Life!Runs |-> IF r \in late \union dead THEN "unstarted"
                             ELSE IF r \in doubtful THEN "unknown"
                             ELSE [q \in Runs |-> LifeStatus(q)][r]]
  <2>1. Life!Runs = Runs
    BY DEF Life!Runs, Runs
  <2> QED BY <1>4, <2>1
<1>6. /\ \A r \in late : [q \in Runs |-> LifeStatus(q)][r] = "pending"
      /\ \A r \in dead \union doubtful : [q \in Runs |-> LifeStatus(q)][r] = "live"
      /\ late \in SUBSET Life!Runs /\ dead \in SUBSET Life!Runs /\ doubtful \in SUBSET Life!Runs
  BY <1>3, <1>4 DEF Life!Runs, Runs
<1>7. UNCHANGED [r \in Runs |-> [session |-> row[r].session, backend |-> row[r].backend,
                                 resume |-> row[r].resume]]
  BY <1>2
<1>8. LifeKnown'
  BY <1>4 DEF LifeKnown
<1>9. Life!Refresh
  <2> DEFINE before == [q \in Runs |-> LifeStatus(q)]
             after == [r \in Runs |-> LifeStatus(r)']
             Settled(x, y, z) == /\ \A r \in x : before[r] = "pending"
                                 /\ \A r \in y \union z : before[r] = "live"
                                 /\ after = [r \in Life!Runs |->
                                               IF r \in x \union y THEN "unstarted"
                                               ELSE IF r \in z THEN "unknown" ELSE before[r]]
  <2>1. Settled(late, dead, doubtful)
    BY <1>5, <1>6
  <2>2. \E x, y, z \in SUBSET Life!Runs : Settled(x, y, z)
    <3> HIDE DEF Settled
    <3> QED BY <1>6, <2>1, Zenon
  <2>3. nrun' = nrun /\ backend' = backend
    BY <1>1
  <2>4. [r \in Runs |-> [session |-> row'[r].session, backend |-> row'[r].backend,
                         resume |-> row'[r].resume]] =
          [r \in Runs |-> [session |-> row[r].session, backend |-> row[r].backend,
                           resume |-> row[r].resume]]
    BY <1>7
  <2> QED BY <2>2, <2>3, <2>4 DEF Life!Refresh
<1> QED BY <1>8, <1>9

\* A step that advances one run at most is a move of the life of a run, or none.
LEMMA AdvanceMoves ==
  ASSUME NEW q \in Runs, OnlyAdvances(q), TurnsKept
  PROVE  Life!Move(q) \/ UNCHANGED Life!life
<1> DEFINE status == [r \in Runs |-> LifeStatus(r)]
<1>1. UNCHANGED <<nrun, backend>>
      /\ UNCHANGED [r \in Runs |-> [session |-> row[r].session, backend |-> row[r].backend,
                                    resume |-> row[r].resume]]
  BY DEF TurnsKept
<1>2. CASE LifeStatus(q)' = LifeStatus(q)
  <2>1. UNCHANGED [r \in Runs |-> LifeStatus(r)]
    BY <1>2 DEF OnlyAdvances
  <2> QED BY <1>1, <2>1 DEF Life!life
<1>3. CASE LifeStatus(q)' \in Life!Moves(LifeStatus(q))
  <2>1. PICK to : to = LifeStatus(q)'
    OBVIOUS
  <2>2. [r \in Runs |-> LifeStatus(r)'] = [[r \in Runs |-> LifeStatus(r)] EXCEPT ![q] = to]
    BY <2>1 DEF OnlyAdvances
  <2>3. to \in Life!Moves([r \in Runs |-> LifeStatus(r)][q])
    BY <1>3, <2>1
  <2> QED BY <1>1, <2>2, <2>3 DEF Life!Move
<1> QED BY <1>2, <1>3 DEF OnlyAdvances, Advances

\* Every step is one of the life of the runs, or does not concern it.
LEMMA LifeStep ==
  ASSUME TypeOK, LifecycleInvariant, EvidenceInvariant, LifeKnown, [Next]_vars
  PROVE  LifeKnown' /\ [Life!Next]_(Life!life)
<1>0. Life!Runs = Runs
  BY DEF Life!Runs, Runs
<1> DEFINE quiet == LifeKnown' /\ TurnsKept /\ \A r \in Runs : LifeStatus(r)' = LifeStatus(r)
<1>1. ASSUME quiet PROVE LifeKnown' /\ [Life!Next]_(Life!life)
  BY <1>1 DEF TurnsKept, Life!life
<1>2. CASE UNCHANGED vars
  <2>1. quiet
    BY <1>2 DEF vars, LifeKnown, Known, LifeStatus, Status, GroupAlive, TurnsKept
  <2> QED BY <1>1, <2>1
<1>3. CASE \E s \in Sessions : Start(s) \/ Restart(s) \/ ResumeUnstarted(s)
                               \/ \E ack \in BOOLEAN : Followup(s, ack)
  BY <1>3, ReservationLife DEF Life!Next
<1>4. CASE BeginCommand \/ EndCommand \/ \E n \in 1..MaxLimit : ConfigureLimits(n)
  <2>1. UNCHANGED <<nrun, row, backend, blocked, worker, group, outcome>>
    BY <1>4 DEF BeginCommand, EndCommand, ConfigureLimits, tables, procs
  <2>2. quiet
    BY <2>1 DEF LifeKnown, Known, LifeStatus, Status, GroupAlive, TurnsKept
  <2> QED BY <1>1, <2>2
<1>5. CASE \E n \in Namespaces : Refresh(n)
  BY <1>5, RefreshLife DEF Life!Next
<1>6. CASE Environment
  <2>1. quiet
    BY <1>6, EnvironmentLife, EnvironmentInvariant
  <2> QED BY <1>1, <2>1
<1>7. CASE \E q \in Runs : \/ WorkerStep(q) \/ ChildStep(q)
                           \/ Spawn(q) \/ SpawnFails(q) \/ GetRun(q) \/ Stop(q)
                           \/ ReconcileCommit(q)
                           \/ \E n \in Namespaces : ReconcileCheck(q, n)
  <2>1. PICK q \in Runs : \/ WorkerStep(q) \/ ChildStep(q)
                          \/ Spawn(q) \/ SpawnFails(q) \/ GetRun(q) \/ Stop(q)
                          \/ ReconcileCommit(q)
                          \/ \E n \in Namespaces : ReconcileCheck(q, n)
    BY <1>7
  <2>2. LifeKnown' /\ OnlyAdvances(q)
    BY <2>1, WorkerLife, ChildLife, ClientCallLife
  <2>3. TurnsKept
    BY <2>1, WorkerInvariant, ChildInvariant, ClientCallInvariant
  <2> QED BY <1>0, <2>2, <2>3, AdvanceMoves DEF Life!Next
<1> QED BY <1>2, <1>3, <1>4, <1>5, <1>6, <1>7 DEF Next, Client

\* RunLifecycle implements the life of a run: whatever crashes, races and is reconciled, a
\* run only moves as queue, workflows and messages reckon with, and a turn is reserved only
\* when nothing of its session is active, in doubt or divergent, resumed only after one that
\* started, and repeated only after none that executed.
THEOREM LifeRefined == Spec => LifeImplemented
<1>1. Init => LifeKnown /\ Life!Init
  <2> SUFFICES ASSUME Init PROVE LifeKnown /\ Life!Init
    OBVIOUS
  <2>1. \A r \in Runs : row[r] = NoRow /\ outcome[r] = "none"
    BY DEF Init
  <2>2. LifeKnown
    BY <2>1 DEF LifeKnown, Known, Status, NoRow, FreshRow
  <2>3. \A r \in Runs : LifeStatus(r) = "absent"
    <3>1. \A r \in Runs : Status(r) = "absent"
      BY <2>1 DEF Status, NoRow, FreshRow
    <3> QED BY <3>1 DEF LifeStatus, ACTIVE, TERMINAL
  <2>4. \A r \in Runs : row[r].session = NoSession /\ row[r].backend = 0 /\ row[r].resume = FALSE
    BY <2>1 DEF NoRow, FreshRow
  <2> QED BY <2>2, <2>3, <2>4 DEF Init, Life!Init, Life!NoTurn, Life!Runs, Runs
<1>2. Init => EvidenceInvariant
  BY DEF Init, EvidenceInvariant, Evidence, Status, NoRow, FreshRow
<1>3. TypeOK /\ LifecycleInvariant /\ EvidenceInvariant /\ [Next]_vars => EvidenceInvariant'
  BY NextEvidence
<1>4. TypeOK /\ LifecycleInvariant /\ EvidenceInvariant /\ LifeKnown /\ [Next]_vars
        => LifeKnown' /\ [Life!Next]_(Life!life)
  BY LifeStep
<1> QED
  BY <1>1, <1>2, <1>3, <1>4, TypeCorrect, LifecycleCorrect, PTL
     DEF Spec, LifeImplemented, Life!Spec
=============================================================================
