------------------------------ MODULE HostProofs ------------------------------
(***************************************************************************)
(* The safety of the components that MCHost puts side by side, for every   *)
(* number of processes, requests, messages and lines: source application,  *)
(* the harness, operator terminals, the Windows supervisor, messages and   *)
(* the verdict on a stream, each over the specification of its own.        *)
(***************************************************************************)
EXTENDS MCHost, FiniteSetTheorems, TLAPS

-----------------------------------------------------------------------------
(* SourceApply: the lease tells who is at work.                              *)

AtWork == {"leased", "checked", "intent", "git", "good", "bad"}

\* Whoever is at work has the lease, and so has the open shell.
LeaseHeld ==
  /\ \A a \in Appliers : applier[a].pc \in AtWork => lease = a
  /\ shell = "open" <=> lease = "shell"
  /\ \A a \in Appliers : applier[a].pc # "verify"

\* Git starts after the intent, and its applier knows it at work.
GitOnce ==
  /\ applies <= 1
  /\ application = NoApplication => applies = 0
  /\ git # "none" => applies = 1 /\ application.state = "applying"
  /\ \A a \in Appliers :
       /\ applier[a].pc \in {"intent", "git", "good", "bad"} => application # NoApplication
       /\ applier[a].pc = "intent" => applies = 0 /\ application.state = "applying"
       /\ applier[a].pc = "git" => git \in {"none", a}
       /\ applier[a].pc \in {"good", "bad"} => git = "none"
       /\ git = a => applier[a].pc = "git" \/ outside

ApplyInvariant == TypeOK /\ LeaseHeld /\ GitOnce /\ LeaseProtects

\* Nothing is at work before the first command (_application).
LEMMA ApplyStarts == Init => ApplyInvariant
<1> SUFFICES ASSUME Init PROVE ApplyInvariant
  OBVIOUS
<1> USE SourceApplyAssumption DEF Init, Away, NoApplication, AtWork
<1>1. TypeOK
  <2>1. applier \in [Appliers -> [pc : {"away"}, op : {"none"}]]
    OBVIOUS
  <2>2. applies \in Nat /\ edits \in 0..MaxEdits
    OBVIOUS
  <2>3. outside \in BOOLEAN
    BY Zenon
  <2> QED BY <2>1, <2>2, <2>3 DEF TypeOK
<1>2. LeaseHeld
  BY DEF LeaseHeld
<1>3. GitOnce
  BY DEF GitOnce
<1>4. LeaseProtects
  BY DEF LeaseProtects
<1> QED BY <1>1, <1>2, <1>3, <1>4 DEF ApplyInvariant

\* A command that asks, is refused or fails before git holds nothing back
\* (apply up to the intent).
LEMMA AskSafe ==
  ASSUME ApplyInvariant, NEW a \in Appliers, NEW op \in OpIds, Ask(a, op)
  PROVE  ApplyInvariant'
  BY SourceApplyAssumption
     DEF Ask, ApplyInvariant, TypeOK, LeaseHeld, GitOnce, LeaseProtects, AtWork, Away, NoApplication

\* The lease is taken when nobody has it (_source_lease).
LEMMA AcquireSafe ==
  ASSUME ApplyInvariant, NEW a \in Appliers, Acquire(a)
  PROVE  ApplyInvariant'
  BY SourceApplyAssumption
     DEF Acquire, Moves, Returns, ApplyInvariant, TypeOK, LeaseHeld, GitOnce, LeaseProtects,
         AtWork, Away, NoApplication

\* The checks before the patch look at the tree under the lease (_preflight).
LEMMA PreflightSafe ==
  ASSUME ApplyInvariant, NEW a \in Appliers, Preflight(a)
  PROVE  ApplyInvariant'
  BY SourceApplyAssumption
     DEF Preflight, Moves, Returns, Release, ApplyInvariant, TypeOK, LeaseHeld, GitOnce,
         LeaseProtects, AtWork, Away, NoApplication

\* The row of the attempt is inserted once (workspace_applications).
LEMMA RecordIntentSafe ==
  ASSUME ApplyInvariant, NEW a \in Appliers, RecordIntent(a)
  PROVE  ApplyInvariant'
  BY SourceApplyAssumption
     DEF RecordIntent, Moves, Returns, Release, ApplyInvariant, TypeOK, LeaseHeld, GitOnce,
         LeaseProtects, AtWork, Away, NoApplication

\* Only the one with the intent starts git (git apply).
LEMMA GitStartsSafe ==
  ASSUME ApplyInvariant, NEW a \in Appliers, GitStarts(a)
  PROVE  ApplyInvariant'
  BY SourceApplyAssumption
     DEF GitStarts, Moves, ApplyInvariant, TypeOK, LeaseHeld, GitOnce, LeaseProtects,
         AtWork, Away, NoApplication

\* Git writes the files only while its applier waits, or outlives it.
LEMMA GitWritesSafe ==
  ASSUME ApplyInvariant, GitWrites
  PROVE  ApplyInvariant'
  BY SourceApplyAssumption
     DEF GitWrites, ApplyInvariant, TypeOK, LeaseHeld, GitOnce, LeaseProtects, AtWork, Away,
         NoApplication

\* The applier sees the end of git.
LEMMA GitEndsSafe ==
  ASSUME ApplyInvariant, NEW a \in Appliers, GitEnds(a)
  PROVE  ApplyInvariant'
<1> USE SourceApplyAssumption
        DEF GitEnds, ApplyInvariant, TypeOK, LeaseHeld, GitOnce, LeaseProtects, AtWork, Away,
            NoApplication
<1>1. CASE UNCHANGED applier
  BY <1>1
<1>2. CASE Moves(a, "git", "bad")
  BY <1>2 DEF Moves
<1> QED BY <1>1, <1>2

\* The look at the result is still under the lease (_verify_applied_source).
LEMMA VerifySafe ==
  ASSUME ApplyInvariant, NEW a \in Appliers, Verify(a)
  PROVE  ApplyInvariant'
  BY SourceApplyAssumption
     DEF Verify, ApplyInvariant, TypeOK, LeaseHeld, GitOnce, LeaseProtects, AtWork, Away,
         NoApplication

\* The result is recorded of the attempt that made it.
LEMMA RecordResultSafe ==
  ASSUME ApplyInvariant, NEW a \in Appliers, RecordResult(a)
  PROVE  ApplyInvariant'
  BY SourceApplyAssumption
     DEF RecordResult, Returns, Release, ApplyInvariant, TypeOK, LeaseHeld, GitOnce,
         LeaseProtects, AtWork, Away, NoApplication

\* The shell opens where nobody is at work, or beside the lease (terminal shell).
LEMMA ShellSafe ==
  ASSUME ApplyInvariant,
         CloseShell \/ OrphanShell \/ \E place \in {"open", "inner"} : OpenShell(place)
  PROVE  ApplyInvariant'
  BY SourceApplyAssumption
     DEF CloseShell, OrphanShell, OpenShell, ApplyInvariant, TypeOK, LeaseHeld, GitOnce,
         LeaseProtects, AtWork, Away, NoApplication

\* What the user changes under the lease is not under an applier's.
LEMMA EditSafe ==
  ASSUME ApplyInvariant, NEW where \in {"shell", "editor"}, Edit(where)
  PROVE  ApplyInvariant'
<1> USE SourceApplyAssumption DEF Edit, ApplyInvariant
<1>1. edits' \in 0..MaxEdits
  BY DEF TypeOK
<1>2. outside' \in BOOLEAN /\ (outside => outside')
  <2>1. outside \in BOOLEAN
    BY DEF TypeOK
  <2>2. outside' = outside \/ outside' = TRUE
    BY Zenon
  <2>3. CASE outside' = outside
    BY <2>1, <2>3, Zenon
  <2>4. CASE outside' = TRUE
    BY <2>4, Zenon
  <2> QED BY <2>2, <2>3, <2>4
<1>3. head' \in {"base", "moved"} /\ work' \in {"clean", "edited", "mixed"}
  BY DEF TypeOK
<1>4. TypeOK' /\ LeaseHeld' /\ GitOnce'
  BY <1>1, <1>2, <1>3 DEF TypeOK, LeaseHeld, GitOnce
<1>5. LeaseProtects'
  BY <1>2 DEF LeaseProtects, LeaseHeld, AtWork, TypeOK
<1> QED BY <1>4, <1>5

\* An applier that dies leaves its lease, and perhaps its git.
LEMMA CrashSafe ==
  ASSUME ApplyInvariant, NEW a \in Appliers, Crash(a)
  PROVE  ApplyInvariant'
<1> USE SourceApplyAssumption DEF Crash, Returns, Release, ApplyInvariant, Away
<1>1. /\ applier' \in [Appliers -> [pc : {"away"}, op : {"none"}] \union
                                   [pc : {"away", "read", "leased", "checked", "intent", "git",
                                          "verify", "good", "bad"},
                                    op : OpIds \union {"none"}]]
      /\ applier'[a] = Away
      /\ \A b \in Appliers \ {a} : applier'[b] = applier[b]
      /\ outside' \in BOOLEAN /\ (outside => outside')
  BY DEF TypeOK
<1>2. TypeOK'
  BY <1>1 DEF TypeOK
<1>3. LeaseHeld'
  BY <1>1 DEF TypeOK, LeaseHeld, AtWork
<1>4. GitOnce'
  BY <1>1 DEF TypeOK, GitOnce
<1>5. LeaseProtects'
  BY <1>1 DEF LeaseProtects
<1> QED BY <1>2, <1>3, <1>4, <1>5

\* Git is started at most once and under the lease only: the invariant of every
\* behaviour of workspace apply beside the shell.
THEOREM ApplyInvariantHolds == Spec => []ApplyInvariant
<1>1. ApplyInvariant /\ [Next]_vars => ApplyInvariant'
  <2> SUFFICES ASSUME ApplyInvariant, [Next]_vars PROVE ApplyInvariant'
    OBVIOUS
  <2>1. CASE UNCHANGED vars
    BY <2>1 DEF vars, ApplyInvariant, TypeOK, LeaseHeld, GitOnce, LeaseProtects
  <2>2. CASE Next
    <3>1. ASSUME NEW a \in Appliers, ApplierSteps(a) \/ GitEnds(a) \/ Crash(a)
          PROVE  ApplyInvariant'
      BY <3>1, AskSafe, AcquireSafe, PreflightSafe, RecordIntentSafe, GitStartsSafe, VerifySafe,
         RecordResultSafe, GitEndsSafe, CrashSafe DEF ApplierSteps
    <3> QED BY <2>2, <3>1, GitWritesSafe, ShellSafe, EditSafe DEF Next
  <2> QED BY <2>1, <2>2
<1> QED BY ApplyStarts, <1>1, PTL DEF Spec

\* Whatever dies and whoever edits, the source is patched at most once and only
\* under a durable intent (workspace apply).
THEOREM SourceAppliedOnce == Spec => []AppliedOnce
<1>1. ApplyInvariant => AppliedOnce
  BY DEF ApplyInvariant, GitOnce, AppliedOnce
<1> QED BY ApplyInvariantHolds, <1>1, PTL

\* The shell and the appliers never change the source under one another, as long
\* as everybody keeps to the lease (_source_lease, terminal shell).
THEOREM SourceLeaseProtects == Spec => []LeaseProtects
<1>1. ApplyInvariant => LeaseProtects
  BY DEF ApplyInvariant
<1> QED BY ApplyInvariantHolds, <1>1, PTL

-----------------------------------------------------------------------------
(* Harness: a turn that works is the last one of a running task.             *)

Evidence == [head : Nat, clean : BOOLEAN]

HolderRecord ==
  [pc : {"away", "admit", "spawn", "spawned", "recorded", "wait", "ended", "committed", "check"},
   ok : BOOLEAN]

TaskRecord ==
  [status : {"absent", "created", "running", "unknown", "ready", "needs_attention", "approved"},
   turn : Nat, process : Nat, evidence : Evidence, check : Int,
   unchecked : BOOLEAN]

\* The types, without the bounds on turns and commits.
HarnessShape ==
  /\ task \in [Tasks -> TaskRecord]
  /\ clone \in [Tasks -> Evidence]
  /\ holder \in [Tasks -> HolderRecord]
  /\ silent \in [Tasks -> SUBSET Nat] /\ working \in [Tasks -> SUBSET Nat]
  /\ limit \in Nat /\ largest \in Nat /\ limit <= largest
  /\ produced \in [Tasks -> SUBSET Nat] /\ passed \in [Tasks -> SUBSET Nat]

\* What the holder of task.lock has done, the task says; Claude works for the last
\* turn, whose process is recorded, where nobody has given up a Claude he could not see.
HolderKnows ==
  \A t \in Tasks :
    /\ holder[t].pc \in {"spawn", "spawned", "recorded", "wait", "ended", "committed"} =>
         task[t].status = "running"
    /\ holder[t].pc = "admit" =>
         task[t].status \in {"created", "unknown", "ready", "needs_attention"}
    /\ holder[t].pc = "check" => task[t].status = "ready"
    /\ holder[t].pc \in {"spawn", "spawned", "recorded", "wait"} => task[t].turn # 0
    /\ holder[t].pc \in {"recorded", "wait"} => task[t].process = task[t].turn
    /\ t \notin astray =>
         /\ holder[t].pc \in {"spawn", "spawned", "recorded", "ended", "committed"} =>
              working[t] = {}
         /\ working[t] # {} => /\ task[t].status = "running" /\ working[t] = {task[t].turn}
                               /\ task[t].process = task[t].turn /\ task[t].turn # 0

Active == {t \in Tasks : task[t].status \in {"running", "unknown"}}

\* The tasks that count for max_parallel.
WithinLimit == IsFiniteSet(Active) /\ Cardinality(Active) <= largest

\* Evidence and checks, before and after the approval.
EvidenceEarned ==
  \A t \in Tasks :
    /\ task[t].status \in {"ready", "approved"} =>
         task[t].evidence.head \in produced[t] /\ task[t].evidence.clean
    /\ task[t].check # -1 => task[t].check \in passed[t]
    /\ task[t].status = "approved" => task[t].unchecked \/ task[t].evidence.head \in passed[t]

HarnessInvariant == HarnessShape /\ HolderKnows /\ WithinLimit /\ EvidenceEarned

\* Both modules count with the same operator (len).
LEMMA SameCount == ASSUME NEW Counted PROVE H!Cardinality(Counted) = Cardinality(Counted)
BY DEF Cardinality, H!Cardinality

\* What the invariant promises (_active_other_tasks, approve_task).
LEMMA HarnessPromises == HarnessInvariant => TurnsHeld /\ ApprovedExact
<1> SUFFICES ASSUME HarnessInvariant PROVE TurnsHeld /\ ApprovedExact
  OBVIOUS
<1>1. {t \in Tasks \ astray : working[t] # {}} \subseteq Active
  BY DEF HarnessInvariant, HolderKnows, Active
<1>2. Cardinality({t \in Tasks \ astray : working[t] # {}}) <= largest
  <2>1. /\ Cardinality({t \in Tasks \ astray : working[t] # {}}) <= Cardinality(Active)
        /\ IsFiniteSet({t \in Tasks \ astray : working[t] # {}})
    BY <1>1, FS_Subset DEF HarnessInvariant, WithinLimit
  <2>2. /\ Cardinality(Active) \in Nat /\ Cardinality({t \in Tasks \ astray : working[t] # {}}) \in Nat
        /\ Cardinality(Active) <= largest /\ largest \in Nat
    BY <2>1, FS_CardinalityType DEF HarnessInvariant, WithinLimit, HarnessShape
  <2> QED BY <2>1, <2>2
<1>3. \A t \in Tasks \ astray : working[t] # {} =>
        task[t].status = "running" /\ working[t] = {task[t].turn}
  BY DEF HarnessInvariant, HolderKnows
<1>4. TurnsHeld
  BY <1>2, <1>3, SameCount DEF TurnsHeld, H!TurnsHeld, H!Status
<1>5. ApprovedExact
  BY DEF HarnessInvariant, EvidenceEarned, ApprovedExact, H!ApprovedExact, H!Status
<1> QED BY <1>4, <1>5

\* No task exists before the first request (load_request).
LEMMA HarnessStarts == HostAssumption /\ H!Init => HarnessInvariant
<1> SUFFICES ASSUME HostAssumption, H!Init PROVE HarnessInvariant
  OBVIOUS
<1> USE DEF H!Init, H!Nothing, H!Away
<1>1. HarnessShape
  <2>1. limit \in Nat /\ largest \in Nat /\ limit <= largest
    BY DEF HostAssumption, H!HarnessAssumption
  <2>2. task \in [Tasks -> TaskRecord]
    BY DEF TaskRecord, Evidence
  <2>3. clone \in [Tasks -> Evidence]
    BY DEF Evidence
  <2>4. holder \in [Tasks -> HolderRecord]
    BY DEF HolderRecord
  <2> QED BY <2>1, <2>2, <2>3, <2>4 DEF HarnessShape
<1>2. HolderKnows
  BY DEF HolderKnows
<1>3. WithinLimit
  <2>1. Active = {}
    BY DEF Active
  <2>2. largest \in Nat
    BY <1>1 DEF HarnessShape
  <2> QED BY <2>1, <2>2, FS_EmptySet DEF WithinLimit
<1>4. EvidenceEarned
  BY DEF EvidenceEarned
<1> QED BY <1>1, <1>2, <1>3, <1>4 DEF HarnessInvariant

\* A step under which no task joins the active ones stays within the limit.
LEMMA NoneJoins ==
  ASSUME WithinLimit, Active' \subseteq Active, largest \in Nat, largest' \in Nat,
         largest <= largest'
  PROVE  WithinLimit'
<1>1. IsFiniteSet(Active') /\ Cardinality(Active') <= Cardinality(Active)
  BY FS_Subset DEF WithinLimit
<1>2. Cardinality(Active') \in Nat /\ Cardinality(Active) \in Nat
  BY <1>1, FS_CardinalityType DEF WithinLimit
<1> QED BY <1>1, <1>2 DEF WithinLimit

\* admission.lock: a turn is admitted while fewer others than the limit are active
\* (_admit_turn).
LEMMA AdmitSafe ==
  ASSUME HarnessInvariant, NEW t \in Tasks, H!Admit(t)
  PROVE  HarnessInvariant'
<1> USE DEF HarnessInvariant
<1>1. UNCHANGED <<clone, silent, working, limit, largest, produced, passed, astray>>
  BY DEF H!Admit
<1>2. CASE H!ActiveOthers(t) >= limit
  <2>1. UNCHANGED task /\ holder' = [holder EXCEPT ![t] = H!Away]
    BY <1>2 DEF H!Admit, H!Leaves
  <2>2. HarnessShape' /\ HolderKnows'
    BY <1>1, <2>1 DEF HarnessShape, HolderKnows, HolderRecord, H!Away
  <2>3. WithinLimit'
    BY <1>1, <2>1, NoneJoins DEF Active, HarnessShape
  <2>4. EvidenceEarned'
    BY <1>1, <2>1 DEF EvidenceEarned
  <2> QED BY <2>2, <2>3, <2>4
<1>3. CASE ~(H!ActiveOthers(t) >= limit)
  <2>1. /\ holder[t].pc = "admit"
        /\ holder' = [holder EXCEPT ![t].pc = "spawn"]
        /\ task' = [task EXCEPT ![t].status = "running", ![t].check = -1,
                                ![t].turn = @ + 1, ![t].process = 0]
    BY <1>3 DEF H!Admit, H!Goes
  <2>2. HarnessShape'
    <3>1. task[t] \in TaskRecord
      BY DEF HarnessShape
    <3>2. PICK next \in Nat : next = task[t].turn + 1
      BY <3>1 DEF TaskRecord
    <3>3. [task[t] EXCEPT !.status = "running", !.check = -1, !.turn = next, !.process = 0]
            \in TaskRecord
      <4>1. [task[t] EXCEPT !.status = "running", !.turn = next, !.process = 0] \in TaskRecord
        BY <3>1 DEF TaskRecord
      <4>2. \A rec \in TaskRecord, n \in Int : [rec EXCEPT !.check = n] \in TaskRecord
        BY DEF TaskRecord
      <4>3. -1 \in Int
        OBVIOUS
      <4> QED BY <3>1, <4>1, <4>2, <4>3 DEF TaskRecord
    <3>4. task' = [task EXCEPT ![t].status = "running", ![t].check = -1,
                               ![t].turn = next, ![t].process = 0]
      BY <2>1, <3>2 DEF HarnessShape
    <3>5. task' \in [Tasks -> TaskRecord]
      BY <3>3, <3>4 DEF HarnessShape
    <3> QED BY <1>1, <2>1, <3>5 DEF HarnessShape, HolderRecord
  <2>3. HolderKnows'
    BY <1>1, <2>1 DEF HolderKnows, HarnessShape, TaskRecord
  <2>4. WithinLimit'
    <3> DEFINE others == {u \in Tasks \ {t} : H!Status(u) \in {"running", "unknown"}}
    <3>1. Active' = others \union {t} /\ t \notin others /\ others \subseteq Active
      BY <2>1 DEF Active, H!Status, HarnessShape, TaskRecord
    <3>2. IsFiniteSet(others) /\ Cardinality(others) \in Nat
      BY <3>1, FS_Subset, FS_CardinalityType DEF WithinLimit
    <3>3. H!ActiveOthers(t) = Cardinality(others)
      BY SameCount DEF H!ActiveOthers
    <3> HIDE DEF others
    <3>4. IsFiniteSet(Active') /\ Cardinality(Active') = Cardinality(others) + 1
      BY <3>1, <3>2, FS_AddElement
    <3> QED BY <1>1, <1>3, <3>2, <3>3, <3>4 DEF WithinLimit, HarnessShape
  <2>5. EvidenceEarned'
    BY <1>1, <2>1 DEF EvidenceEarned, HarnessShape, TaskRecord
  <2> QED BY <2>2, <2>3, <2>4, <2>5
<1> QED BY <1>2, <1>3

\* Claude starts for the turn that was admitted and works once its process is
\* recorded (_run_claude).
LEMMA TurnSafe ==
  ASSUME HarnessInvariant, NEW t \in Tasks,
         H!Spawn(t) \/ H!RecordProcess(t) \/ H!Prompt(t)
  PROVE  HarnessInvariant'
<1> USE DEF HarnessInvariant
<1>1. UNCHANGED <<clone, limit, largest, produced, passed, astray>>
  BY DEF H!Spawn, H!RecordProcess, H!Prompt
<1>2. CASE H!Spawn(t)
  <2>1. /\ holder[t].pc = "spawn" /\ holder' = [holder EXCEPT ![t].pc = "spawned"]
        /\ silent' = [silent EXCEPT ![t] = @ \union {task[t].turn}]
        /\ UNCHANGED <<task, working>>
    BY <1>2 DEF H!Spawn, H!Goes
  <2>2. HarnessShape'
    <3>1. task[t].turn \in Nat
      BY DEF HarnessShape, TaskRecord
    <3>2. silent' \in [Tasks -> SUBSET Nat]
      BY <2>1, <3>1 DEF HarnessShape
    <3> QED BY <1>1, <2>1, <3>2 DEF HarnessShape, HolderRecord
  <2>3. HolderKnows'
    BY <1>1, <2>1 DEF HolderKnows, HarnessShape
  <2>4. WithinLimit' /\ EvidenceEarned'
    BY <1>1, <2>1, NoneJoins DEF Active, HarnessShape, EvidenceEarned
  <2> QED BY <2>2, <2>3, <2>4
<1>3. CASE H!RecordProcess(t)
  <2>1. /\ holder[t].pc = "spawned" /\ holder' = [holder EXCEPT ![t].pc = "recorded"]
        /\ task' = [task EXCEPT ![t].process = task[t].turn]
        /\ UNCHANGED <<silent, working>>
    BY <1>3 DEF H!RecordProcess, H!Goes
  <2>2. task' \in [Tasks -> TaskRecord]
    <3>1. [task[t] EXCEPT !.process = task[t].turn] \in TaskRecord
      BY DEF HarnessShape, TaskRecord
    <3> QED BY <2>1, <3>1 DEF HarnessShape
  <2>3. HarnessShape'
    BY <1>1, <2>1, <2>2 DEF HarnessShape, HolderRecord
  <2>4. HolderKnows'
    BY <1>1, <2>1 DEF HolderKnows, HarnessShape, TaskRecord
  <2>5. WithinLimit'
    BY <1>1, <2>1, NoneJoins DEF Active, HarnessShape, TaskRecord
  <2>6. EvidenceEarned'
    BY <1>1, <2>1 DEF EvidenceEarned, HarnessShape, TaskRecord
  <2> QED BY <2>3, <2>4, <2>5, <2>6
<1>4. CASE H!Prompt(t)
  <2>1. /\ holder[t].pc = "recorded" /\ holder' = [holder EXCEPT ![t].pc = "wait"]
        /\ silent' = [silent EXCEPT ![t] = @ \ {task[t].turn}]
        /\ working' = [working EXCEPT ![t] = @ \union {task[t].turn}]
        /\ UNCHANGED task
    BY <1>4 DEF H!Prompt, H!Goes
  <2>2. HarnessShape'
    <3>1. task[t].turn \in Nat
      BY DEF HarnessShape, TaskRecord
    <3>2. silent' \in [Tasks -> SUBSET Nat] /\ working' \in [Tasks -> SUBSET Nat]
      BY <2>1, <3>1 DEF HarnessShape
    <3> QED BY <1>1, <2>1, <3>2 DEF HarnessShape, HolderRecord
  <2>3. HolderKnows'
    BY <1>1, <2>1 DEF HolderKnows, HarnessShape
  <2>4. WithinLimit' /\ EvidenceEarned'
    BY <1>1, <2>1, NoneJoins DEF Active, HarnessShape, EvidenceEarned
  <2> QED BY <2>2, <2>3, <2>4
<1> QED BY <1>2, <1>3, <1>4

\* The turn is over once its Claude is; its commit and its files are what the
\* evidence says (_run, _commit_changes).
LEMMA FinishSafe ==
  ASSUME HarnessInvariant, NEW t \in Tasks,
         (\E ok \in BOOLEAN : H!Ended(t, ok)) \/ H!Commit(t) \/ H!Finish(t)
  PROVE  HarnessInvariant'
<1> USE DEF HarnessInvariant
<1>1. UNCHANGED <<silent, working, limit, largest, passed, astray>>
  BY DEF H!Ended, H!Commit, H!Finish
<1>2. ASSUME NEW ok \in BOOLEAN, H!Ended(t, ok) PROVE HarnessInvariant'
  <2>1. /\ holder[t].pc = "wait" /\ task[t].turn \notin working[t]
        /\ holder' = [holder EXCEPT ![t] = [pc |-> "ended", ok |-> ok]]
        /\ UNCHANGED <<task, clone, produced>>
    BY <1>2 DEF H!Ended
  <2>2. HarnessShape'
    BY <1>1, <2>1 DEF HarnessShape, HolderRecord
  <2>3. HolderKnows'
    BY <1>1, <2>1 DEF HolderKnows, HarnessShape
  <2>4. WithinLimit' /\ EvidenceEarned'
    BY <1>1, <2>1, NoneJoins DEF Active, HarnessShape, EvidenceEarned
  <2> QED BY <2>2, <2>3, <2>4
<1>3. CASE H!Commit(t)
  <2>1. /\ holder[t].pc = "ended" /\ holder' = [holder EXCEPT ![t].pc = "committed"]
        /\ \/ clone' = [clone EXCEPT ![t] = [head |-> clone[t].head + 1, clean |-> TRUE]]
           \/ UNCHANGED clone
        /\ UNCHANGED <<task, produced>>
    BY <1>3 DEF H!Commit, H!Goes
  <2>2. HarnessShape'
    <3>1. [head |-> clone[t].head + 1, clean |-> TRUE] \in Evidence
      BY DEF HarnessShape, Evidence
    <3>2. clone' \in [Tasks -> Evidence]
      BY <2>1, <3>1 DEF HarnessShape
    <3> QED BY <1>1, <2>1, <3>2 DEF HarnessShape, HolderRecord
  <2>3. HolderKnows'
    BY <1>1, <2>1 DEF HolderKnows, HarnessShape
  <2>4. WithinLimit' /\ EvidenceEarned'
    BY <1>1, <2>1, NoneJoins DEF Active, HarnessShape, EvidenceEarned
  <2> QED BY <2>2, <2>3, <2>4
<1>4. CASE H!Finish(t)
  <2> DEFINE ready == holder[t].ok /\ clone[t].clean /\ clone[t].head # 0
  <2>1. /\ holder[t].pc = "committed" /\ holder' = [holder EXCEPT ![t] = H!Away]
        /\ UNCHANGED clone
    BY <1>4 DEF H!Finish, H!Leaves
  <2>2. task' = [task EXCEPT ![t].status = IF ready THEN "ready" ELSE "needs_attention",
                             ![t].evidence = clone[t]]
    BY <1>4 DEF H!Finish
  <2>3. produced' = IF ready THEN [produced EXCEPT ![t] = @ \union {clone[t].head}] ELSE produced
    BY <1>4 DEF H!Finish
  <2>4. /\ task' \in [Tasks -> TaskRecord]
        /\ task'[t].status \in {"ready", "needs_attention"}
        /\ task'[t].evidence = clone[t] /\ task'[t].check = task[t].check
        /\ \A u \in Tasks \ {t} : task'[u] = task[u]
    <3>1. [task[t] EXCEPT !.status = IF ready THEN "ready" ELSE "needs_attention",
                          !.evidence = clone[t]] \in TaskRecord
      BY DEF HarnessShape, TaskRecord
    <3> QED BY <2>2, <3>1 DEF HarnessShape, TaskRecord
  <2>5. task'[t].status = "ready" => ready
    BY <2>2 DEF HarnessShape, TaskRecord
  <2>6. /\ \A u \in Tasks : produced[u] \subseteq produced'[u]
        /\ ready => clone[t].head \in produced'[t]
        /\ produced' \in [Tasks -> SUBSET Nat]
    <3>1. clone[t].head \in Nat
      BY DEF HarnessShape, Evidence
    <3> HIDE DEF ready
    <3> QED BY <2>3, <3>1 DEF HarnessShape
  <2>7. HarnessShape'
    BY <1>1, <2>1, <2>4, <2>6 DEF HarnessShape, H!Away, HolderRecord
  <2>8. HolderKnows'
    BY <1>1, <2>1, <2>4 DEF HolderKnows, HarnessShape, H!Away
  <2>9. WithinLimit'
    BY <1>1, <2>4, NoneJoins DEF Active, HarnessShape
  <2>10. EvidenceEarned'
    BY <1>1, <2>4, <2>5, <2>6 DEF EvidenceEarned, HarnessShape
  <2> QED BY <2>7, <2>8, <2>9, <2>10
<1> QED BY <1>2, <1>3, <1>4

\* Nobody begins anything on a task that is held; only a turn whose Claude is gone
\* becomes unknown (reconcile_task).
LEMMA ClaimSafe ==
  ASSUME HarnessInvariant, NEW t \in Tasks,
         \/ H!Create(t) \/ H!Start(t) \/ \E acknowledge \in BOOLEAN : H!Followup(t, acknowledge)
         \/ \E inside \in BOOLEAN : H!Reconcile(t, inside)
         \/ H!Check(t) \/ H!Dies(t)
  PROVE  HarnessInvariant'
<1> USE DEF HarnessInvariant
<1>1. UNCHANGED <<clone, silent, working, limit, largest, produced, passed>>
  BY DEF H!Create, H!Start, H!Followup, H!Reconcile, H!GivesUp, H!Check, H!Dies
<1>2. ASSUME UNCHANGED <<task, astray>>,
             \/ /\ holder' = [holder EXCEPT ![t].pc = "admit"] /\ holder[t].pc = "away"
                /\ task[t].status \in {"created", "unknown", "ready", "needs_attention"}
             \/ holder' = [holder EXCEPT ![t].pc = "check"] /\ task[t].status = "ready"
             \/ holder' = [holder EXCEPT ![t] = H!Away]
      PROVE  HarnessInvariant'
  <2>1. HarnessShape'
    <3>1. /\ [holder[t] EXCEPT !.pc = "admit"] \in HolderRecord
          /\ [holder[t] EXCEPT !.pc = "check"] \in HolderRecord
          /\ H!Away \in HolderRecord
      BY DEF HarnessShape, HolderRecord, H!Away
    <3>2. holder' \in [Tasks -> HolderRecord]
      BY <1>2, <3>1 DEF HarnessShape
    <3> QED BY <1>1, <1>2, <3>2 DEF HarnessShape
  <2>2. HolderKnows'
    BY <1>1, <1>2 DEF HolderKnows, HarnessShape, H!Away, HolderRecord
  <2>3. WithinLimit' /\ EvidenceEarned'
    BY <1>1, <1>2, NoneJoins DEF Active, HarnessShape, EvidenceEarned
  <2> QED BY <2>1, <2>2, <2>3
<1>3. ASSUME NEW status \in {"created", "unknown"}, UNCHANGED holder,
             task' = [task EXCEPT ![t].status = status],
             \/ task[t].status = "absent" /\ status = "created" /\ UNCHANGED astray
             \/ /\ holder[t].pc = "away" /\ task[t].status = "running" /\ status = "unknown"
                /\ \/ working[t] = {} /\ astray \subseteq astray'
                   \/ astray' = astray \union {t}
      PROVE  HarnessInvariant'
  <2>1. task' \in [Tasks -> TaskRecord]
    <3>1. [task[t] EXCEPT !.status = status] \in TaskRecord
      BY DEF HarnessShape, TaskRecord
    <3> QED BY <1>3, <3>1 DEF HarnessShape
  <2>2. HarnessShape'
    BY <1>1, <1>3, <2>1 DEF HarnessShape
  <2>3. HolderKnows'
    BY <1>1, <1>3 DEF HolderKnows, HarnessShape, TaskRecord
  <2>4. WithinLimit'
    BY <1>1, <1>3, NoneJoins DEF Active, HarnessShape, TaskRecord
  <2>5. EvidenceEarned'
    BY <1>1, <1>3 DEF EvidenceEarned, HarnessShape, TaskRecord
  <2> QED BY <2>2, <2>3, <2>4, <2>5
<1>4. ASSUME NEW inside \in BOOLEAN, H!Reconcile(t, inside) PROVE HarnessInvariant'
  <2>1. /\ holder[t].pc = "away" /\ task[t].status = "running" /\ UNCHANGED holder
        /\ task' = [task EXCEPT ![t].status = "unknown"] /\ astray \subseteq astray'
    BY <1>4 DEF H!Reconcile, H!GivesUp, H!Free, H!Away, H!Status
  <2>2. CASE t \in astray'
    <3>1. astray' = astray \union {t}
      BY <1>4, <2>2 DEF H!Reconcile, H!GivesUp
    <3> QED BY <1>3, <2>1, <3>1
  <2>3. CASE t \notin astray'
    <3>1. ~H!ProcessLives(t) /\ t \notin astray
      BY <1>4, <2>1, <2>3 DEF H!Reconcile, H!GivesUp, H!ProcessAlive
    <3>2. working[t] = {}
      BY <3>1 DEF H!ProcessLives, HolderKnows
    <3> QED BY <1>3, <2>1, <3>2
  <2> QED BY <2>2, <2>3
<1>5. CASE H!Create(t)
  BY <1>3, <1>5 DEF H!Create, H!Status
<1>6. CASE H!Start(t)
  BY <1>2, <1>6 DEF H!Start, H!Free, H!Away, H!Goes, H!Status
<1>7. ASSUME NEW acknowledge \in BOOLEAN, H!Followup(t, acknowledge) PROVE HarnessInvariant'
  BY <1>2, <1>7 DEF H!Followup, H!Free, H!Away, H!Goes, H!Status
<1>8. CASE H!Check(t) \/ H!Dies(t)
  BY <1>2, <1>8 DEF H!Check, H!Dies, H!Leaves, H!Free, H!Goes, H!Status
<1> QED BY <1>4, <1>5, <1>6, <1>7, <1>8

\* A check counts only where it left the clone as it was, and an approval only of the
\* evidence and what was checked (check_task, approve_task).
LEMMA ReviewSafe ==
  ASSUME HarnessInvariant, NEW t \in Tasks,
         \/ \E exit \in BOOLEAN : H!CheckEnds(t, exit)
         \/ \E unchecked \in BOOLEAN : H!Approve(t, unchecked)
  PROVE  HarnessInvariant'
<1> USE DEF HarnessInvariant
<1>1. UNCHANGED <<clone, silent, working, limit, largest, produced, astray>>
  BY DEF H!CheckEnds, H!Approve
<1>2. ASSUME NEW exit \in BOOLEAN, H!CheckEnds(t, exit) PROVE HarnessInvariant'
  <2>1. PICK checked \in Nat \union {-1} :
          /\ holder[t].pc = "check" /\ holder' = [holder EXCEPT ![t] = H!Away]
          /\ task' = [task EXCEPT ![t].check = checked]
          /\ passed' = IF checked # -1 THEN [passed EXCEPT ![t] = @ \union {checked}] ELSE passed
    <3> DEFINE good == exit /\ H!Unchanged(t)
    <3>1. clone[t].head \in Nat
      BY DEF HarnessShape, Evidence
    <3>2. /\ holder[t].pc = "check" /\ holder' = [holder EXCEPT ![t] = H!Away]
          /\ task' = [task EXCEPT ![t].check = IF good THEN clone[t].head ELSE -1]
          /\ passed' = IF good THEN [passed EXCEPT ![t] = @ \union {clone[t].head}] ELSE passed
      BY <1>2 DEF H!CheckEnds, H!Leaves
    <3> HIDE DEF good
    <3>3. CASE good
      <4>1. clone[t].head # -1
        BY <3>1
      <4> QED BY <3>1, <3>2, <3>3, <4>1
    <3>4. CASE ~good
      BY <3>2, <3>4
    <3> QED BY <3>3, <3>4
  <2>2. /\ task' \in [Tasks -> TaskRecord]
        /\ \A u \in Tasks :
             /\ task'[u].status = task[u].status /\ task'[u].turn = task[u].turn
             /\ task'[u].process = task[u].process /\ task'[u].evidence = task[u].evidence
             /\ task'[u].unchecked = task[u].unchecked
             /\ task'[u].check = IF u = t THEN checked ELSE task[u].check
    <3>1. [task[t] EXCEPT !.check = checked] \in TaskRecord
      <4>1. task[t] \in TaskRecord /\ checked \in Int
        BY DEF HarnessShape
      <4> QED BY <4>1 DEF TaskRecord
    <3> QED BY <2>1, <3>1 DEF HarnessShape, TaskRecord
  <2>3. /\ passed' \in [Tasks -> SUBSET Nat]
        /\ \A u \in Tasks : passed[u] \subseteq passed'[u]
        /\ checked # -1 => checked \in passed'[t]
    BY <2>1 DEF HarnessShape
  <2>4. HarnessShape'
    BY <1>1, <2>1, <2>2, <2>3 DEF HarnessShape, H!Away, HolderRecord
  <2>5. HolderKnows'
    BY <1>1, <2>1, <2>2 DEF HolderKnows, HarnessShape, H!Away
  <2>6. WithinLimit'
    BY <1>1, <2>2, NoneJoins DEF Active, HarnessShape
  <2>7. EvidenceEarned'
    BY <1>1, <2>2, <2>3 DEF EvidenceEarned, HarnessShape
  <2> QED BY <2>4, <2>5, <2>6, <2>7
<1>3. ASSUME NEW unchecked \in BOOLEAN, H!Approve(t, unchecked) PROVE HarnessInvariant'
  <2>1. /\ holder[t].pc = "away" /\ task[t].status = "ready" /\ clone[t] = task[t].evidence
        /\ unchecked \/ task[t].check = clone[t].head
        /\ task' = [task EXCEPT ![t].status = "approved", ![t].unchecked = unchecked]
        /\ UNCHANGED <<holder, passed>>
    BY <1>3 DEF H!Approve, H!Free, H!Away, H!Status, H!Unchanged
  <2>2. /\ task' \in [Tasks -> TaskRecord]
        /\ task'[t] = [task[t] EXCEPT !.status = "approved", !.unchecked = unchecked]
        /\ \A u \in Tasks \ {t} : task'[u] = task[u]
    <3>1. [task[t] EXCEPT !.status = "approved", !.unchecked = unchecked] \in TaskRecord
      BY DEF HarnessShape, TaskRecord
    <3> QED BY <2>1, <3>1 DEF HarnessShape
  <2>3. /\ task'[t].status = "approved" /\ task'[t].turn = task[t].turn
        /\ task'[t].process = task[t].process /\ task'[t].evidence = task[t].evidence
        /\ task'[t].unchecked = unchecked /\ task'[t].check = task[t].check
    BY <2>2 DEF HarnessShape, TaskRecord
  <2>4. HarnessShape'
    BY <1>1, <2>1, <2>2 DEF HarnessShape
  <2>5. HolderKnows'
    BY <1>1, <2>1, <2>2, <2>3 DEF HolderKnows, HarnessShape
  <2>6. WithinLimit'
    BY <1>1, <2>1, <2>2, <2>3, NoneJoins DEF Active, HarnessShape
  <2>7. unchecked \/ task[t].evidence.head \in passed[t]
    <3>1. clone[t].head \in Nat
      BY DEF HarnessShape, Evidence
    <3> QED BY <2>1, <3>1 DEF EvidenceEarned
  <2>8. EvidenceEarned'
    BY <1>1, <2>1, <2>2, <2>3, <2>7 DEF EvidenceEarned, HarnessShape
  <2> QED BY <2>4, <2>5, <2>6, <2>8
<1> QED BY <1>2, <1>3

\* Limits, files of the clone and the end of a Claude belong to others.
LEMMA OutsideSafe ==
  ASSUME HostAssumption, HarnessInvariant,
         \/ H!ConfigureLimits
         \/ \E t \in Tasks : H!CloneChanges(t) \/ \E turn_ \in 0..MaxTurns : H!ClaudeEnds(t, turn_)
  PROVE  HarnessInvariant'
<1> USE DEF HarnessInvariant
<1>1. UNCHANGED <<task, holder, produced, passed, astray>>
  BY DEF H!ConfigureLimits, H!CloneChanges, H!ClaudeEnds
<1>2. CASE H!ConfigureLimits
  <2>1. /\ limit' \in Nat /\ largest' \in Nat /\ limit' <= largest' /\ largest <= largest'
        /\ UNCHANGED <<clone, silent, working>>
    BY <1>2 DEF H!ConfigureLimits, HostAssumption, H!HarnessAssumption, HarnessShape
  <2>2. HarnessShape'
    BY <1>1, <2>1 DEF HarnessShape
  <2>3. HolderKnows' /\ EvidenceEarned'
    BY <1>1, <2>1 DEF HolderKnows, EvidenceEarned
  <2>4. WithinLimit'
    BY <1>1, <2>1, NoneJoins DEF Active, HarnessShape
  <2> QED BY <2>2, <2>3, <2>4
<1>3. ASSUME NEW t \in Tasks, H!CloneChanges(t) PROVE HarnessInvariant'
  <2>1. UNCHANGED <<silent, working, limit, largest>>
    BY <1>3 DEF H!CloneChanges
  <2>2. clone' \in [Tasks -> Evidence]
    <3>1. CASE clone' = [clone EXCEPT ![t].clean = ~@]
      <4>1. [clone[t] EXCEPT !.clean = ~@] \in Evidence
        BY DEF HarnessShape, Evidence
      <4> QED BY <3>1, <4>1 DEF HarnessShape
    <3>2. CASE clone' = [clone EXCEPT ![t] = [head |-> clone[t].head + 1, clean |-> TRUE]]
      <4>1. [head |-> clone[t].head + 1, clean |-> TRUE] \in Evidence
        BY DEF HarnessShape, Evidence
      <4> QED BY <3>2, <4>1 DEF HarnessShape
    <3> QED BY <1>3, <3>1, <3>2 DEF H!CloneChanges
  <2>3. HarnessShape'
    BY <1>1, <2>1, <2>2 DEF HarnessShape
  <2>4. HolderKnows' /\ EvidenceEarned'
    BY <1>1, <2>1 DEF HolderKnows, EvidenceEarned
  <2>5. WithinLimit'
    BY <1>1, <2>1, NoneJoins DEF Active, HarnessShape
  <2> QED BY <2>3, <2>4, <2>5
<1>4. ASSUME NEW t \in Tasks, NEW turn_ \in 0..MaxTurns, H!ClaudeEnds(t, turn_)
      PROVE  HarnessInvariant'
  <2>1. /\ UNCHANGED <<clone, limit, largest>>
        /\ working' = [working EXCEPT ![t] = @ \ {turn_}]
        /\ silent' = [silent EXCEPT ![t] = @ \ {turn_}]
    BY <1>4 DEF H!ClaudeEnds
  <2>2. HarnessShape'
    BY <1>1, <2>1 DEF HarnessShape
  <2>3. \A u \in Tasks \ astray : working'[u] = {} \/ working'[u] = working[u]
    BY <2>1 DEF HolderKnows, HarnessShape
  <2>4. HolderKnows'
    BY <1>1, <2>3 DEF HolderKnows
  <2>5. WithinLimit' /\ EvidenceEarned'
    BY <1>1, <2>1, NoneJoins DEF Active, HarnessShape, EvidenceEarned
  <2> QED BY <2>2, <2>4, <2>5
<1> QED BY <1>2, <1>3, <1>4

\* Every command and everything around it keeps the invariant (_run, main).
THEOREM HarnessInvariantHolds == H!Spec => []HarnessInvariant
<1>1. H!Init => HarnessInvariant
  BY HarnessStarts, HostAssumption
<1>2. HarnessInvariant /\ [H!Next]_(H!vars) => HarnessInvariant'
  <2> SUFFICES ASSUME HarnessInvariant, [H!Next]_(H!vars) PROVE HarnessInvariant'
    OBVIOUS
  <2>1. CASE UNCHANGED H!vars
    <3>1. UNCHANGED <<task, clone, holder, silent, working, limit, largest, produced, passed, astray>>
      BY <2>1 DEF H!vars
    <3> QED BY <3>1 DEF HarnessInvariant, HarnessShape, HolderKnows, WithinLimit, Active,
                        EvidenceEarned
  <2>2. ASSUME NEW t \in Tasks, H!RunSteps(t) PROVE HarnessInvariant'
    BY <2>2, AdmitSafe, TurnSafe, FinishSafe, ClaimSafe DEF H!RunSteps
  <2>3. ASSUME NEW t \in Tasks, H!ReviewSteps(t) PROVE HarnessInvariant'
    BY <2>3, ClaimSafe, ReviewSafe DEF H!ReviewSteps
  <2>4. ASSUME NEW t \in Tasks, H!Create(t) \/ H!Dies(t) PROVE HarnessInvariant'
    BY <2>4, ClaimSafe
  <2>5. ASSUME NEW t \in Tasks,
               H!CloneChanges(t) \/ \E turn_ \in 0..MaxTurns : H!ClaudeEnds(t, turn_)
        PROVE  HarnessInvariant'
    BY <2>5, OutsideSafe, HostAssumption
  <2>6. CASE H!ConfigureLimits
    BY <2>6, OutsideSafe, HostAssumption
  <2> QED BY <2>1, <2>2, <2>3, <2>4, <2>5, <2>6 DEF H!Next, H!Turns
<1> QED BY <1>1, <1>2, PTL DEF H!Spec

\* However its command died, no Claude works in a clone that is reported at rest, and
\* all that work are within the limit they were admitted under, but for tasks that a
\* command gave up from a PID namespace that hides their Claude (_run, reconcile,
\* _process_alive).
THEOREM HarnessTurnsHeld == H!Spec => []TurnsHeld
BY HarnessInvariantHolds, HarnessPromises, PTL

\* An approved commit is the one a turn that ended well left behind, checked unless
\* that was waived (approve_task).
THEOREM HarnessApprovedExact == H!Spec => []ApprovedExact
BY HarnessInvariantHolds, HarnessPromises, PTL

-----------------------------------------------------------------------------
(* Stream: what parse_stream has collected says all that its verdict needs.  *)

EventRecord ==
  [type : {"bad", "system", "assistant", "result"},
   session : {"exact", "other", "none", "invalid"},
   model : {"match", "mismatch", "foreign", "none"},
   tool : {"StructuredOutput", "Bash", "mcp", "malformed", "none"},
   ending : {"success", "error", "subtype", "none"},
   answer : SUBSET {"text", "object"}]

\* What makes line i an error when it is read.
LineWrong(i) ==
  \/ lines[i].type = "bad" \/ S!SessionWrong(lines[i])
  \/ /\ lines[i].type = "assistant"
     /\ \/ \E j \in 1..Len(lines) : j < i /\ lines[j].type = "result"
        \/ lines[i].model = "none" \/ S!ContentWrong(lines[i])
  \/ lines[i].type = "result" /\ S!ResultWrong(lines[i])

StreamShape ==
  /\ purpose \in {"run", "schema", "harness"}
  /\ lines \in Seq(EventRecord)
  /\ parsed \in [error : BOOLEAN, models : SUBSET {"match", "mismatch"}, bad : BOOLEAN,
                 sessions : SUBSET {"exact", "other"}, tools : Nat, results : Nat]

\* Each collected value, from the lines.
ResultsCounted ==
  /\ parsed.results = 0 <=> \A i \in 1..Len(lines) : lines[i].type # "result"
  /\ parsed.results = 1 <=>
       \E last \in 1..Len(lines) : \A i \in 1..Len(lines) : lines[i].type = "result" <=> i = last

ModelsCollected ==
  /\ \A m \in {"match", "mismatch"} :
       m \in parsed.models <=>
         \E i \in 1..Len(lines) : lines[i].type = "assistant" /\ lines[i].model = m
  /\ parsed.bad <=> \E i \in 1..Len(lines) :
       lines[i].type = "assistant" /\ lines[i].model \in {"mismatch", "foreign"}

SessionsCollected ==
  \A s \in {"exact", "other"} :
    s \in parsed.sessions <=> \E i \in 1..Len(lines) : lines[i].session = s

ToolsCounted ==
  parsed.tools = 0 <=>
    \A i \in 1..Len(lines) : lines[i].type = "assistant" => S!ToolUses(lines[i]) = 0

ErrorsNoted == parsed.error <=> \E i \in 1..Len(lines) : LineWrong(i)

StreamInvariant ==
  /\ StreamShape /\ ResultsCounted /\ ModelsCollected /\ SessionsCollected /\ ToolsCounted
  /\ ErrorsNoted

\* Every line of a stream has one of these forms (json.loads).
LEMMA EventShape == S!Events \subseteq EventRecord
<1>1. S!Odd \subseteq EventRecord
  BY DEF S!Odd, S!Line, EventRecord
<1>2. S!Others \subseteq EventRecord
  BY DEF S!Others, S!Line, EventRecord
<1>3. S!Assistants \subseteq EventRecord
  BY DEF S!Assistants, S!Line, EventRecord
<1>4. S!Results \subseteq EventRecord
  BY DEF S!Results, S!Line, EventRecord
<1> QED BY <1>1, <1>2, <1>3, <1>4 DEF S!Events

\* Nothing is collected before the first line (parse_stream).
LEMMA StreamStarts == S!Init => StreamInvariant
<1> SUFFICES ASSUME S!Init PROVE StreamInvariant
  OBVIOUS
<1> USE DEF S!Init
<1>1. StreamShape
  BY DEF StreamShape
<1>2. 1..Len(lines) = {}
  OBVIOUS
<1>3. ResultsCounted /\ ModelsCollected /\ SessionsCollected /\ ToolsCounted /\ ErrorsNoted
  BY <1>2 DEF ResultsCounted, ModelsCollected, SessionsCollected, ToolsCounted, ErrorsNoted
<1> QED BY <1>1, <1>3 DEF StreamInvariant

\* One more line, as parse_stream reads it.
LEMMA ReadSafe ==
  ASSUME StreamInvariant, NEW e \in S!Events, S!Read(e)
  PROVE  StreamInvariant'
<1> USE DEF StreamInvariant
<1>1. e \in EventRecord
  BY EventShape
<1>2. /\ lines' \in Seq(EventRecord) /\ Len(lines') = Len(lines) + 1
      /\ lines'[Len(lines) + 1] = e
      /\ \A i \in 1..Len(lines) : lines'[i] = lines[i]
      /\ Len(lines) \in Nat /\ purpose' = purpose
  BY <1>1 DEF S!Read, StreamShape
<1>3. /\ 1..Len(lines') = (1..Len(lines)) \union {Len(lines) + 1}
      /\ Len(lines) + 1 \notin 1..Len(lines)
  BY <1>2
<1>4. /\ S!ToolUses(e) \in {0, 1}
      /\ S!ToolUses(e) = 0 <=> e.tool \in {"none", "malformed"}
                                 \/ (purpose = "schema" /\ e.tool = "StructuredOutput")
  BY DEF S!ToolUses, S!Structured
<1>5. /\ parsed'.sessions = parsed.sessions \union ({e.session} \intersect {"exact", "other"})
      /\ parsed'.models = IF e.type = "assistant"
                          THEN parsed.models \union ({e.model} \intersect {"match", "mismatch"})
                          ELSE parsed.models
      /\ parsed'.tools = IF e.type = "assistant" THEN parsed.tools + S!ToolUses(e)
                         ELSE parsed.tools
      /\ parsed'.results = IF e.type = "result" THEN parsed.results + 1 ELSE parsed.results
  BY DEF S!Read, S!ParseLine, S!Observed, StreamShape
<1>6. parsed'.bad = (parsed.bad \/ (e.type = "assistant" /\ e.model \in {"mismatch", "foreign"}))
  BY DEF S!Read, S!ParseLine, S!Observed, StreamShape
<1>7. parsed'.error = (\/ parsed.error \/ e.type = "bad" \/ S!SessionWrong(e)
                       \/ e.type = "assistant" /\ S!AssistantWrong(parsed, e)
                       \/ e.type = "result" /\ S!ResultWrong(e))
  BY DEF S!Read, S!ParseLine, S!Observed, StreamShape
<1>8. /\ \A i \in 1..Len(lines') : \/ i \in 1..Len(lines) /\ lines'[i] = lines[i]
                                   \/ i = Len(lines) + 1 /\ lines'[i] = e
      /\ \A i \in 1..Len(lines) : i \in 1..Len(lines') /\ lines'[i] = lines[i]
      /\ Len(lines) + 1 \in 1..Len(lines') /\ lines'[Len(lines) + 1] = e
  BY <1>2, <1>3
<1>9. StreamShape'
  <2>1. /\ parsed.models \subseteq {"match", "mismatch"} /\ parsed.sessions \subseteq {"exact", "other"}
        /\ parsed.tools \in Nat /\ parsed.results \in Nat
    BY DEF StreamShape
  <2>2. /\ parsed'.models \subseteq {"match", "mismatch"}
        /\ parsed'.sessions \subseteq {"exact", "other"}
        /\ parsed'.tools \in Nat /\ parsed'.results \in Nat
    BY <1>4, <1>5, <2>1
  <2>3. parsed'.bad \in BOOLEAN
    BY <1>6, Zenon
  <2>4. parsed'.error \in BOOLEAN
    BY <1>7, Zenon
  <2>5. parsed' = [error |-> parsed'.error, models |-> parsed'.models, bad |-> parsed'.bad,
                   sessions |-> parsed'.sessions, tools |-> parsed'.tools,
                   results |-> parsed'.results]
    BY DEF S!Read, S!ParseLine, S!Observed, StreamShape
  <2> QED BY <1>2, <2>2, <2>3, <2>4, <2>5 DEF StreamShape
<1>10. ResultsCounted'
  <2>0. /\ parsed'.results = IF e.type = "result" THEN parsed.results + 1 ELSE parsed.results
        /\ parsed.results \in Nat
        /\ parsed.results = 0 <=> \A i \in 1..Len(lines) : lines[i].type # "result"
    BY <1>5 DEF ResultsCounted, StreamShape
  <2>1. parsed'.results = 0 <=> \A i \in 1..Len(lines') : lines'[i].type # "result"
    <3>1. CASE e.type = "result"
      BY <1>8, <2>0, <3>1
    <3>2. CASE e.type # "result"
      <4>1. parsed'.results = 0 <=> \A i \in 1..Len(lines) : lines[i].type # "result"
        BY <2>0, <3>2
      <4> QED BY <1>8, <3>2, <4>1
    <3> QED BY <3>1, <3>2
  <2>2. ASSUME parsed'.results = 1
        PROVE  \E last \in 1..Len(lines') :
                 \A i \in 1..Len(lines') : lines'[i].type = "result" <=> i = last
    <3>1. CASE e.type = "result"
      <4>1. \A i \in 1..Len(lines) : lines[i].type # "result"
        BY <2>0, <2>2, <3>1
      <4>2. \A i \in 1..Len(lines') : lines'[i].type = "result" <=> i = Len(lines) + 1
        BY <1>3, <1>8, <3>1, <4>1
      <4> QED BY <1>8, <4>2
    <3>2. CASE e.type # "result"
      <4>1. PICK last \in 1..Len(lines) :
              \A i \in 1..Len(lines) : lines[i].type = "result" <=> i = last
        BY <2>0, <2>2, <3>2 DEF ResultsCounted
      <4>2. \A i \in 1..Len(lines') : lines'[i].type = "result" <=> i = last
        BY <1>3, <1>8, <3>2, <4>1
      <4> QED BY <1>8, <4>1, <4>2
    <3> QED BY <3>1, <3>2
  <2>3. ASSUME NEW last \in 1..Len(lines'),
               \A i \in 1..Len(lines') : lines'[i].type = "result" <=> i = last
        PROVE  parsed'.results = 1
    <3>1. CASE e.type = "result"
      <4>1. last = Len(lines) + 1
        BY <1>8, <2>3, <3>1
      <4>2. \A i \in 1..Len(lines) : lines[i].type # "result"
        BY <1>3, <1>8, <2>3, <4>1
      <4> QED BY <1>5, <3>1, <4>2 DEF ResultsCounted
    <3>2. CASE e.type # "result"
      <4>1. last \in 1..Len(lines)
        BY <1>8, <2>3, <3>2
      <4>2. \A i \in 1..Len(lines) : lines[i].type = "result" <=> i = last
        BY <1>8, <2>3
      <4> QED BY <1>5, <3>2, <4>1, <4>2 DEF ResultsCounted
    <3> QED BY <3>1, <3>2
  <2> QED BY <2>1, <2>2, <2>3 DEF ResultsCounted
<1>11. ModelsCollected'
  <2>1. ASSUME NEW m \in {"match", "mismatch"}
        PROVE  m \in parsed'.models <=>
                 \E i \in 1..Len(lines') : lines'[i].type = "assistant" /\ lines'[i].model = m
    <3>1. m \in parsed'.models <=> m \in parsed.models \/ (e.type = "assistant" /\ e.model = m)
      BY <1>5, <2>1
    <3>2. m \in parsed.models <=>
            \E i \in 1..Len(lines) : lines[i].type = "assistant" /\ lines[i].model = m
      BY <2>1 DEF ModelsCollected
    <3> QED BY <1>8, <3>1, <3>2
  <2>2. parsed'.bad <=> \E i \in 1..Len(lines') :
          lines'[i].type = "assistant" /\ lines'[i].model \in {"mismatch", "foreign"}
    BY <1>6, <1>8 DEF ModelsCollected
  <2> QED BY <2>1, <2>2 DEF ModelsCollected
<1>12. SessionsCollected'
  BY <1>5, <1>8 DEF SessionsCollected
<1>13. ToolsCounted'
  <2>1. \A i \in 1..Len(lines) : S!ToolUses(lines[i])' = S!ToolUses(lines[i])
    BY <1>2, <1>8 DEF S!ToolUses, S!Structured
  <2>2. S!ToolUses(lines'[Len(lines) + 1]) = S!ToolUses(e)
    BY <1>8
  <2> DEFINE uses(i) == S!ToolUses(lines[i])
  <2>3. /\ \A i \in 1..Len(lines) : uses(i)' = uses(i)
        /\ \A i \in 1..Len(lines') : i \notin 1..Len(lines) => uses(i)' = S!ToolUses(e)
    BY <1>2, <1>8 DEF S!ToolUses, S!Structured
  <2>4. parsed.tools = 0 <=>
          \A i \in 1..Len(lines) : lines[i].type = "assistant" => uses(i) = 0
    BY DEF ToolsCounted
  <2>5. S!ToolUses(e) \in Nat /\ parsed.tools \in Nat
    BY <1>4 DEF StreamShape
  <2> HIDE DEF uses
  <2>6. (parsed.tools = 0 <=>
          \A i \in 1..Len(lines) : lines[i].type = "assistant" => uses(i) = 0)'
    BY <1>3, <1>5, <1>8, <2>3, <2>4, <2>5
  <2> QED BY <2>6 DEF ToolsCounted, uses
<1>14. ErrorsNoted'
  <2>1. \A i \in 1..Len(lines) : LineWrong(i)' <=> LineWrong(i)
    BY <1>2, <1>3 DEF LineWrong, S!SessionWrong, S!ContentWrong, S!ResultWrong, S!ToolUses,
                S!Structured, S!Allowed
  <2>2. ASSUME NEW k, k = Len(lines) + 1
        PROVE  LineWrong(k)' <=>
                 \/ e.type = "bad" \/ S!SessionWrong(e)
                 \/ e.type = "assistant" /\ S!AssistantWrong(parsed, e)
                 \/ e.type = "result" /\ S!ResultWrong(e)
    <3>1. parsed.results > 0 <=> \E j \in 1..Len(lines') : j < k /\ lines'[j].type = "result"
      <4>1. parsed.results > 0 <=> \E j \in 1..Len(lines) : lines[j].type = "result"
        BY DEF ResultsCounted, StreamShape
      <4>2. \A j \in 1..Len(lines') : j < k <=> j \in 1..Len(lines)
        BY <1>2, <2>2
      <4> QED BY <1>8, <4>1, <4>2
    <3>2. lines'[k] = e /\ purpose' = purpose
      BY <1>2, <2>2
    <3> QED BY <3>1, <3>2 DEF LineWrong, S!AssistantWrong, S!SessionWrong, S!ContentWrong,
                    S!ResultWrong, S!ToolUses, S!Structured, S!Allowed
  <2>3. PICK k : k = Len(lines) + 1
    OBVIOUS
  <2>4. parsed.error <=> \E i \in 1..Len(lines) : LineWrong(i)
    BY DEF ErrorsNoted
  <2>5. parsed'.error <=> (parsed.error \/ LineWrong(k)')
    BY <1>7, <2>2, <2>3
  <2>6. \A i \in 1..Len(lines') : i \in 1..Len(lines) \/ i = k
    BY <1>8, <2>3
  <2>7. k \in 1..Len(lines') /\ \A i \in 1..Len(lines) : i \in 1..Len(lines')
    BY <1>8, <2>3
  <2>8. parsed'.error <=> \E i \in 1..Len(lines') : LineWrong(i)'
    BY <2>1, <2>4, <2>5, <2>6, <2>7
  <2> QED BY <2>8 DEF ErrorsNoted
<1> QED BY <1>9, <1>10, <1>11, <1>12, <1>13, <1>14

\* The verdict is right about the lines it has seen (validated_success).
LEMMA VerdictFollows == StreamInvariant => VerdictExact
<1> SUFFICES ASSUME StreamInvariant PROVE VerdictExact
  OBVIOUS
<1> USE DEF StreamInvariant
<1>1. /\ DOMAIN lines = 1..Len(lines) /\ Len(lines) \in Nat
      /\ \A i \in 1..Len(lines) : lines[i] \in EventRecord
  BY DEF StreamShape
<1>2. ASSUME S!ValidatedSuccess(parsed) PROVE S!Trustworthy
  <2>1. /\ ~parsed.error /\ parsed.results = 1 /\ parsed.models # {} /\ ~parsed.bad
        /\ parsed.tools > 0 => purpose = "harness"
        /\ parsed.sessions = {"exact"}
    BY <1>2 DEF S!ValidatedSuccess
  <2>2. \A i \in 1..Len(lines) : ~LineWrong(i)
    BY <2>1 DEF ErrorsNoted
  <2>3. PICK last \in 1..Len(lines) :
          \A i \in 1..Len(lines) : lines[i].type = "result" <=> i = last
    BY <2>1 DEF ResultsCounted
  <2>4. \A i \in 1..Len(lines) : lines[i].type = "assistant" =>
          /\ i < last /\ lines[i].model = "match"
          /\ lines[i].tool \in {"none"} \union S!Allowed
               \union (IF S!Structured THEN {"StructuredOutput"} ELSE {})
    <3> TAKE i \in 1..Len(lines)
    <3> HAVE lines[i].type = "assistant"
    <3>1. i < last
      BY <2>2, <2>3 DEF LineWrong
    <3>2. lines[i].model = "match"
      BY <1>1, <2>1, <2>2 DEF LineWrong, ModelsCollected, EventRecord
    <3>3. lines[i].tool # "malformed"
      BY <2>2 DEF LineWrong, S!ContentWrong
    <3>4. lines[i].tool \in {"none"} \union S!Allowed
            \union (IF S!Structured THEN {"StructuredOutput"} ELSE {})
      <4>1. CASE purpose = "harness"
        BY <1>1, <2>2, <3>3, <4>1
           DEF LineWrong, S!ContentWrong, S!ToolUses, S!Structured, S!Allowed, EventRecord
      <4>2. CASE purpose # "harness"
        <5>1. S!ToolUses(lines[i]) = 0
          BY <2>1, <4>2 DEF ToolsCounted, StreamShape
        <5> QED BY <3>3, <4>2, <5>1 DEF S!ToolUses, S!Structured, S!Allowed
      <4> QED BY <4>1, <4>2
    <3> QED BY <3>1, <3>2, <3>4
  <2>5. \A i \in 1..Len(lines) :
          /\ lines[i].type # "bad"
          /\ lines[i].session = "exact" \/ (lines[i].type = "system" /\ lines[i].session = "none")
    BY <1>1, <2>1, <2>2 DEF LineWrong, S!SessionWrong, SessionsCollected, EventRecord
  <2>6. \E i \in 1..Len(lines) : lines[i].type = "assistant"
    BY <2>1 DEF ModelsCollected, StreamShape
  <2>7. /\ lines[last].ending = "success"
        /\ (IF S!Structured THEN "object" ELSE "text") \in lines[last].answer
    BY <2>2, <2>3 DEF LineWrong, S!ResultWrong
  <2>8. S!Indices("result") = {last} /\ S!Indices("assistant") =
          {i \in 1..Len(lines) : lines[i].type = "assistant"}
    BY <1>1, <2>3 DEF S!Indices
  <2> QED BY <1>1, <2>4, <2>5, <2>6, <2>7, <2>8 DEF S!Trustworthy
<1>3. ASSUME S!Trustworthy PROVE S!ValidatedSuccess(parsed)
  <2>1. \A type \in {"result", "assistant"} :
          S!Indices(type) = {i \in 1..Len(lines) : lines[i].type = type}
    BY <1>1 DEF S!Indices
  <2>2. PICK last \in 1..Len(lines) :
          /\ lines[last].type = "result" /\ \A i \in 1..Len(lines) : lines[i].type = "result" => i = last
          /\ lines[last].ending = "success"
          /\ (IF S!Structured THEN "object" ELSE "text") \in lines[last].answer
          /\ \E i \in 1..Len(lines) : lines[i].type = "assistant"
          /\ \A i \in 1..Len(lines) : lines[i].type = "assistant" => i < last
    BY <1>3, <2>1 DEF S!Trustworthy
  <2>3. \A i \in 1..Len(lines) :
          /\ lines[i].type # "bad"
          /\ lines[i].session = "exact" \/ (lines[i].type = "system" /\ lines[i].session = "none")
    BY <1>1, <1>3 DEF S!Trustworthy
  <2>4. \A i \in 1..Len(lines) : lines[i].type = "assistant" =>
          /\ lines[i].model = "match"
          /\ lines[i].tool \in {"none"} \union S!Allowed
               \union (IF S!Structured THEN {"StructuredOutput"} ELSE {})
    BY <1>3, <2>1 DEF S!Trustworthy
  <2>5. ~parsed.error
    <3>1. ASSUME NEW i \in 1..Len(lines) PROVE ~LineWrong(i)
      <4>1. lines[i].type # "bad" /\ ~S!SessionWrong(lines[i])
        BY <2>3 DEF S!SessionWrong
      <4>2. ASSUME lines[i].type = "assistant"
            PROVE  /\ ~S!ContentWrong(lines[i]) /\ lines[i].model # "none"
                   /\ ~ \E j \in 1..Len(lines) : j < i /\ lines[j].type = "result"
        BY <2>2, <2>4, <4>2 DEF S!ContentWrong, S!ToolUses, S!Allowed, S!Structured
      <4>3. lines[i].type = "result" => ~S!ResultWrong(lines[i])
        BY <2>2 DEF S!ResultWrong
      <4> QED BY <4>1, <4>2, <4>3 DEF LineWrong
    <3> QED BY <3>1 DEF ErrorsNoted
  <2>6. parsed.results = 1
    BY <2>2 DEF ResultsCounted
  <2>7. parsed.models # {} /\ ~parsed.bad
    BY <2>2, <2>4 DEF ModelsCollected
  <2>8. parsed.tools > 0 => purpose = "harness"
    <3>1. SUFFICES ASSUME purpose # "harness" PROVE parsed.tools = 0
      BY DEF StreamShape
    <3>2. \A i \in 1..Len(lines) : lines[i].type = "assistant" => S!ToolUses(lines[i]) = 0
      BY <2>4, <3>1 DEF S!ToolUses, S!Allowed
    <3> QED BY <3>2 DEF ToolsCounted
  <2>9. parsed.sessions = {"exact"}
    BY <1>1, <2>2, <2>3 DEF SessionsCollected, StreamShape
  <2> QED BY <2>5, <2>6, <2>7, <2>8, <2>9 DEF S!ValidatedSuccess
<1> QED BY <1>2, <1>3 DEF VerdictExact, S!VerdictExact

\* Line by line, whatever comes (parse_stream).
THEOREM StreamInvariantHolds == S!Spec => []StreamInvariant
<1>1. StreamInvariant /\ [S!Next]_(S!vars) => StreamInvariant'
  <2> SUFFICES ASSUME StreamInvariant, [S!Next]_(S!vars) PROVE StreamInvariant'
    OBVIOUS
  <2>1. CASE UNCHANGED S!vars
    <3>1. purpose' = purpose /\ lines' = lines /\ parsed' = parsed
      BY <2>1 DEF S!vars
    <3>2. StreamShape'
      BY <3>1 DEF StreamInvariant, StreamShape
    <3>3. ResultsCounted'
      BY <3>1 DEF StreamInvariant, ResultsCounted
    <3>4. ModelsCollected' /\ SessionsCollected'
      BY <3>1 DEF StreamInvariant, ModelsCollected, SessionsCollected
    <3>5. ToolsCounted'
      BY <3>1 DEF StreamInvariant, ToolsCounted, S!ToolUses, S!Structured
    <3>6. ErrorsNoted'
      <4>1. \A i \in 1..Len(lines) : LineWrong(i)' <=> LineWrong(i)
        BY <3>1 DEF LineWrong, S!SessionWrong, S!ContentWrong, S!ResultWrong, S!ToolUses,
                    S!Structured, S!Allowed
      <4> QED BY <3>1, <4>1 DEF StreamInvariant, ErrorsNoted
    <3> QED BY <3>2, <3>3, <3>4, <3>5, <3>6 DEF StreamInvariant
  <2> QED BY <2>1, ReadSafe DEF S!Next
<1> QED BY <1>1, StreamStarts, PTL DEF S!Spec

\* parse_stream validates exactly the streams that can be trusted, wherever the
\* process was stopped and whatever it wrote out of order.
THEOREM StreamVerdictExact == S!Spec => []VerdictExact
BY StreamInvariantHolds, VerdictFollows, PTL

-----------------------------------------------------------------------------
(* Terminals: what is kept under a request is the agent of its one launch.   *)

FileRecord ==
  [status : {"none", "starting", "launch_failed", "unknown", "started"},
   intent : Intents \union {"none"}, id : 0..MaxAgents]
AgentRecord == [of : Requests \union {"foreign"}, status : {"hidden", "listed", "ended"}]
DescriptorRecord == [request : Requests \union {"none"}, intent : Intents \union {"none"}]
ClientRecord ==
  [pc : {"away", "locked", "launch", "wait", "look", "adopt", "found", "described"},
   request : Requests \union {"none"}, intent : Intents \union {"none"}, id : 0..MaxAgents]

TerminalShape ==
  /\ file \in [Requests -> FileRecord] /\ agent \in Seq(AgentRecord) /\ Len(agent) <= MaxAgents
  /\ descriptor \in [1..MaxAgents -> DescriptorRecord]
  /\ client \in [Clients -> ClientRecord]
  /\ launches \in [Requests -> Nat] /\ operated \subseteq 1..MaxAgents

\* Agent i was launched for request r.
Launched(i, r) == i \in 1..Len(agent) /\ agent[i].of = r

\* A request without its file was never launched, and none is launched again.
FilesFirst ==
  /\ \A r \in Requests :
       /\ launches[r] <= 1 /\ (file[r].status = "none" => launches[r] = 0)
       /\ file[r].status = "none" <=> file[r] = T!NoFile
       /\ file[r].id # 0 => Launched(file[r].id, r)
  /\ \A i \in 1..MaxAgents : descriptor[i] # T!NoDescriptor =>
       /\ descriptor[i].request \in Requests /\ Launched(i, descriptor[i].request)
       /\ file[descriptor[i].request].status # "none"
       /\ file[descriptor[i].request].intent = descriptor[i].intent
  /\ \A i \in operated : descriptor[i] # T!NoDescriptor

\* What a client inside knows of the files it wrote or read, and of the launch.
Knows(local, files, count) ==
  /\ local.pc \in {"launch", "wait", "look", "found", "described"} =>
       files[local.request].status # "none" /\ files[local.request].intent = local.intent
  /\ local.pc = "launch" => count[local.request] = 0
  /\ local.pc \in {"locked", "launch", "wait"} => local.id = 0
  /\ local.pc = "look" /\ local.id # 0 => Launched(local.id, local.request)
  /\ local.pc \in {"found", "described"} => Launched(local.id, local.request)

\* Only the holder of registry.lock is inside.
ClientsKnow ==
  \A c \in Clients : client[c] # T!Away =>
    /\ lock = c /\ client[c].request \in Requests /\ client[c].intent \in Intents
    /\ Knows(client[c], file, launches)

TerminalsInvariant == TerminalShape /\ FilesFirst /\ ClientsKnow

\* Every descriptor, and everything that was operated, is of the launch of its
\* request (_descriptor).
LEMMA TerminalsPromise == HostAssumption /\ TerminalsInvariant => TerminalsOwned
<1> SUFFICES ASSUME HostAssumption, TerminalsInvariant PROVE TerminalsOwned
  OBVIOUS
<1>1. "foreign" \notin Requests
  BY DEF HostAssumption, T!TerminalsAssumption
<1>2. DOMAIN agent = 1..Len(agent)
  BY DEF TerminalsInvariant, TerminalShape
<1>3. \A i \in 1..MaxAgents : T!Managed(i) =>
        /\ i \in DOMAIN agent /\ agent[i].of = descriptor[i].request
        /\ file[descriptor[i].request].intent = descriptor[i].intent
        /\ agent[i].of # "foreign"
  BY <1>1, <1>2 DEF T!Managed, TerminalsInvariant, FilesFirst, Launched
<1>4. \A i \in operated : i \in 1..MaxAgents /\ T!Managed(i)
  BY DEF T!Managed, TerminalsInvariant, FilesFirst, TerminalShape
<1>5. \A r \in Requests : launches[r] <= 1
  BY DEF TerminalsInvariant, FilesFirst
<1> QED BY <1>3, <1>4, <1>5 DEF TerminalsOwned, T!TerminalsOwned, T!Ids

\* The registry is empty at first (_registry).
LEMMA TerminalsStart == HostAssumption /\ T!Init => TerminalsInvariant
<1> SUFFICES ASSUME HostAssumption, T!Init PROVE TerminalsInvariant
  OBVIOUS
<1> USE DEF T!Init, T!NoFile, T!NoDescriptor, T!Away, T!Ids
<1>0. MaxAgents \in Nat
  BY DEF HostAssumption, T!TerminalsAssumption
<1>1. TerminalShape
  BY <1>0 DEF TerminalShape, FileRecord, AgentRecord, DescriptorRecord, ClientRecord
<1>2. FilesFirst
  BY DEF FilesFirst
<1>3. ClientsKnow
  BY DEF ClientsKnow, Knows
<1> QED BY <1>1, <1>2, <1>3 DEF TerminalsInvariant

\* A client takes the lock with what it was asked, and leaves it as it goes (start).
LEMMA EnterSafe ==
  ASSUME HostAssumption, TerminalsInvariant, NEW c \in Clients,
         \/ \E r \in Requests, intent \in Intents : T!Start(c, r, intent)
         \/ T!Refuse(c) \/ T!Dies(c)
  PROVE  TerminalsInvariant'
<1> USE DEF TerminalsInvariant
<1>1. UNCHANGED <<file, agent, descriptor, launches, operated>>
  BY DEF T!Start, T!Refuse, T!Dies
<1>2. PICK next \in ClientRecord :
        /\ client' = [client EXCEPT ![c] = next]
        /\ \/ /\ next.pc = "locked" /\ next.request \in Requests /\ next.intent \in Intents
              /\ next.id = 0 /\ lock = "none" /\ lock' = c
           \/ next = T!Away /\ client[c] # T!Away
  <2>1. ASSUME NEW r \in Requests, NEW intent \in Intents, T!Start(c, r, intent)
        PROVE  [pc |-> "locked", request |-> r, intent |-> intent, id |-> 0] \in ClientRecord
    BY DEF ClientRecord, HostAssumption, T!TerminalsAssumption
  <2>2. T!Away \in ClientRecord
    BY DEF ClientRecord, T!Away, HostAssumption, T!TerminalsAssumption
  <2>3. CASE T!Refuse(c)
    <3>1. client' = [client EXCEPT ![c] = T!Away] /\ client[c].pc = "locked"
      BY <2>3 DEF T!Refuse, T!Leaves
    <3>2. client[c] # T!Away
      BY <3>1 DEF T!Away
    <3> QED BY <2>2, <3>1, <3>2
  <2>4. CASE T!Dies(c)
    BY <2>2, <2>4 DEF T!Dies
  <2>5. ASSUME NEW r \in Requests, NEW intent \in Intents, T!Start(c, r, intent)
        PROVE  \E next \in ClientRecord :
                 /\ client' = [client EXCEPT ![c] = next]
                 /\ next.pc = "locked" /\ next.request \in Requests /\ next.intent \in Intents
                 /\ next.id = 0 /\ lock = "none" /\ lock' = c
    BY <2>1, <2>5 DEF T!Start
  <2> QED BY <2>3, <2>4, <2>5
<1>3. TerminalShape' /\ FilesFirst'
  BY <1>1, <1>2 DEF TerminalShape, FilesFirst, Launched
<1>4. \A d \in Clients \ {c} : client[d] = T!Away
  BY <1>2, HostAssumption DEF ClientsKnow, Knows, HostAssumption, T!TerminalsAssumption
<1>5. \A d \in Clients \ {c} : client'[d] = T!Away
  BY <1>2, <1>4 DEF TerminalShape
<1>6. ClientsKnow'
  BY <1>1, <1>2, <1>5 DEF ClientsKnow, Knows, TerminalShape
<1> QED BY <1>3, <1>6

\* While one client is inside, no other one is (registry.lock).
LEMMA AloneInside ==
  ASSUME TerminalsInvariant, NEW c \in Clients, client[c].pc # "away"
  PROVE  /\ client[c] # T!Away /\ lock = c
         /\ \A d \in Clients \ {c} : client[d] = T!Away
<1>1. client[c] # T!Away
  BY DEF T!Away
<1> QED BY <1>1 DEF TerminalsInvariant, ClientsKnow, Knows

\* Files and descriptors stay as they are where nothing but the client moves.
LEMMA ClientMoves ==
  ASSUME TerminalsInvariant, NEW c \in Clients, client[c].pc # "away",
         NEW next \in ClientRecord, client' = [client EXCEPT ![c] = next],
         UNCHANGED <<agent, lock>>, TerminalShape', FilesFirst',
         next.request = client[c].request, next.intent = client[c].intent,
         Knows(next, file', launches')
  PROVE  TerminalsInvariant'
<1>1. /\ client[c] # T!Away /\ lock = c
      /\ \A d \in Clients \ {c} : client[d] = T!Away
  BY AloneInside
<1>2. /\ client'[c] = next /\ \A d \in Clients \ {c} : client'[d] = T!Away
  BY <1>1 DEF TerminalsInvariant, TerminalShape
<1>3. client[c].request \in Requests /\ client[c].intent \in Intents
  BY <1>1 DEF TerminalsInvariant, ClientsKnow, Knows
<1>4. \A i, r : Launched(i, r)' <=> Launched(i, r)
  BY DEF Launched
<1>5. ClientsKnow'
  <2>1. client'[c].request \in Requests /\ client'[c].intent \in Intents /\ lock' = c
    BY <1>1, <1>2, <1>3
  <2>2. Knows(client[c], file, launches)'
    BY <1>2, <1>4 DEF Knows
  <2>3. \A d \in Clients : client'[d] # T!Away => d = c
    BY <1>2
  <2> QED BY <2>1, <2>2, <2>3 DEF ClientsKnow, Knows
<1> QED BY <1>5 DEF TerminalsInvariant

\* One that leaves takes nothing with it.
LEMMA ClientLeaves ==
  ASSUME TerminalsInvariant, NEW c \in Clients, client[c].pc # "away", T!Leaves(c),
         TerminalShape', FilesFirst'
  PROVE  TerminalsInvariant'
<1>1. \A d \in Clients \ {c} : client[d] = T!Away
  BY AloneInside
<1>2. \A d \in Clients : client'[d] = T!Away
  BY <1>1 DEF T!Leaves, TerminalsInvariant, TerminalShape
<1> QED BY <1>2 DEF TerminalsInvariant, ClientsKnow, Knows

\* The file of a request comes before its launch (start_terminal).
LEMMA WriteRequestSafe ==
  ASSUME HostAssumption, TerminalsInvariant, NEW c \in Clients, T!WriteRequest(c)
  PROVE  TerminalsInvariant'
<1> DEFINE r == client[c].request
           next == [client[c] EXCEPT !.pc = "launch"]
<1>1. /\ client[c].pc = "locked" /\ file[r] = T!NoFile
      /\ file' = [file EXCEPT ![r] = [status |-> "starting", intent |-> client[c].intent, id |-> 0]]
      /\ client' = [client EXCEPT ![c].pc = "launch"]
      /\ UNCHANGED <<agent, descriptor, lock, running, attached, launches, operated>>
  BY DEF T!WriteRequest, T!FileOf, T!Request, T!Goes
<1>2. /\ r \in Requests /\ client[c].intent \in Intents /\ client[c].id = 0 /\ client[c].pc # "away"
  BY <1>1, AloneInside DEF TerminalsInvariant, ClientsKnow, Knows
<1>3. client[c] \in ClientRecord /\ MaxAgents \in Nat /\ client' = [client EXCEPT ![c] = next]
  BY <1>1 DEF TerminalsInvariant, TerminalShape, HostAssumption, T!TerminalsAssumption
<1>4. /\ next \in ClientRecord /\ next.pc = "launch"
      /\ next.request = r /\ next.request = client[c].request
      /\ next.intent = client[c].intent /\ next.id = 0
  BY <1>2, <1>3 DEF ClientRecord
<1>5. [status |-> "starting", intent |-> client[c].intent, id |-> 0] \in FileRecord
  BY <1>2, <1>3 DEF FileRecord
<1> HIDE DEF r, next
<1>6. TerminalShape'
  BY <1>1, <1>3, <1>4, <1>5 DEF TerminalsInvariant, TerminalShape
<1>7. /\ file'[r].status = "starting" /\ file'[r].intent = client[c].intent /\ file'[r].id = 0
      /\ file'[r] # T!NoFile
      /\ \A s \in Requests \ {r} : file'[s] = file[s]
  BY <1>1, <1>2 DEF T!NoFile, TerminalsInvariant, TerminalShape
<1>8. launches[r] = 0 /\ file[r].status = "none"
  BY <1>1, <1>2 DEF T!NoFile, TerminalsInvariant, FilesFirst
<1>9. FilesFirst'
  BY <1>1, <1>2, <1>7, <1>8 DEF TerminalsInvariant, FilesFirst, Launched
<1>10. Knows(next, file', launches')
  BY <1>1, <1>4, <1>7, <1>8 DEF Knows
<1>11. /\ client' = [client EXCEPT ![c] = next] /\ next \in ClientRecord
      /\ client[c].pc # "away" /\ agent' = agent /\ lock' = lock
      /\ next.request = client[c].request /\ next.intent = client[c].intent
  BY <1>1, <1>2, <1>3, <1>4
<1> QED BY <1>6, <1>9, <1>10, <1>11, ClientMoves

\* A request is launched by the one that wrote its file (claude --bg).
LEMMA LaunchSafe ==
  ASSUME HostAssumption, TerminalsInvariant, NEW c \in Clients, T!Launch(c)
  PROVE  TerminalsInvariant'
<1> DEFINE r == client[c].request
           next == [client[c] EXCEPT !.pc = "wait"]
<1>1. /\ client[c].pc = "launch" /\ launches' = [launches EXCEPT ![r] = @ + 1]
      /\ client' = [client EXCEPT ![c].pc = "wait"]
      /\ UNCHANGED <<file, agent, descriptor, lock, attached, operated>>
  BY DEF T!Launch, T!Request, T!Goes
<1>2. /\ r \in Requests /\ client[c].intent \in Intents /\ client[c].id = 0
      /\ client[c].pc # "away" /\ launches[r] = 0
      /\ file[r].status # "none" /\ file[r].intent = client[c].intent
  BY <1>1, AloneInside DEF TerminalsInvariant, ClientsKnow, Knows
<1>3. client[c] \in ClientRecord /\ client' = [client EXCEPT ![c] = next]
  BY <1>1 DEF TerminalsInvariant, TerminalShape
<1>4. /\ next \in ClientRecord /\ next.pc = "wait"
      /\ next.request = r /\ next.request = client[c].request
      /\ next.intent = client[c].intent /\ next.id = 0
  BY <1>2, <1>3 DEF ClientRecord
<1> HIDE DEF r, next
<1>5. /\ launches' \in [Requests -> Nat] /\ launches'[r] = 1
      /\ \A s \in Requests \ {r} : launches'[s] = launches[s]
  BY <1>1, <1>2 DEF TerminalsInvariant, TerminalShape
<1>6. TerminalShape'
  <2>1. client' \in [Clients -> ClientRecord]
    BY <1>3, <1>4 DEF TerminalsInvariant, TerminalShape
  <2> QED BY <1>1, <1>5, <2>1 DEF TerminalsInvariant, TerminalShape
<1>7. FilesFirst'
  BY <1>1, <1>2, <1>5 DEF TerminalsInvariant, FilesFirst, Launched
<1>8. Knows(next, file', launches')
  BY <1>1, <1>2, <1>4 DEF Knows
<1> QED BY <1>1, <1>2, <1>3, <1>4, <1>6, <1>7, <1>8, ClientMoves

\* What was found is the agent of the request: the id that was answered, the one that
\* was recorded, or the one of its name (_find_agent).
LEMMA FoundSafe ==
  ASSUME HostAssumption, TerminalsInvariant, NEW c \in Clients,
         T!LaunchAnswered(c) \/ T!Look(c) \/ T!Adopt(c)
  PROVE  TerminalsInvariant'
<1> DEFINE r == client[c].request
<1>0. UNCHANGED <<file, agent, descriptor, running, attached, launches, operated>>
  BY DEF T!LaunchAnswered, T!Look, T!Adopt
<1>1. client[c].pc \in {"wait", "look", "locked"}
  BY DEF T!LaunchAnswered, T!Look, T!Adopt
<1>2. client[c].pc # "away" /\ r \in Requests /\ client[c] \in ClientRecord
  BY <1>1, AloneInside DEF TerminalsInvariant, ClientsKnow, Knows, TerminalShape
<1>3. ASSUME NEW i \in 0..MaxAgents, NEW pc \in {"look", "found"},
             client' = [client EXCEPT ![c].pc = pc, ![c].id = i], lock' = lock,
             file[r].status # "none", file[r].intent = client[c].intent,
             Launched(i, r) \/ (pc = "look" /\ i = 0)
      PROVE  TerminalsInvariant'
  <2> DEFINE next == [client[c] EXCEPT !.pc = pc, !.id = i]
  <2>1. client' = [client EXCEPT ![c] = next]
    BY <1>3 DEF TerminalsInvariant, TerminalShape
  <2>2. /\ next \in ClientRecord /\ next.pc = pc
      /\ next.request = r /\ next.request = client[c].request
        /\ next.intent = client[c].intent /\ next.id = i
    BY <1>2 DEF ClientRecord
  <2> HIDE DEF next
  <2>3. TerminalShape' /\ FilesFirst'
    BY <1>0, <2>1, <2>2 DEF TerminalsInvariant, TerminalShape, FilesFirst, Launched
  <2>4. agent' = agent /\ file' = file
    BY <1>0
  <2>5. Knows(next, file', launches')
    BY <1>3, <2>2, <2>4 DEF Knows
  <2> QED BY <1>2, <1>3, <2>1, <2>2, <2>3, <2>4, <2>5, ClientMoves
<1>4. /\ DOMAIN agent = 1..Len(agent) /\ 1..Len(agent) \subseteq 1..MaxAgents
      /\ MaxAgents \in Nat /\ Len(agent) \in Nat
  BY DEF TerminalsInvariant, TerminalShape, HostAssumption, T!TerminalsAssumption
<1>5. CASE T!LaunchAnswered(c)
  <2>1. /\ client[c].pc = "wait" /\ lock' = lock
        /\ \/ \E i \in 1..Len(agent) :
                agent[i].of = r /\ client' = [client EXCEPT ![c].pc = "look", ![c].id = i]
           \/ client' = [client EXCEPT ![c].pc = "look"]
    BY <1>4, <1>5 DEF T!LaunchAnswered, T!Request, T!Goes
  <2>2. /\ file[r].status # "none" /\ file[r].intent = client[c].intent /\ client[c].id = 0
    BY <2>1, AloneInside DEF TerminalsInvariant, ClientsKnow, Knows
  <2>3. CASE client' = [client EXCEPT ![c].pc = "look"]
    <3>1. client' = [client EXCEPT ![c].pc = "look", ![c].id = 0]
      BY <1>2, <2>2, <2>3 DEF ClientRecord, TerminalsInvariant, TerminalShape
    <3>2. 0 \in 0..MaxAgents /\ "look" \in {"look", "found"}
      BY <1>4
    <3> QED BY <1>3, <2>1, <2>2, <3>1, <3>2, Zenon
  <2>4. ASSUME NEW i \in 1..Len(agent), agent[i].of = r,
               client' = [client EXCEPT ![c].pc = "look", ![c].id = i]
        PROVE  TerminalsInvariant'
    <3>1. i \in 0..MaxAgents /\ "look" \in {"look", "found"} /\ Launched(i, r)
      BY <1>4, <2>4 DEF Launched
    <3> QED BY <1>3, <2>1, <2>2, <2>4, <3>1, Zenon
  <2> QED BY <2>1, <2>3, <2>4
<1>6. CASE T!Look(c)
  <2>1. PICK i \in 1..Len(agent) :
          /\ IF client[c].id # 0 THEN i = client[c].id /\ T!Listed(i)
             ELSE agent[i].of = r /\ T!Attachable(i)
          /\ client' = [client EXCEPT ![c].pc = "found", ![c].id = i]
    BY <1>4, <1>6 DEF T!Look, T!Request
  <2>2. client[c].pc = "look" /\ lock' = lock
    BY <1>6 DEF T!Look
  <2>3. /\ file[r].status # "none" /\ file[r].intent = client[c].intent
        /\ client[c].id # 0 => Launched(client[c].id, r)
    BY <2>2, AloneInside DEF TerminalsInvariant, ClientsKnow, Knows
  <2>4. i \in 0..MaxAgents /\ "found" \in {"look", "found"} /\ Launched(i, r)
    BY <1>4, <2>1, <2>3 DEF Launched
  <2> QED BY <1>3, <2>1, <2>2, <2>3, <2>4, Zenon
<1>7. CASE T!Adopt(c)
  <2> DEFINE recorded == {i \in 1..MaxAgents : file[r].id = i /\ T!Listed(i)}
             named == {i \in DOMAIN agent : agent[i].of = r /\ T!Attachable(i)}
             candidates == IF recorded # {} THEN recorded ELSE named
  <2>1. file[r] # T!NoFile /\ file[r].intent = client[c].intent
    BY <1>7 DEF T!Adopt, T!FileOf, T!Request
  <2>2. \/ T!Leaves(c)
        \/ \E i \in candidates :
             client' = [client EXCEPT ![c].pc = "found", ![c].id = i] /\ lock' = lock
    BY <1>7 DEF T!Adopt, T!FileOf, T!Request, T!Ids
  <2>3. \A i \in candidates : Launched(i, r)
    BY <1>2, <1>4 DEF TerminalsInvariant, FilesFirst, Launched
  <2>4. file[r].status # "none"
    BY <1>2, <2>1 DEF TerminalsInvariant, FilesFirst
  <2> HIDE DEF candidates
  <2>5. CASE T!Leaves(c)
    <3>1. T!Away \in ClientRecord
      BY <1>4 DEF ClientRecord, T!Away
    <3>2. TerminalShape' /\ FilesFirst'
      BY <1>0, <2>5, <3>1 DEF T!Leaves, TerminalsInvariant, TerminalShape, FilesFirst, Launched
    <3> QED BY <1>2, <2>5, <3>2, ClientLeaves
  <2>6. ASSUME NEW i \in candidates,
               client' = [client EXCEPT ![c].pc = "found", ![c].id = i], lock' = lock
        PROVE  TerminalsInvariant'
    <3>1. i \in 0..MaxAgents /\ "found" \in {"look", "found"} /\ Launched(i, r)
      BY <1>4, <2>3, <2>6 DEF Launched
    <3> QED BY <1>3, <2>1, <2>4, <2>6, <3>1, Zenon
  <2> QED BY <2>2, <2>5, <2>6
<1> QED BY <1>5, <1>6, <1>7

\* The descriptor and then the file say what was found (_write_descriptor).
LEMMA WriteDescriptorSafe ==
  ASSUME HostAssumption, TerminalsInvariant, NEW c \in Clients, T!WriteDescriptor(c)
  PROVE  TerminalsInvariant'
<1> DEFINE r == client[c].request
           next == [client[c] EXCEPT !.pc = "described"]
           kept == [request |-> r, intent |-> client[c].intent]
           found == client[c].id
<1>1. /\ client[c].pc = "found" /\ descriptor' = [descriptor EXCEPT ![found] = kept]
      /\ client' = [client EXCEPT ![c].pc = "described"]
      /\ UNCHANGED <<file, agent, lock, running, attached, launches, operated>>
  BY DEF T!WriteDescriptor, T!Request, T!Goes
<1>2. /\ r \in Requests /\ client[c].intent \in Intents /\ client[c].pc # "away"
      /\ file[r].status # "none" /\ file[r].intent = client[c].intent /\ Launched(found, r)
  BY <1>1, AloneInside DEF TerminalsInvariant, ClientsKnow, Knows
<1>3. client[c] \in ClientRecord /\ client' = [client EXCEPT ![c] = next]
  BY <1>1 DEF TerminalsInvariant, TerminalShape
<1>4. /\ next \in ClientRecord /\ next.pc = "described"
      /\ next.request = r /\ next.request = client[c].request
      /\ next.intent = client[c].intent /\ next.id = found
  BY <1>2, <1>3 DEF ClientRecord
<1>5. /\ kept \in DescriptorRecord /\ kept # T!NoDescriptor /\ kept.request = r
      /\ kept.intent = client[c].intent
  BY <1>2 DEF DescriptorRecord, T!NoDescriptor, HostAssumption, T!TerminalsAssumption
<1>6. found \in 1..MaxAgents
  BY <1>2 DEF Launched, TerminalsInvariant, TerminalShape, HostAssumption, T!TerminalsAssumption
<1> HIDE DEF r, next, kept, found
<1>7. /\ descriptor' \in [1..MaxAgents -> DescriptorRecord] /\ descriptor'[found] = kept
      /\ \A i \in 1..MaxAgents : i # found => descriptor'[i] = descriptor[i]
  BY <1>1, <1>5, <1>6 DEF TerminalsInvariant, TerminalShape
<1>8. TerminalShape'
  BY <1>1, <1>3, <1>4, <1>7 DEF TerminalsInvariant, TerminalShape
<1>9. FilesFirst'
  <2>1. \A s \in Requests :
          /\ launches[s] <= 1 /\ (file[s].status = "none" => launches[s] = 0)
          /\ file[s].status = "none" <=> file[s] = T!NoFile
          /\ file[s].id # 0 => Launched(file[s].id, s)
    BY DEF TerminalsInvariant, FilesFirst
  <2>2. \A i \in 1..MaxAgents : descriptor'[i] # T!NoDescriptor =>
          /\ descriptor'[i].request \in Requests /\ Launched(i, descriptor'[i].request)
          /\ file[descriptor'[i].request].status # "none"
          /\ file[descriptor'[i].request].intent = descriptor'[i].intent
    BY <1>2, <1>5, <1>7 DEF TerminalsInvariant, FilesFirst
  <2>3. \A i \in operated : descriptor'[i] # T!NoDescriptor
    BY <1>5, <1>7 DEF TerminalsInvariant, FilesFirst, TerminalShape
  <2> QED BY <1>1, <2>1, <2>2, <2>3 DEF FilesFirst, Launched
<1>10. Knows(next, file', launches')
  BY <1>1, <1>2, <1>4 DEF Knows
<1> QED BY <1>1, <1>2, <1>3, <1>4, <1>8, <1>9, <1>10, ClientMoves

\* The file of a known request gets its status and, in the end, its agent
\* (start_terminal).
LEMMA FileSafe ==
  ASSUME HostAssumption, TerminalsInvariant, NEW c \in Clients,
         T!LaunchFails(c) \/ T!GiveUp(c) \/ T!WriteStarted(c)
  PROVE  TerminalsInvariant'
<1> DEFINE r == client[c].request
<1>1. PICK status \in {"launch_failed", "unknown", "started"}, id \in 0..MaxAgents :
        /\ file' = [file EXCEPT ![r].status = status, ![r].id = id]
        /\ id # 0 => Launched(id, r)
  <2>0. client[c].pc \in {"wait", "look", "described"}
    BY DEF T!LaunchFails, T!GiveUp, T!WriteStarted
  <2>1. /\ r \in Requests /\ file[r] \in FileRecord /\ client[c] \in ClientRecord
        /\ file[r].id # 0 => Launched(file[r].id, r)
        /\ client[c].pc = "described" => Launched(client[c].id, r)
    BY <2>0, AloneInside DEF TerminalsInvariant, TerminalShape, ClientsKnow, Knows, FilesFirst
  <2>2. /\ file[r].id \in 0..MaxAgents /\ client[c].id \in 0..MaxAgents
    BY <2>1 DEF FileRecord, ClientRecord
  <2>3. ASSUME NEW status \in {"launch_failed", "unknown"},
               file' = [file EXCEPT ![r].status = status]
        PROVE  file' = [file EXCEPT ![r].status = status, ![r].id = file[r].id]
    BY <2>1, <2>3 DEF TerminalsInvariant, TerminalShape, FileRecord
  <2>4. CASE T!LaunchFails(c)
    BY <2>1, <2>2, <2>3, <2>4 DEF T!LaunchFails, T!Request
  <2>5. CASE T!GiveUp(c)
    BY <2>1, <2>2, <2>3, <2>5 DEF T!GiveUp, T!Request
  <2>6. CASE T!WriteStarted(c)
    BY <2>1, <2>2, <2>6 DEF T!WriteStarted, T!Request
  <2> QED BY <2>4, <2>5, <2>6
<1>2. /\ client[c].pc \in {"wait", "look", "described"} /\ T!Leaves(c)
      /\ UNCHANGED <<agent, descriptor, running, attached, launches, operated>>
  BY DEF T!LaunchFails, T!GiveUp, T!WriteStarted
<1>3. /\ r \in Requests /\ client[c].pc # "away" /\ file[r].status # "none"
  BY <1>2, AloneInside DEF TerminalsInvariant, ClientsKnow, Knows
<1> HIDE DEF r
<1>4. /\ file' \in [Requests -> FileRecord]
      /\ file'[r].status = status /\ file'[r].id = id /\ file'[r].intent = file[r].intent
      /\ \A s \in Requests \ {r} : file'[s] = file[s]
  <2>1. file[r] \in FileRecord
    BY <1>3 DEF TerminalsInvariant, TerminalShape
  <2>2. [file[r] EXCEPT !.status = status, !.id = id] \in FileRecord
    BY <2>1 DEF FileRecord
  <2> QED BY <1>1, <1>3, <2>1, <2>2 DEF TerminalsInvariant, TerminalShape, FileRecord
<1>5. file'[r] # T!NoFile
  BY <1>4 DEF T!NoFile
<1>6. TerminalShape'
  <2>1. T!Away \in ClientRecord
    BY DEF ClientRecord, T!Away, HostAssumption, T!TerminalsAssumption
  <2> QED BY <1>2, <1>4, <2>1 DEF T!Leaves, TerminalsInvariant, TerminalShape
<1>7. FilesFirst'
  <2>1. \A s \in Requests :
          /\ launches[s] <= 1 /\ (file'[s].status = "none" => launches[s] = 0)
          /\ file'[s].status = "none" <=> file'[s] = T!NoFile
          /\ file'[s].id # 0 => Launched(file'[s].id, s)
    BY <1>1, <1>4, <1>5 DEF TerminalsInvariant, FilesFirst
  <2>2. \A i \in 1..MaxAgents : descriptor[i] # T!NoDescriptor =>
          /\ descriptor[i].request \in Requests /\ Launched(i, descriptor[i].request)
          /\ file'[descriptor[i].request].status # "none"
          /\ file'[descriptor[i].request].intent = descriptor[i].intent
    BY <1>4 DEF TerminalsInvariant, FilesFirst
  <2>3. \A i \in operated : descriptor[i] # T!NoDescriptor
    BY DEF TerminalsInvariant, FilesFirst
  <2> QED BY <1>2, <2>1, <2>2, <2>3 DEF FilesFirst, Launched
<1> QED BY <1>2, <1>3, <1>6, <1>7, ClientLeaves, SMTT(30)

\* Agents come and end, and never change whose they are (claude agents).
LEMMA AgentsSafe ==
  ASSUME HostAssumption, TerminalsInvariant,
         \/ \E c \in Clients, i \in 1..MaxAgents : T!Attach(c, i)
         \/ \E i \in 1..MaxAgents : T!Detach(i) \/ T!Stop(i) \/ T!RuntimeMoves(i)
         \/ \E r \in Requests : T!RuntimeLaunches(r)
         \/ T!ForeignAgent
  PROVE  TerminalsInvariant'
<1>1. UNCHANGED <<file, descriptor, client, lock, launches>>
  BY DEF T!Attach, T!Detach, T!Stop, T!RuntimeMoves, T!RuntimeLaunches, T!ForeignAgent
<1>2. /\ agent' \in Seq(AgentRecord) /\ Len(agent') <= MaxAgents
      /\ \A i, r : Launched(i, r) => Launched(i, r)'
  <2>0. /\ agent \in Seq(AgentRecord) /\ Len(agent) <= MaxAgents /\ DOMAIN agent = 1..Len(agent)
    BY DEF TerminalsInvariant, TerminalShape
  <2>1. ASSUME UNCHANGED agent
        PROVE  /\ agent' \in Seq(AgentRecord) /\ Len(agent') <= MaxAgents
               /\ \A i, r : Launched(i, r) => Launched(i, r)'
    BY <2>0, <2>1 DEF Launched
  <2>2. ASSUME NEW a \in AgentRecord, agent' = Append(agent, a), Len(agent) < MaxAgents
        PROVE  /\ agent' \in Seq(AgentRecord) /\ Len(agent') <= MaxAgents
               /\ \A i, r : Launched(i, r) => Launched(i, r)'
    BY <2>0, <2>2 DEF Launched, HostAssumption, T!TerminalsAssumption
  <2>3. ASSUME NEW i \in 1..Len(agent), NEW status \in {"listed", "ended"},
               agent' = [agent EXCEPT ![i].status = status]
        PROVE  /\ agent' \in Seq(AgentRecord) /\ Len(agent') <= MaxAgents
               /\ \A j, r : Launched(j, r) => Launched(j, r)'
    <3>0. agent[i] \in AgentRecord
      BY <2>0
    <3>1. [agent[i] EXCEPT !.status = status] \in AgentRecord
      BY <3>0 DEF AgentRecord
    <3>2. /\ agent' \in Seq(AgentRecord) /\ Len(agent') = Len(agent)
          /\ \A j \in 1..Len(agent) : agent'[j].of = agent[j].of
      BY <2>0, <2>3, <3>0, <3>1 DEF AgentRecord
    <3> QED BY <2>0, <3>2 DEF Launched
  <2>4. ASSUME NEW r \in Requests, T!RuntimeLaunches(r)
        PROVE  \/ UNCHANGED agent
               \/ Len(agent) < MaxAgents /\ \E a \in AgentRecord : agent' = Append(agent, a)
    <3>1. [of |-> r, status |-> "hidden"] \in AgentRecord
      BY DEF AgentRecord
    <3> QED BY <2>4, <3>1 DEF T!RuntimeLaunches
  <2>5. ASSUME T!ForeignAgent
        PROVE  Len(agent) < MaxAgents /\ \E a \in AgentRecord : agent' = Append(agent, a)
    <3>1. [of |-> "foreign", status |-> "listed"] \in AgentRecord
      BY DEF AgentRecord
    <3> QED BY <2>5, <3>1 DEF T!ForeignAgent
  <2>6. ASSUME NEW i \in 1..MaxAgents, T!Stop(i) \/ T!RuntimeMoves(i)
        PROVE  /\ i \in 1..Len(agent)
               /\ \E status \in {"listed", "ended"} : agent' = [agent EXCEPT ![i].status = status]
    BY <2>0, <2>6 DEF T!Stop, T!RuntimeMoves, T!Listed
  <2>7. ASSUME NEW i \in 1..MaxAgents, T!Detach(i) \/ \E c \in Clients : T!Attach(c, i)
        PROVE  UNCHANGED agent
    BY <2>7 DEF T!Attach, T!Detach
  <2> QED BY <2>1, <2>2, <2>3, <2>4, <2>5, <2>6, <2>7
<1>3. /\ operated' \subseteq 1..MaxAgents
      /\ \A i \in operated' : i \in operated \/ descriptor[i] # T!NoDescriptor
  BY DEF T!Attach, T!Detach, T!Stop, T!RuntimeMoves, T!RuntimeLaunches, T!ForeignAgent, T!Managed,
         TerminalsInvariant, TerminalShape
<1>4. TerminalShape'
  BY <1>1, <1>2, <1>3 DEF TerminalsInvariant, TerminalShape
<1>5. FilesFirst'
  <2>1. \A s \in Requests :
          /\ launches[s] <= 1 /\ (file[s].status = "none" => launches[s] = 0)
          /\ file[s].status = "none" <=> file[s] = T!NoFile
          /\ file[s].id # 0 => Launched(file[s].id, s)'
    BY <1>2, <1>1 DEF TerminalsInvariant, FilesFirst, Launched
  <2>2. \A i \in 1..MaxAgents : descriptor[i] # T!NoDescriptor =>
          /\ descriptor[i].request \in Requests /\ Launched(i, descriptor[i].request)'
          /\ file[descriptor[i].request].status # "none"
          /\ file[descriptor[i].request].intent = descriptor[i].intent
    BY <1>2, <1>1 DEF TerminalsInvariant, FilesFirst, Launched
  <2>3. \A i \in operated' : descriptor[i] # T!NoDescriptor
    BY <1>3 DEF TerminalsInvariant, FilesFirst
  <2> QED BY <1>1, <2>1, <2>2, <2>3 DEF FilesFirst, Launched
<1>6. ClientsKnow'
  BY <1>1, <1>2 DEF TerminalsInvariant, ClientsKnow, Knows, Launched
<1> QED BY <1>4, <1>5, <1>6 DEF TerminalsInvariant

\* Every command, every death and the runtime keep the invariant (start, attach, stop).
THEOREM TerminalsInvariantHolds == T!Spec => []TerminalsInvariant
<1>1. T!Init => TerminalsInvariant
  BY TerminalsStart, HostAssumption
<1>2. TerminalsInvariant /\ [T!Next]_(T!vars) => TerminalsInvariant'
  <2> SUFFICES ASSUME TerminalsInvariant, [T!Next]_(T!vars) PROVE TerminalsInvariant'
    OBVIOUS
  <2>1. CASE UNCHANGED T!vars
    BY <2>1 DEF T!vars, TerminalsInvariant, TerminalShape, FilesFirst, ClientsKnow, Knows, Launched
  <2>2. ASSUME NEW c \in Clients, T!StartSteps(c) PROVE TerminalsInvariant'
    BY <2>2, HostAssumption, EnterSafe, WriteRequestSafe, LaunchSafe, FoundSafe,
       WriteDescriptorSafe, FileSafe DEF T!StartSteps
  <2>3. ASSUME NEW c \in Clients, NEW r \in Requests, NEW intent \in Intents, T!Start(c, r, intent)
        PROVE  TerminalsInvariant'
    BY <2>3, HostAssumption, EnterSafe
  <2>4. ASSUME T!Next, ~ \E c \in Clients : T!StartSteps(c),
               ~ \E c \in Clients, r \in Requests, intent \in Intents : T!Start(c, r, intent)
        PROVE  \/ \E c \in Clients, i \in 1..MaxAgents : T!Attach(c, i)
               \/ \E i \in 1..MaxAgents : T!Detach(i) \/ T!Stop(i) \/ T!RuntimeMoves(i)
               \/ \E r \in Requests : T!RuntimeLaunches(r)
               \/ T!ForeignAgent
    BY <2>4 DEF T!Next, T!Ids
  <2> QED BY <2>1, <2>2, <2>3, <2>4, HostAssumption, AgentsSafe
<1> QED BY <1>1, <1>2, PTL DEF T!Spec

\* Whatever is lost, a request is launched once; and what the controller calls its
\* terminal, attaches to or stops is the agent of that launch (terminal_cli.py).
THEOREM TerminalsStayOwned == T!Spec => []TerminalsOwned
<1>1. TerminalsInvariant => TerminalsOwned
  BY TerminalsPromise, HostAssumption
<1> QED BY <1>1, TerminalsInvariantHolds, PTL

-----------------------------------------------------------------------------
(* Windows supervisor: what the client is told follows the pipes.            *)

Row == [cancel : BOOLEAN, recorded : BOOLEAN, moved : BOOLEAN]
Caller ==
  [pc : {"start", "await", "record", "mark", "loop", "error", "close", "closed", "dead"},
   op : W!Ops, id : Nat, stopSent : BOOLEAN, created : BOOLEAN, uncertain : BOOLEAN]
Frame == [id : Nat, what : {"ok", "rejected", "own", "killed"}]
Asked == [op : W!Ops, id : Nat]
Verdict ==
  [what : {"none", "not launched", "cancelled", "unknown", "own", "killed"}, certain : BOOLEAN]

SupervisorShape ==
  /\ kind \in {"run", "check", "none"} /\ row \in Row /\ caller \in Caller
  /\ pending \in Seq({"own", "killed"}) /\ requests \in Seq(Asked) /\ frames \in Seq(Frame)
  /\ open \in BOOLEAN /\ helper \in {"idle", "created", "running", "done", "gone"}
  /\ child \in {"none", "suspended", "running", "own", "killed"} /\ ran \in BOOLEAN
  /\ outcome \in Verdict

Queued(op) == \E k \in 1..Len(requests) : requests[k].op = op

\* No child was created, or was resumed, and no request that is on its way will.
NotCreated == child = "none" /\ ~Queued("create")
NeverResumed == ~ran /\ ~Queued("resume")

\* Requests and replies keep their order; the second request is the create.
PipesInOrder ==
  /\ \A k \in 1..Len(requests) :
       /\ requests[k].id >= 1 /\ requests[k].id <= caller.id
       /\ requests[k].op = "create" <=> requests[k].id = 2
  /\ \A j, k \in 1..Len(requests) : j < k => requests[j].id < requests[k].id
  /\ \A f \in 1..Len(frames) :
       /\ frames[f].id <= caller.id
       /\ \A k \in 1..Len(requests) : frames[f].id < requests[k].id

\* What lies in the pipes is so.
PipesTrue ==
  /\ Queued("create") => child = "none"
  /\ \A f \in 1..Len(frames) :
       /\ frames[f].id = 2 /\ frames[f].what = "rejected" => NotCreated
       /\ frames[f].id = 0 => child = frames[f].what
  /\ \A k \in 1..Len(pending) : child = pending[k]
  /\ ran \/ Queued("resume") => row.recorded

\* What the client knows where it is.
ClientKnows ==
  /\ caller.pc = "start" => caller.id \in {0, 1} /\ NotCreated
  /\ caller.pc = "await" /\ caller.op = "hello" => caller.id = 1 /\ NotCreated
  /\ caller.pc = "await" /\ caller.op = "create" => caller.id = 2
  /\ caller.created \/ caller.uncertain => caller.id >= 2
  /\ caller.pc \in {"record", "mark", "loop"} => caller.created
  /\ caller.pc = "await" /\ caller.op \in {"resume", "stop"} => caller.created
  /\ caller.pc = "await" /\ caller.op = "abort" => caller.created \/ outcome # W!NoOutcome
  /\ caller.pc = "error" /\ ~caller.created /\ ~caller.uncertain => NotCreated
  /\ caller.pc \in {"start", "record"} => NeverResumed
  /\ caller.pc = "await" /\ caller.op \in {"hello", "create"} => NeverResumed
  /\ caller.pc = "await" /\ caller.op = "abort" /\ outcome = W!NoOutcome => NeverResumed

\* What it was told.
OutcomeTrue ==
  /\ caller.pc \in {"close", "closed"} => outcome # W!NoOutcome
  /\ caller.pc = "closed" => helper = "gone" /\ child \notin {"suspended", "running"}
  /\ outcome.what \in {"not launched", "cancelled"} => caller.pc \in {"close", "closed", "dead"}
  /\ outcome.what = "not launched" => NotCreated
  /\ outcome.what = "cancelled" => NeverResumed
  /\ outcome.what \in {"own", "killed"} => child = outcome.what
  /\ outcome.certain => outcome.what \in {"not launched", "cancelled", "own", "killed"}

SupervisorInvariant == SupervisorShape /\ PipesInOrder /\ PipesTrue /\ ClientKnows /\ OutcomeTrue

\* The invariant is what the caller relies on (run_windows_child, execute).
LEMMA SupervisorPromises == SupervisorInvariant => ReportHolds
BY DEF SupervisorInvariant, SupervisorShape, Verdict, PipesTrue, OutcomeTrue, NotCreated,
       NeverResumed, ReportHolds, W!ReportHolds

\* Nothing is asked or said before the call.
LEMMA SupervisorStarts == W!Init => SupervisorInvariant
<1> SUFFICES ASSUME W!Init PROVE SupervisorInvariant
  OBVIOUS
<1> USE DEF W!Init, W!NoOutcome
<1>1. SupervisorShape
  <2>1. row \in Row
    BY DEF Row
  <2>2. caller \in Caller
    BY DEF Caller, W!Ops
  <2>3. outcome \in Verdict
    BY DEF Verdict
  <2>4. open \in BOOLEAN /\ ran \in BOOLEAN
    BY Zenon
  <2> QED BY <2>1, <2>2, <2>3, <2>4 DEF SupervisorShape
<1>2. 1..Len(requests) = {} /\ 1..Len(frames) = {} /\ 1..Len(pending) = {}
  OBVIOUS
<1>3. NotCreated /\ NeverResumed /\ ~Queued("create") /\ ~Queued("resume")
  BY <1>2 DEF NotCreated, NeverResumed, Queued
<1>4. PipesInOrder /\ PipesTrue
  BY <1>2, <1>3 DEF PipesInOrder, PipesTrue
<1>5. ClientKnows /\ OutcomeTrue
  BY <1>3 DEF ClientKnows, OutcomeTrue
<1> QED BY <1>1, <1>4, <1>5 DEF SupervisorInvariant

\* A request is written behind all others with an id of its own (_request).
LEMMA AskKeepsOrder ==
  ASSUME SupervisorShape, PipesInOrder, PipesTrue, NEW op \in W!Ops, W!Asks(op),
         UNCHANGED <<pending, helper, child, ran>>,
         op = "create" <=> caller.id = 1, op = "resume" => row'.recorded,
         row.recorded => row'.recorded, op = "create" => NotCreated
  PROVE  /\ PipesInOrder' /\ PipesTrue'
         /\ caller'.id = caller.id + 1 /\ caller'.pc = "await" /\ caller'.op = op
         /\ caller'.created = caller.created /\ caller'.uncertain = caller.uncertain
         /\ caller' \in Caller /\ requests' \in Seq(Asked)
         /\ op # "create" /\ NotCreated => NotCreated'
         /\ op # "resume" /\ NeverResumed => NeverResumed'
<1>1. /\ caller.id \in Nat /\ caller.stopSent \in BOOLEAN /\ caller \in Caller
      /\ requests \in Seq(Asked) /\ frames' = frames /\ frames \in Seq(Frame)
  BY DEF SupervisorShape, Caller, W!Asks
<1>2. /\ caller'.id = caller.id + 1 /\ caller'.pc = "await" /\ caller'.op = op
      /\ caller'.created = caller.created /\ caller'.uncertain = caller.uncertain
      /\ caller' \in Caller
  <2>1. (caller.stopSent \/ op = "stop") \in BOOLEAN
    BY Zenon
  <2>2. PICK sent \in BOOLEAN : caller' = [caller EXCEPT !.pc = "await", !.op = op,
                                             !.id = @ + 1, !.stopSent = sent]
    BY <2>1, Zenon DEF W!Asks
  <2>3. PICK next \in Nat : next = caller.id + 1
    BY <1>1
  <2>4. caller' = [caller EXCEPT !.pc = "await", !.op = op, !.id = next, !.stopSent = sent]
    BY <2>2, <2>3
  <2> QED BY <1>1, <2>3, <2>4 DEF Caller
<1>3. PICK new \in Asked : new.op = op /\ new.id = caller.id + 1 /\ requests' = Append(requests, new)
  <2>1. [op |-> op, id |-> caller.id + 1] \in Asked
    BY <1>1 DEF Asked
  <2> QED BY <2>1 DEF W!Asks
<1>4. /\ \A k \in 1..Len(requests) : requests[k].id \in Nat
      /\ \A f \in 1..Len(frames) : frames[f].id \in Nat
  <2>1. /\ \A k \in 1..Len(requests) : requests[k] \in Asked
        /\ \A f \in 1..Len(frames) : frames[f] \in Frame
    BY <1>1
  <2> QED BY <2>1 DEF Asked, Frame
<1>5. /\ requests' \in Seq(Asked) /\ Len(requests') = Len(requests) + 1
      /\ \A k \in 1..Len(requests) : requests'[k] = requests[k]
      /\ \A k \in 1..Len(requests') : k \in 1..Len(requests) \/ k = Len(requests) + 1
      /\ requests'[Len(requests) + 1] = new
      /\ Len(requests) \in Nat
  BY <1>1, <1>3
<1>6. PipesInOrder'
  <2>1. ASSUME NEW k \in 1..Len(requests')
        PROVE  /\ requests'[k].id >= 1 /\ requests'[k].id <= caller.id + 1
               /\ requests'[k].op = "create" <=> requests'[k].id = 2
    <3>1. CASE k \in 1..Len(requests)
      <4>1. requests'[k] = requests[k] /\ requests[k].id \in Nat
        BY <1>4, <1>5, <3>1
      <4>2. /\ requests[k].id >= 1 /\ requests[k].id <= caller.id
            /\ requests[k].op = "create" <=> requests[k].id = 2
        BY <3>1 DEF PipesInOrder
      <4> QED BY <1>1, <4>1, <4>2
    <3>2. CASE k = Len(requests) + 1
      BY <1>1, <1>3, <1>5, <3>2
    <3> QED BY <1>5, <3>1, <3>2
  <2>2. ASSUME NEW j \in 1..Len(requests'), NEW k \in 1..Len(requests'), j < k
        PROVE  requests'[j].id < requests'[k].id
    <3>1. j \in 1..Len(requests) /\ requests[j].id <= caller.id /\ requests'[j] = requests[j]
      BY <1>5, <2>2 DEF PipesInOrder
    <3>2. requests[j].id \in Nat
      BY <1>4, <3>1
    <3>3. CASE k \in 1..Len(requests)
      BY <1>5, <2>2, <3>1, <3>3 DEF PipesInOrder
    <3>4. CASE k = Len(requests) + 1
      BY <1>1, <1>3, <1>5, <3>1, <3>2, <3>4
    <3> QED BY <1>5, <3>3, <3>4
  <2>3. ASSUME NEW f \in 1..Len(frames)
        PROVE  frames[f].id <= caller.id + 1
    BY <1>1, <1>4 DEF PipesInOrder
  <2>4. ASSUME NEW f \in 1..Len(frames), NEW k \in 1..Len(requests')
        PROVE  frames[f].id < requests'[k].id
    <3>1. frames[f].id \in Nat /\ frames[f].id <= caller.id
      BY <1>4 DEF PipesInOrder
    <3>2. CASE k \in 1..Len(requests)
      BY <1>5, <3>2 DEF PipesInOrder
    <3>3. CASE k = Len(requests) + 1
      BY <1>1, <1>3, <1>5, <3>1, <3>3
    <3> QED BY <1>5, <3>2, <3>3
  <2> QED BY <1>1, <1>2, <2>1, <2>2, <2>3, <2>4 DEF PipesInOrder
<1>7. ASSUME NEW other \in W!Ops
      PROVE  Queued(other)' <=> Queued(other) \/ other = op
  BY <1>3, <1>5 DEF Queued
<1>8. /\ op # "create" /\ NotCreated => NotCreated'
      /\ op # "resume" /\ NeverResumed => NeverResumed'
  BY <1>7 DEF NotCreated, NeverResumed, W!Ops
<1>9. PipesTrue'
  <2>1. Queued("create")' => child' = "none"
    BY <1>7 DEF PipesTrue, NotCreated, W!Ops
  <2>2. ASSUME NEW f \in 1..Len(frames)
        PROVE  /\ frames[f].id = 2 /\ frames[f].what = "rejected" => NotCreated'
               /\ frames[f].id = 0 => child = frames[f].what
    BY <1>8 DEF PipesTrue, PipesInOrder
  <2>3. \A k \in 1..Len(pending) : child = pending[k]
    BY DEF PipesTrue
  <2>4. ran' \/ Queued("resume")' => row'.recorded
    BY <1>7 DEF PipesTrue, W!Ops
  <2> QED BY <1>1, <2>1, <2>2, <2>3, <2>4 DEF PipesTrue
<1> QED BY <1>2, <1>5, <1>6, <1>8, <1>9

\* The two calls of the helper (run_windows_child, execute).
LEMMA WindowsAssumed == Kinds \subseteq {"run", "check"}
BY HostAssumption DEF HostAssumption, W!WindowsAssumption

\* Without a child, or in a check, an error closes the pipe (HelperClient.close).
LEMMA ErrorCloses ==
  ASSUME SupervisorInvariant, W!HandleError,
         kind # "run" \/ ~(caller.created \/ caller.uncertain)
  PROVE  SupervisorInvariant'
<1> USE DEF SupervisorInvariant
<1>1. /\ caller.pc = "error" /\ caller' = [caller EXCEPT !.pc = "close"]
      /\ UNCHANGED <<kind, row, pending, requests, frames, open, helper, child, ran>>
  BY DEF W!HandleError, W!pipes, W!theirs
<1>2. /\ caller' \in Caller /\ caller'.pc = "close" /\ caller'.id = caller.id
      /\ caller'.created = caller.created /\ caller'.uncertain = caller.uncertain
  BY <1>1 DEF SupervisorShape, Caller
<1>3. PipesInOrder' /\ PipesTrue'
  BY <1>1, <1>2 DEF PipesInOrder, PipesTrue, NotCreated, Queued
<1>4. NotCreated' <=> NotCreated
  BY <1>1 DEF NotCreated, Queued
<1>5. CASE caller.created \/ caller.uncertain
  <2>1. outcome' = [what |-> "unknown", certain |-> FALSE]
    BY <1>5 DEF W!HandleError
  <2>2. SupervisorShape'
    BY <1>1, <1>2, <2>1 DEF SupervisorShape, Verdict
  <2>3. ClientKnows' /\ OutcomeTrue'
    BY <1>2, <2>1 DEF ClientKnows, OutcomeTrue, W!NoOutcome
  <2> QED BY <1>3, <2>2, <2>3
<1>6. CASE ~(caller.created \/ caller.uncertain)
  <2>1. outcome' = [what |-> "not launched", certain |-> TRUE]
    BY <1>6 DEF W!HandleError
  <2>2. NotCreated'
    BY <1>1, <1>4, <1>6 DEF ClientKnows
  <2>3. SupervisorShape'
    BY <1>1, <1>2, <2>1 DEF SupervisorShape, Verdict
  <2>4. ClientKnows' /\ OutcomeTrue'
    BY <1>2, <2>1, <2>2 DEF ClientKnows, OutcomeTrue, W!NoOutcome
  <2> QED BY <1>3, <2>3, <2>4
<1> QED BY <1>5, <1>6

\* A request that the client makes where it may (run_windows_child).
LEMMA AsksSafe ==
  ASSUME SupervisorInvariant,
         W!Hello \/ W!Create \/ W!Record \/ W!SendStop \/ (W!HandleError /\ kind = "run")
  PROVE  SupervisorInvariant'
<1> USE DEF SupervisorInvariant
<1>0. kind' \in {"run", "check", "none"} /\ caller.id \in Nat
  BY WindowsAssumed DEF W!Hello, W!Create, W!Record, W!SendStop, W!HandleError, SupervisorShape, Caller
<1>1. CASE W!Hello
  <2>1. /\ caller.pc = "start" /\ caller.id = 0 /\ W!Asks("hello")
        /\ UNCHANGED <<row, pending, helper, child, ran, outcome, open>>
    BY <1>1 DEF W!Hello, W!theirs, W!Asks
  <2>2. NotCreated /\ NeverResumed
    BY <2>1 DEF ClientKnows
  <2>3. /\ PipesInOrder' /\ PipesTrue' /\ NotCreated' /\ NeverResumed'
        /\ caller'.id = 1 /\ caller'.pc = "await" /\ caller'.op = "hello"
        /\ caller'.created = caller.created /\ caller'.uncertain = caller.uncertain
        /\ caller' \in Caller /\ requests' \in Seq(Asked)
    BY <2>1, <2>2, AskKeepsOrder DEF W!Ops
  <2>4. SupervisorShape'
    BY <1>0, <2>1, <2>3 DEF SupervisorShape, W!Asks
  <2>5. outcome.what \notin {"not launched", "cancelled"}
    BY <2>1 DEF OutcomeTrue
  <2>6. ClientKnows'
    BY <1>0, <2>1, <2>3 DEF ClientKnows
  <2>7. OutcomeTrue'
    BY <2>1, <2>3, <2>5 DEF OutcomeTrue
  <2> QED BY <2>3, <2>4, <2>6, <2>7
<1>2. CASE W!Create
  <2>1. /\ caller.pc = "start" /\ caller.id # 0 /\ W!Asks("create")
        /\ UNCHANGED <<kind, row, pending, helper, child, ran, outcome, open>>
    BY <1>2 DEF W!Create, W!theirs, W!Asks
  <2>2. NotCreated /\ NeverResumed /\ caller.id = 1
    BY <2>1 DEF ClientKnows
  <2>3. /\ PipesInOrder' /\ PipesTrue' /\ NeverResumed'
        /\ caller'.id = 2 /\ caller'.pc = "await" /\ caller'.op = "create"
        /\ caller'.created = caller.created /\ caller'.uncertain = caller.uncertain
        /\ caller' \in Caller /\ requests' \in Seq(Asked)
    BY <2>1, <2>2, AskKeepsOrder DEF W!Ops
  <2>4. SupervisorShape'
    BY <1>0, <2>1, <2>3 DEF SupervisorShape, W!Asks
  <2>5. outcome.what \notin {"not launched", "cancelled"}
    BY <2>1 DEF OutcomeTrue
  <2>6. ClientKnows'
    BY <1>0, <2>1, <2>3 DEF ClientKnows
  <2>7. OutcomeTrue'
    BY <2>1, <2>3, <2>5 DEF OutcomeTrue
  <2> QED BY <2>3, <2>4, <2>6, <2>7
<1>3. ASSUME NEW op \in {"abort", "resume", "stop"}, W!Asks(op), row' \in Row,
             row.recorded => row'.recorded, op = "resume" => row'.recorded,
             UNCHANGED <<kind, pending, helper, child, ran, open>>,
             caller.id >= 2, caller.created \/ (op = "abort" /\ outcome' # W!NoOutcome),
             outcome' = outcome \/ outcome' = [what |-> "unknown", certain |-> FALSE],
             outcome.what \notin {"not launched", "cancelled"},
             op = "abort" /\ outcome' = W!NoOutcome => NeverResumed
      PROVE  SupervisorInvariant'
  <2>0. /\ op \in W!Ops /\ op # "create" /\ caller.id # 1
    <3>1. caller.id \in Nat /\ caller.id >= 2
      BY <1>0, <1>3
    <3>2. op \in {"abort", "resume", "stop"}
      OBVIOUS
    <3> QED BY <3>1, <3>2 DEF W!Ops
  <2>1. /\ PipesInOrder' /\ PipesTrue' /\ (op # "resume" /\ NeverResumed => NeverResumed')
        /\ caller'.id = caller.id + 1 /\ caller'.pc = "await" /\ caller'.op = op
        /\ caller'.created = caller.created /\ caller'.uncertain = caller.uncertain
        /\ caller' \in Caller /\ requests' \in Seq(Asked)
    <3>1. pending' = pending /\ helper' = helper /\ child' = child /\ ran' = ran
      BY <1>3
    <3> QED BY <1>3, <2>0, <3>1, AskKeepsOrder
  <2>2. outcome' \in Verdict
    <3>1. outcome \in Verdict /\ [what |-> "unknown", certain |-> FALSE] \in Verdict
      BY DEF SupervisorShape, Verdict
    <3> QED BY <1>3, <3>1
  <2>3. SupervisorShape'
    BY <1>0, <1>3, <2>1, <2>2 DEF SupervisorShape, W!Asks
  <2>4. ClientKnows'
    <3>1. caller'.id >= 2
      <4>1. caller.id \in Nat /\ caller.id >= 2 /\ caller'.id = caller.id + 1
        BY <1>0, <1>3, <2>1
      <4> QED BY <4>1
    <3>2. caller'.op \notin {"hello", "create"} /\ caller'.pc = "await"
      BY <1>3, <2>1
    <3>3. caller'.created \/ (op = "abort" /\ outcome' # W!NoOutcome)
      BY <1>3, <2>1
    <3>4. caller'.op = "abort" /\ outcome' = W!NoOutcome => NeverResumed'
      BY <1>3, <2>1
    <3> QED BY <2>1, <3>1, <3>2, <3>3, <3>4 DEF ClientKnows
  <2>5. OutcomeTrue'
    <3>1. caller'.pc = "await" /\ child' = child
      BY <1>3, <2>1
    <3>2. CASE outcome' = outcome
      BY <1>3, <3>1, <3>2 DEF OutcomeTrue
    <3>3. CASE outcome' = [what |-> "unknown", certain |-> FALSE]
      BY <3>1, <3>3 DEF OutcomeTrue
    <3> QED BY <1>3, <3>2, <3>3
  <2> QED BY <2>1, <2>3, <2>4, <2>5
<1>4. CASE W!Record
  <2>1. /\ caller.pc = "record" /\ UNCHANGED <<kind, pending, helper, child, ran, outcome>>
        /\ \/ W!Asks("abort") /\ row' = row
           \/ W!Asks("resume") /\ row' = [row EXCEPT !.recorded = TRUE]
    BY <1>4 DEF W!Record, W!theirs
  <2>2. /\ caller.created /\ caller.id >= 2 /\ NeverResumed
        /\ outcome.what \notin {"not launched", "cancelled"}
    BY <2>1 DEF ClientKnows, OutcomeTrue
  <2>3. row' \in Row /\ (row.recorded => row'.recorded) /\ (W!Asks("abort") => row' = row \/ row'.recorded)
    BY <2>1 DEF SupervisorShape, Row
  <2>4. row' = [row EXCEPT !.recorded = TRUE] => row'.recorded
    BY DEF SupervisorShape, Row
  <2>5. UNCHANGED open
    BY <2>1 DEF W!Asks
  <2> QED BY <1>3, <2>1, <2>2, <2>3, <2>4, <2>5
<1>5. CASE W!SendStop
  <2>1. /\ caller.pc = "loop" /\ W!Asks("stop")
        /\ UNCHANGED <<kind, row, pending, helper, child, ran, outcome, open>>
    BY <1>5 DEF W!SendStop, W!theirs, W!Asks
  <2>2. /\ caller.created /\ caller.id >= 2 /\ outcome.what \notin {"not launched", "cancelled"}
        /\ row \in Row
    BY <2>1 DEF ClientKnows, OutcomeTrue, SupervisorShape
  <2> QED BY <1>3, <2>1, <2>2
<1>6. CASE W!HandleError /\ kind = "run"
  <2>1. CASE caller.created \/ caller.uncertain
    <3>1. /\ caller.pc = "error" /\ W!Asks("abort")
          /\ outcome' = [what |-> "unknown", certain |-> FALSE]
          /\ UNCHANGED <<kind, row, pending, helper, child, ran, open>>
      BY <1>6, <2>1 DEF W!HandleError, W!theirs, W!Asks
    <3>2. /\ caller.id >= 2 /\ outcome.what \notin {"not launched", "cancelled"} /\ row \in Row
          /\ outcome' # W!NoOutcome
      BY <2>1, <3>1 DEF ClientKnows, OutcomeTrue, SupervisorShape, W!NoOutcome
    <3> QED BY <1>3, <3>1, <3>2
  <2>2. CASE ~(caller.created \/ caller.uncertain)
    BY <1>6, <2>2, ErrorCloses
  <2> QED BY <2>1, <2>2
<1> QED BY <1>1, <1>2, <1>4, <1>5, <1>6

\* What is read is the first frame; the others stay in their order (_next_frame).
LEMMA ReadKeepsOrder ==
  ASSUME SupervisorShape, PipesInOrder, PipesTrue, frames # <<>>, frames' = Tail(frames),
         caller'.id = caller.id, UNCHANGED <<requests, helper, child, ran, row>>,
         pending' \in Seq({"own", "killed"}),
         \A k \in 1..Len(pending') : child = pending'[k]
  PROVE  /\ frames' \in Seq(Frame) /\ PipesInOrder' /\ PipesTrue'
         /\ (NotCreated' <=> NotCreated) /\ (NeverResumed' <=> NeverResumed)
<1>1. /\ frames \in Seq(Frame) /\ frames' \in Seq(Frame)
      /\ \A f \in 1..Len(frames') : f + 1 \in 1..Len(frames) /\ frames'[f] = frames[f + 1]
  BY DEF SupervisorShape
<1>2. (NotCreated' <=> NotCreated) /\ (NeverResumed' <=> NeverResumed)
      /\ \A op : Queued(op)' <=> Queued(op)
  BY DEF NotCreated, NeverResumed, Queued
<1>3. PipesInOrder'
  <2>1. ASSUME NEW f \in 1..Len(frames')
        PROVE  /\ frames'[f].id <= caller.id
               /\ \A k \in 1..Len(requests) : frames'[f].id < requests[k].id
    <3>1. PICK g \in 1..Len(frames) : frames'[f] = frames[g]
      BY <1>1
    <3> QED BY <3>1 DEF PipesInOrder
  <2> QED BY <2>1 DEF PipesInOrder
<1>4. PipesTrue'
  <2>1. ASSUME NEW f \in 1..Len(frames')
        PROVE  /\ frames'[f].id = 2 /\ frames'[f].what = "rejected" => NotCreated'
               /\ frames'[f].id = 0 => child = frames'[f].what
    <3>1. PICK g \in 1..Len(frames) : frames'[f] = frames[g]
      BY <1>1
    <3> QED BY <1>2, <3>1 DEF PipesTrue
  <2> QED BY <1>2, <2>1 DEF PipesTrue
<1> QED BY <1>1, <1>2, <1>3, <1>4

\* The first frame is one of them.
LEMMA FirstFrame ==
  ASSUME SupervisorInvariant, frames # <<>>
  PROVE  /\ frames[1] \in Frame /\ frames[1].id <= caller.id
         /\ frames[1].id = 2 /\ frames[1].what = "rejected" => NotCreated
         /\ frames[1].id = 0 => child = frames[1].what /\ frames[1].what \in {"own", "killed"}
<1>1. 1 \in 1..Len(frames) /\ frames[1] \in Frame
  BY DEF SupervisorInvariant, SupervisorShape
<1> QED BY <1>1 DEF SupervisorInvariant, SupervisorShape, PipesInOrder, PipesTrue, Frame

\* An event that overtakes a reply is kept (_request).
LEMMA DeferSafe == ASSUME SupervisorInvariant, W!DeferEvent PROVE SupervisorInvariant'
<1> USE DEF SupervisorInvariant
<1>1. /\ caller.pc = "await" /\ frames # <<>> /\ frames[1].id = 0
      /\ pending' = Append(pending, frames[1].what) /\ frames' = Tail(frames)
      /\ UNCHANGED <<kind, row, caller, requests, open, helper, child, ran, outcome>>
  BY DEF W!DeferEvent, W!Head1, W!theirs
<1>2. frames[1].what \in {"own", "killed"} /\ child = frames[1].what
  BY <1>1, FirstFrame
<1>3. pending' \in Seq({"own", "killed"}) /\ \A k \in 1..Len(pending') : child = pending'[k]
  <2>1. pending \in Seq({"own", "killed"}) /\ \A k \in 1..Len(pending) : child = pending[k]
    BY DEF SupervisorShape, PipesTrue
  <2>2. \A k \in 1..Len(pending') : k \in 1..Len(pending) \/ k = Len(pending) + 1
    BY <1>1, <1>2, <2>1
  <2> QED BY <1>1, <1>2, <2>1, <2>2
<1>4. /\ frames' \in Seq(Frame) /\ PipesInOrder' /\ PipesTrue'
      /\ (NotCreated' <=> NotCreated) /\ (NeverResumed' <=> NeverResumed)
  BY <1>1, <1>3, ReadKeepsOrder
<1>5. SupervisorShape'
  BY <1>1, <1>3, <1>4 DEF SupervisorShape
<1>6. ClientKnows'
  BY <1>1, <1>4 DEF ClientKnows
<1>7. OutcomeTrue'
  BY <1>1, <1>4 DEF OutcomeTrue
<1> QED BY <1>4, <1>5, <1>6, <1>7

\* The reply to the last request (_request).
LEMMA AnsweredSafe == ASSUME SupervisorInvariant, W!Answered PROVE SupervisorInvariant'
<1> USE DEF SupervisorInvariant
<1>1. /\ caller.pc = "await" /\ frames # <<>> /\ frames[1].id = caller.id
      /\ frames' = Tail(frames)
      /\ UNCHANGED <<kind, row, pending, requests, open, helper, child, ran>>
  BY DEF W!Answered, W!Reply, W!Head1, W!theirs
<1>2. caller' = [caller EXCEPT
       !.created = @ \/ caller.op = "create",
       !.pc = CASE caller.op = "hello" -> "start" [] caller.op = "create" -> "record"
                [] caller.op = "resume" -> (IF kind = "run" THEN "mark" ELSE "loop")
                [] caller.op = "stop" -> "loop" [] caller.op = "abort" -> "close"]
  BY DEF W!Answered
<1>3. outcome' = IF caller.op # "abort" \/ outcome # W!NoOutcome THEN outcome
                 ELSE IF kind = "run" THEN [what |-> "cancelled", certain |-> TRUE]
                 ELSE [what |-> "unknown", certain |-> FALSE]
  BY DEF W!Answered
<1>4. caller \in Caller /\ caller.op \in {"hello", "create", "resume", "stop", "abort"}
  BY DEF SupervisorShape, Caller, W!Ops
<1>5. PICK made \in BOOLEAN, pc \in {"start", "record", "mark", "loop", "close"} :
        /\ caller' = [caller EXCEPT !.created = made, !.pc = pc]
        /\ made <=> caller.created \/ caller.op = "create"
        /\ caller.op = "hello" <=> pc = "start"
        /\ caller.op = "create" <=> pc = "record"
        /\ caller.op \in {"resume", "stop"} <=> pc \in {"mark", "loop"}
        /\ caller.op = "abort" <=> pc = "close"
  <2>1. PICK made \in BOOLEAN : made = (caller.created \/ caller.op = "create")
    BY Zenon
  <2>2. PICK pc \in {"start", "record", "mark", "loop", "close"} :
          /\ pc = CASE caller.op = "hello" -> "start" [] caller.op = "create" -> "record"
                [] caller.op = "resume" -> (IF kind = "run" THEN "mark" ELSE "loop")
                [] caller.op = "stop" -> "loop" [] caller.op = "abort" -> "close"
          /\ caller.op = "hello" <=> pc = "start"
          /\ caller.op = "create" <=> pc = "record"
          /\ caller.op \in {"resume", "stop"} <=> pc \in {"mark", "loop"}
          /\ caller.op = "abort" <=> pc = "close"
    BY <1>4
  <2>3. caller' = [caller EXCEPT !.created = made, !.pc = pc]
    BY <1>2, <2>1, <2>2, Zenon
  <2> QED BY <2>1, <2>2, <2>3
<1>6. /\ caller' \in Caller /\ caller'.id = caller.id /\ caller'.op = caller.op
      /\ caller'.created = made /\ caller'.pc = pc /\ caller'.uncertain = caller.uncertain
      /\ caller.id \in Nat
  BY <1>4, <1>5 DEF Caller
<1>7. /\ frames' \in Seq(Frame) /\ PipesInOrder' /\ PipesTrue'
      /\ (NotCreated' <=> NotCreated) /\ (NeverResumed' <=> NeverResumed)
  <2>1. pending' \in Seq({"own", "killed"}) /\ \A k \in 1..Len(pending') : child = pending'[k]
    BY <1>1 DEF SupervisorShape, PipesTrue
  <2> QED BY <1>1, <1>6, <2>1, ReadKeepsOrder
<1>8. /\ outcome' \in Verdict
      /\ outcome' = outcome
         \/ (caller.op = "abort" /\ outcome = W!NoOutcome /\ outcome' # W!NoOutcome
             /\ outcome'.what \in {"cancelled", "unknown"}
             /\ (outcome'.certain => outcome'.what = "cancelled"))
      /\ caller.op = "abort" => outcome' # W!NoOutcome
  <2>1. outcome \in Verdict
    BY DEF SupervisorShape
  <2> QED BY <1>3, <2>1 DEF Verdict, W!NoOutcome
<1>9. SupervisorShape'
  BY <1>1, <1>6, <1>7, <1>8 DEF SupervisorShape
<1>10. outcome.what \notin {"not launched", "cancelled"}
  BY <1>1 DEF OutcomeTrue
<1>11. ClientKnows'
  <2>1. pc = "start" => caller.id = 1 /\ NotCreated /\ NeverResumed
    BY <1>1, <1>5 DEF ClientKnows
  <2>2. pc = "record" => NeverResumed /\ made
    BY <1>1, <1>5 DEF ClientKnows
  <2>3. made \/ caller.uncertain => caller.id >= 2
    BY <1>1, <1>5, <1>6 DEF ClientKnows
  <2>4. pc \in {"mark", "loop"} => made
    BY <1>1, <1>5 DEF ClientKnows
  <2> QED BY <1>5, <1>6, <1>7, <2>1, <2>2, <2>3, <2>4 DEF ClientKnows
<1>12. OutcomeTrue'
  BY <1>1, <1>5, <1>6, <1>7, <1>8, <1>10 DEF OutcomeTrue, ClientKnows
<1> QED BY <1>7, <1>9, <1>11, <1>12

\* No reply, a wrong one or a refusal: only a create that was refused is known not to
\* have been made (_request).
LEMMA RequestFailsSafe == ASSUME SupervisorInvariant, W!RequestFails PROVE SupervisorInvariant'
<1> USE DEF SupervisorInvariant
<1>1. /\ caller.pc = "await" /\ UNCHANGED <<kind, row, pending, requests, open, helper, child, ran, outcome>>
  BY DEF W!RequestFails, W!theirs
<1>2. PICK rejected \in BOOLEAN :
        /\ W!Fails(rejected)
        /\ UNCHANGED frames \/ (frames # <<>> /\ frames' = Tail(frames))
        /\ rejected => frames # <<>> /\ frames[1].id = caller.id /\ frames[1].what = "rejected"
  BY DEF W!RequestFails, W!Reply, W!Head1
<1>3. caller \in Caller /\ caller.id \in Nat
  BY DEF SupervisorShape, Caller
<1>4. PICK pc \in {"close", "loop", "error"}, unsure \in BOOLEAN :
        /\ caller' = [caller EXCEPT !.pc = pc, !.uncertain = unsure]
        /\ unsure <=> caller.op = "create" /\ ~rejected
        /\ pc = "close" <=> outcome # W!NoOutcome
        /\ pc = "loop" => caller.op = "stop"
  <2>1. PICK unsure \in BOOLEAN : unsure = (caller.op = "create" /\ ~rejected)
    BY Zenon
  <2>2. PICK pc \in {"close", "loop", "error"} :
          /\ pc = W!AfterError /\ (pc = "close" <=> outcome # W!NoOutcome)
          /\ pc = "loop" => caller.op = "stop"
    BY DEF W!AfterError
  <2>3. caller' = [caller EXCEPT !.pc = pc, !.uncertain = unsure]
    BY <1>2, <2>1, <2>2, Zenon DEF W!Fails
  <2> QED BY <2>1, <2>2, <2>3
<1>5. /\ caller' \in Caller /\ caller'.id = caller.id /\ caller'.op = caller.op
      /\ caller'.created = caller.created /\ caller'.pc = pc /\ caller'.uncertain = unsure
  BY <1>3, <1>4 DEF Caller
<1>6. /\ frames' \in Seq(Frame) /\ PipesInOrder' /\ PipesTrue'
      /\ (NotCreated' <=> NotCreated) /\ (NeverResumed' <=> NeverResumed)
  <2>1. pending' \in Seq({"own", "killed"}) /\ \A k \in 1..Len(pending') : child = pending'[k]
    BY <1>1 DEF SupervisorShape, PipesTrue
  <2>2. CASE frames # <<>> /\ frames' = Tail(frames)
    BY <1>1, <1>5, <2>1, <2>2, ReadKeepsOrder
  <2>3. CASE UNCHANGED frames
    BY <1>1, <1>5, <2>3 DEF SupervisorShape, PipesInOrder, PipesTrue, NotCreated, NeverResumed, Queued
  <2> QED BY <1>2, <2>2, <2>3
<1>7. SupervisorShape'
  BY <1>1, <1>5, <1>6 DEF SupervisorShape
<1>8. pc = "error" /\ ~caller.created /\ ~unsure => NotCreated
  <2>1. SUFFICES ASSUME pc = "error", ~caller.created, ~unsure PROVE NotCreated
    OBVIOUS
  <2>2. caller.op \in {"hello", "create"}
    BY <1>1, <1>3, <1>4, <2>1 DEF ClientKnows, Caller, W!Ops
  <2>3. CASE caller.op = "hello"
    BY <1>1, <2>3 DEF ClientKnows
  <2>4. CASE caller.op = "create"
    <3>1. frames # <<>> /\ frames[1].id = 2 /\ frames[1].what = "rejected"
      BY <1>1, <1>2, <1>4, <2>1, <2>4 DEF ClientKnows
    <3> QED BY <3>1, FirstFrame
  <2> QED BY <2>2, <2>3, <2>4
<1>9. ClientKnows'
  <2>1. caller.created \/ unsure => caller.id >= 2
    BY <1>1, <1>3, <1>4 DEF ClientKnows
  <2>2. pc = "loop" => caller.created
    BY <1>1, <1>4 DEF ClientKnows
  <2> QED BY <1>4, <1>5, <1>6, <1>8, <2>1, <2>2 DEF ClientKnows
<1>10. OutcomeTrue'
  BY <1>1, <1>4, <1>5, <1>6 DEF OutcomeTrue
<1> QED BY <1>6, <1>7, <1>9, <1>10

\* An event is what became of the child; without one the call ends in an error
\* (next_event).
LEMMA EventSafe ==
  ASSUME SupervisorInvariant, W!TakeEvent \/ W!EventFails \/ W!MarkRunning
  PROVE  SupervisorInvariant'
<1> USE DEF SupervisorInvariant
<1>1. /\ caller.pc \in {"loop", "mark"}
      /\ UNCHANGED <<kind, row, requests, open, helper, child, ran>>
  BY DEF W!TakeEvent, W!EventFails, W!MarkRunning, W!theirs, W!pipes
<1>2. PICK pc \in {"close", "error", "loop"} :
        /\ caller' = [caller EXCEPT !.pc = pc]
        /\ pc = "close" => outcome'.what \in {"own", "killed"} /\ child = outcome'.what /\ outcome'.certain
                           /\ outcome' \in Verdict
        /\ pc # "close" => outcome' = outcome
        /\ UNCHANGED frames \/ (frames # <<>> /\ frames' = Tail(frames))
        /\ UNCHANGED pending \/ (pending # <<>> /\ pending' = Tail(pending))
  <2>1. CASE W!TakeEvent
    <3>1. CASE pending # <<>> /\ outcome' = [what |-> pending[1], certain |-> TRUE]
      <4>1. pending[1] \in {"own", "killed"} /\ child = pending[1]
        <5>1. 1 \in 1..Len(pending) /\ pending[1] \in {"own", "killed"}
          BY <3>1 DEF SupervisorShape
        <5> QED BY <5>1 DEF PipesTrue
      <4>2. outcome' \in Verdict /\ outcome'.what = pending[1] /\ outcome'.certain
        BY <3>1, <4>1 DEF Verdict
      <4> QED BY <2>1, <3>1, <4>1, <4>2 DEF W!TakeEvent
    <3>2. CASE /\ frames # <<>> /\ frames[1].id = 0
               /\ outcome' = [what |-> frames[1].what, certain |-> TRUE]
      <4>1. frames[1].what \in {"own", "killed"} /\ child = frames[1].what
        BY <3>2, FirstFrame
      <4>2. outcome' \in Verdict /\ outcome'.what = frames[1].what /\ outcome'.certain
        BY <3>2, <4>1 DEF Verdict
      <4> QED BY <2>1, <3>2, <4>1, <4>2 DEF W!TakeEvent
    <3> QED BY <2>1, <3>1, <3>2 DEF W!TakeEvent, W!Head1
  <2>2. CASE W!EventFails
    BY <2>2 DEF W!EventFails, W!Reply
  <2>3. CASE W!MarkRunning
    <3>1. PICK pc \in {"error", "loop"} : pc = IF row.moved THEN "error" ELSE "loop"
      OBVIOUS
    <3> QED BY <2>3, <3>1 DEF W!MarkRunning, W!pipes
  <2> QED BY <2>1, <2>2, <2>3
<1>3. caller \in Caller /\ caller.id \in Nat
  BY DEF SupervisorShape, Caller
<1>4. /\ caller' \in Caller /\ caller'.id = caller.id /\ caller'.op = caller.op
      /\ caller'.created = caller.created /\ caller'.pc = pc /\ caller'.uncertain = caller.uncertain
  BY <1>2, <1>3 DEF Caller
<1>5. pending' \in Seq({"own", "killed"}) /\ \A k \in 1..Len(pending') : child = pending'[k]
  <2>1. pending \in Seq({"own", "killed"}) /\ \A k \in 1..Len(pending) : child = pending[k]
    BY DEF SupervisorShape, PipesTrue
  <2>2. CASE pending # <<>> /\ pending' = Tail(pending)
    <3>1. /\ pending' \in Seq({"own", "killed"})
          /\ \A k \in 1..Len(pending') : k + 1 \in 1..Len(pending) /\ pending'[k] = pending[k + 1]
      BY <2>1, <2>2
    <3> QED BY <2>1, <3>1
  <2> QED BY <1>2, <2>1, <2>2
<1>6. /\ frames' \in Seq(Frame) /\ PipesInOrder' /\ PipesTrue'
      /\ (NotCreated' <=> NotCreated) /\ (NeverResumed' <=> NeverResumed)
  <2>1. CASE frames # <<>> /\ frames' = Tail(frames)
    BY <1>1, <1>4, <1>5, <2>1, ReadKeepsOrder
  <2>2. CASE UNCHANGED frames
    BY <1>1, <1>4, <1>5, <2>2 DEF SupervisorShape, PipesInOrder, PipesTrue, NotCreated, NeverResumed, Queued
  <2> QED BY <1>2, <2>1, <2>2
<1>7. SupervisorShape'
  <2>1. outcome' \in Verdict
    BY <1>2 DEF SupervisorShape
  <2> QED BY <1>1, <1>4, <1>5, <1>6, <2>1 DEF SupervisorShape
<1>8. ClientKnows'
  BY <1>1, <1>2, <1>4, <1>6 DEF ClientKnows
<1>9. outcome.what \notin {"not launched", "cancelled"}
  BY <1>1 DEF OutcomeTrue
<1>10. OutcomeTrue'
  <2>1. CASE pc = "close"
    <3>1. /\ caller'.pc = "close" /\ child' = child /\ outcome'.what \in {"own", "killed"}
          /\ child = outcome'.what
      BY <1>1, <1>2, <1>4, <2>1
    <3>2. outcome' # W!NoOutcome
      BY <3>1 DEF W!NoOutcome
    <3> QED BY <3>1, <3>2 DEF OutcomeTrue
  <2>2. CASE pc # "close"
    BY <1>1, <1>2, <1>4, <1>9, <2>2 DEF OutcomeTrue
  <2> QED BY <2>1, <2>2
<1> QED BY <1>6, <1>7, <1>8, <1>10

\* What the helper and the child do cannot belie what the client knows: the helper
\* takes the first request, writes the last frame, and an ended child stays so.
LEMMA WorldMoves ==
  ASSUME SupervisorInvariant, UNCHANGED <<kind, row, caller, pending, open, outcome>>,
         requests' = requests \/ (requests # <<>> /\ requests' = Tail(requests)),
         NEW new \in Frame,
         \/ frames' = frames
         \/ /\ frames' = Append(frames, new) /\ new.id <= caller.id
            /\ \A k \in 1..Len(requests') : new.id < requests'[k].id
            /\ new.id = 2 /\ new.what = "rejected" => NotCreated'
            /\ new.id = 0 => child' = new.what,
         child' = child \/ child \notin {"own", "killed"},
         NotCreated => NotCreated', NeverResumed => NeverResumed',
         Queued("create")' => child' = "none", ran' => row.recorded,
         caller.pc = "closed" => helper' = "gone" /\ child' \notin {"suspended", "running"},
         helper' \in {"idle", "created", "running", "done", "gone"},
         child' \in {"none", "suspended", "running", "own", "killed"}, ran' \in BOOLEAN
  PROVE  SupervisorInvariant'
<1> USE DEF SupervisorInvariant
<1>1. requests \in Seq(Asked) /\ frames \in Seq(Frame) /\ pending \in Seq({"own", "killed"})
  BY DEF SupervisorShape
<1>2. /\ requests' \in Seq(Asked)
      /\ \A k \in 1..Len(requests') :
           \E g \in 1..Len(requests) :
             requests'[k] = requests[g] /\ g = k + (Len(requests) - Len(requests'))
  <2>1. CASE requests' = requests
    BY <1>1, <2>1
  <2>2. CASE requests # <<>> /\ requests' = Tail(requests)
    <3>1. /\ requests' \in Seq(Asked) /\ Len(requests') = Len(requests) - 1 /\ Len(requests) \in Nat
          /\ \A k \in 1..Len(requests') : k + 1 \in 1..Len(requests) /\ requests'[k] = requests[k + 1]
      BY <1>1, <2>2
    <3>2. ASSUME NEW k \in 1..Len(requests')
          PROVE  \E g \in 1..Len(requests) :
                   requests'[k] = requests[g] /\ g = k + (Len(requests) - Len(requests'))
      <4>1. k + 1 \in 1..Len(requests) /\ requests'[k] = requests[k + 1]
        BY <3>1
      <4>2. k + 1 = k + (Len(requests) - Len(requests'))
        BY <3>1
      <4> QED BY <4>1, <4>2
    <3> QED BY <3>1, <3>2
  <2> QED BY <2>1, <2>2
<1>3. /\ frames' \in Seq(Frame)
      /\ \A f \in 1..Len(frames') :
           \/ f \in 1..Len(frames) /\ frames'[f] = frames[f]
           \/ /\ frames'[f] = new /\ new.id <= caller.id
              /\ \A k \in 1..Len(requests') : new.id < requests'[k].id
              /\ new.id = 2 /\ new.what = "rejected" => NotCreated'
              /\ new.id = 0 => child' = new.what
  <2>1. CASE frames' = frames
    BY <1>1, <2>1
  <2>2. CASE /\ frames' = Append(frames, new) /\ new.id <= caller.id
             /\ \A k \in 1..Len(requests') : new.id < requests'[k].id
             /\ new.id = 2 /\ new.what = "rejected" => NotCreated'
             /\ new.id = 0 => child' = new.what
    <3>1. /\ frames' \in Seq(Frame)
          /\ \A f \in 1..Len(frames') :
               (f \in 1..Len(frames) /\ frames'[f] = frames[f]) \/ frames'[f] = new
      BY <1>1, <2>2
    <3> QED BY <2>2, <3>1
  <2> QED BY <2>1, <2>2
<1>4. SupervisorShape'
  BY <1>2, <1>3 DEF SupervisorShape
<1>5. \A op : Queued(op)' => Queued(op)
  BY <1>2 DEF Queued
<1>6. PipesInOrder'
  <2>1. ASSUME NEW k \in 1..Len(requests')
        PROVE  /\ requests'[k].id >= 1 /\ requests'[k].id <= caller.id
               /\ requests'[k].op = "create" <=> requests'[k].id = 2
               /\ \A f \in 1..Len(frames) : frames[f].id < requests'[k].id
    <3>1. PICK g \in 1..Len(requests) : requests'[k] = requests[g]
      BY <1>2
    <3> QED BY <3>1 DEF PipesInOrder
  <2>2. ASSUME NEW j \in 1..Len(requests'), NEW k \in 1..Len(requests'), j < k
        PROVE  requests'[j].id < requests'[k].id
    <3>1. PICK g \in 1..Len(requests) :
            requests'[j] = requests[g] /\ g = j + (Len(requests) - Len(requests'))
      BY <1>2
    <3>2. PICK h \in 1..Len(requests) :
            requests'[k] = requests[h] /\ h = k + (Len(requests) - Len(requests'))
      BY <1>2
    <3>3. g < h
      <4>1. Len(requests) \in Nat
        BY <1>1
      <4>3. requests' \in Seq(Asked)
        BY <1>2
      <4>4. Len(requests') \in Nat
        BY <4>3
      <4> QED BY <2>2, <3>1, <3>2, <4>1, <4>4
    <3> QED BY <3>1, <3>2, <3>3 DEF PipesInOrder
  <2>3. ASSUME NEW f \in 1..Len(frames')
        PROVE  /\ frames'[f].id <= caller.id
               /\ \A k \in 1..Len(requests') : frames'[f].id < requests'[k].id
    <3>1. CASE f \in 1..Len(frames) /\ frames'[f] = frames[f]
      BY <2>1, <3>1 DEF PipesInOrder
    <3>2. CASE /\ frames'[f] = new /\ new.id <= caller.id
               /\ \A k \in 1..Len(requests') : new.id < requests'[k].id
      BY <3>2
    <3> QED BY <1>3, <3>1, <3>2
  <2> QED BY <2>1, <2>2, <2>3 DEF PipesInOrder
<1>7. PipesTrue'
  <2>1. ASSUME NEW f \in 1..Len(frames')
        PROVE  /\ frames'[f].id = 2 /\ frames'[f].what = "rejected" => NotCreated'
               /\ frames'[f].id = 0 => child' = frames'[f].what
    <3>1. CASE f \in 1..Len(frames) /\ frames'[f] = frames[f]
      <4>1. frames[f] \in Frame
        BY <1>1, <3>1
      <4>2. frames[f].id = 0 => child' = frames[f].what
        <5>1. SUFFICES ASSUME frames[f].id = 0 PROVE child' = frames[f].what
          OBVIOUS
        <5>2. child = frames[f].what
          BY <3>1, <5>1 DEF PipesTrue
        <5>3. child \in {"own", "killed"}
          BY <4>1, <5>2 DEF SupervisorShape, Frame
        <5> QED BY <5>2, <5>3
      <4>3. frames[f].id = 2 /\ frames[f].what = "rejected" => NotCreated'
        BY <3>1 DEF PipesTrue
      <4> QED BY <3>1, <4>2, <4>3
    <3>2. CASE /\ frames'[f] = new /\ (new.id = 2 /\ new.what = "rejected" => NotCreated')
               /\ (new.id = 0 => child' = new.what)
      BY <3>2
    <3> QED BY <1>3, <3>1, <3>2
  <2>2. \A k \in 1..Len(pending) : child' = pending[k]
    <3>1. \A k \in 1..Len(pending) : pending[k] \in {"own", "killed"} /\ child = pending[k]
      BY <1>1 DEF PipesTrue
    <3> QED BY <3>1
  <2>3. ran' \/ Queued("resume")' => row.recorded
    BY <1>5 DEF PipesTrue
  <2> QED BY <2>1, <2>2, <2>3 DEF PipesTrue
<1>8. ClientKnows'
  BY DEF ClientKnows
<1>9. OutcomeTrue'
  BY DEF OutcomeTrue
<1> QED BY <1>4, <1>6, <1>7, <1>8, <1>9

\* The helper serves the first request (main of the supervisor).
LEMMA ServesSafe == ASSUME SupervisorInvariant, W!HelperServes PROVE SupervisorInvariant'
<1> USE DEF SupervisorInvariant
<1> DEFINE r == requests[1]
<1>1. /\ helper # "gone" /\ requests # <<>> /\ requests' = Tail(requests)
      /\ UNCHANGED <<kind, row, caller, pending, open, outcome>>
  BY DEF W!HelperServes
<1>2. /\ requests \in Seq(Asked) /\ Len(requests) \in Nat /\ 1 \in 1..Len(requests) /\ r \in Asked
      /\ r.id \in Nat /\ r.id >= 1 /\ r.id <= caller.id /\ (r.op = "create" <=> r.id = 2)
  <2>1. requests \in Seq(Asked) /\ 1 \in 1..Len(requests) /\ Len(requests) \in Nat
    BY <1>1 DEF SupervisorShape
  <2>2. r \in Asked
    BY <2>1
  <2>3. r.id >= 1 /\ r.id <= caller.id /\ (r.op = "create" <=> r.id = 2)
    BY <2>1 DEF PipesInOrder
  <2>4. r.id \in Nat
    BY <2>2 DEF Asked
  <2> QED BY <2>1, <2>2, <2>3, <2>4
<1>3. /\ requests' \in Seq(Asked)
      /\ \A k \in 1..Len(requests') : k + 1 \in 1..Len(requests) /\ requests'[k] = requests[k + 1]
  BY <1>1, <1>2
<1>4. \A k \in 1..Len(requests') : r.id < requests'[k].id
  <2>1. ASSUME NEW k \in 1..Len(requests') PROVE r.id < requests'[k].id
    <3>1. k + 1 \in 1..Len(requests) /\ 1 < k + 1
      BY <1>2, <1>3
    <3> QED BY <1>2, <1>3, <3>1 DEF PipesInOrder
  <2> QED BY <2>1
<1>5. \A op : Queued(op)' => Queued(op)
  BY <1>3 DEF Queued
<1>6. r.op = "create" => ~Queued("create")' /\ child = "none" /\ ~NotCreated
  <2>1. SUFFICES ASSUME r.op = "create" PROVE ~Queued("create")' /\ child = "none" /\ ~NotCreated
    OBVIOUS
  <2>2. Queued("create")
    BY <1>2, <2>1 DEF Queued
  <2>3. ASSUME NEW k \in 1..Len(requests'), requests'[k].op = "create" PROVE FALSE
    <3>1. k + 1 \in 1..Len(requests) /\ requests[k + 1].op = "create"
      BY <1>3, <2>3
    <3>2. requests[k + 1].id = 2 /\ r.id = 2
      BY <1>2, <2>1, <3>1 DEF PipesInOrder
    <3> QED BY <1>3, <1>4, <3>2
  <2> QED BY <2>2, <2>3 DEF Queued, NotCreated, PipesTrue
<1>7. r.op = "resume" => ~NeverResumed /\ row.recorded
  BY <1>2 DEF NeverResumed, Queued, PipesTrue
<1>8. caller.pc # "closed"
  BY <1>1 DEF OutcomeTrue
<1>9. PICK what \in {"ok", "rejected"} :
        /\ frames' = frames \/ frames' = Append(frames, [id |-> r.id, what |-> what])
        /\ \/ UNCHANGED <<helper, child, ran>>
           \/ r.op = "create" /\ helper' = "created" /\ child' = "suspended" /\ ran' = ran /\ what = "ok"
           \/ r.op = "resume" /\ helper' = "running" /\ child = "suspended" /\ child' = "running"
              /\ ran' = TRUE
           \/ /\ UNCHANGED <<helper, ran>>
              /\ child' = child \/ (child \in {"running", "suspended"} /\ child' \in {"own", "killed"})
  <2> DEFINE says(what) == frames' = frames \/ frames' = Append(frames, [id |-> r.id, what |-> what])
  <2>1. \A what : (IF caller.pc = "dead" THEN UNCHANGED frames ELSE W!Says(r.id, what)) => says(what)
    BY DEF W!Says
  <2> HIDE DEF says
  <2>2. r.op \in {"hello", "create", "resume", "stop", "abort"}
    BY <1>2 DEF Asked, W!Ops
  <2>3. CASE r.op = "hello"
    <3>1. says("ok") /\ UNCHANGED <<helper, child, ran>>
      BY <2>1, <2>3 DEF W!HelperServes, W!theirs
    <3> QED BY <3>1 DEF says
  <2>4. CASE r.op = "create"
    <3>1. \/ helper' = "created" /\ child' = "suspended" /\ says("ok") /\ UNCHANGED ran
          \/ says("rejected") /\ UNCHANGED <<helper, child, ran>>
      BY <2>1, <2>4 DEF W!HelperServes, W!theirs
    <3> QED BY <2>4, <3>1 DEF says
  <2>5. CASE r.op = "resume"
    <3>1. \/ /\ child = "suspended" /\ helper' = "running" /\ child' = "running" /\ ran' = TRUE
             /\ says("ok")
          \/ says("rejected") /\ UNCHANGED <<helper, child, ran>>
      BY <2>1, <2>5 DEF W!HelperServes, W!theirs
    <3> QED BY <2>5, <3>1 DEF says
  <2>6. CASE r.op = "stop"
    <3>1. \/ /\ child' \in (IF child = "running" THEN {"own", "killed"} ELSE {child})
             /\ says("ok") /\ UNCHANGED <<helper, ran>>
          \/ says("rejected") /\ UNCHANGED <<helper, child, ran>>
      BY <2>1, <2>6 DEF W!HelperServes, W!theirs, W!Codes
    <3> QED BY <3>1 DEF says
  <2>7. CASE r.op = "abort"
    <3>1. \/ child' = W!Killed /\ says("ok") /\ UNCHANGED <<helper, ran>>
          \/ says("rejected") /\ UNCHANGED <<helper, child, ran>>
      BY <2>1, <2>7 DEF W!HelperServes, W!theirs
    <3> QED BY <3>1 DEF says, W!Killed
  <2> QED BY <2>2, <2>3, <2>4, <2>5, <2>6, <2>7
<1>10. PICK new \in Frame : new.id = r.id /\ new.what = what
                            /\ (frames' = frames \/ frames' = Append(frames, new))
  <2>1. [id |-> r.id, what |-> what] \in Frame
    BY <1>2 DEF Frame
  <2> QED BY <1>9, <2>1
<1> HIDE DEF r
<1>11. NotCreated => NotCreated'
  BY <1>5, <1>6, <1>9 DEF NotCreated
<1>12. NeverResumed => NeverResumed'
  BY <1>5, <1>7, <1>9 DEF NeverResumed
<1>13. Queued("create")' => child' = "none"
  BY <1>5, <1>6, <1>9 DEF PipesTrue
<1>14. new.id = 2 /\ new.what = "rejected" => NotCreated'
  BY <1>2, <1>6, <1>9, <1>10 DEF NotCreated
<1>15. ran' => row.recorded
  BY <1>7, <1>9 DEF PipesTrue
<1>16. child' = child \/ child \notin {"own", "killed"}
  BY <1>6, <1>9
<1>17. /\ helper' \in {"idle", "created", "running", "done", "gone"}
       /\ child' \in {"none", "suspended", "running", "own", "killed"}
  BY <1>9 DEF SupervisorShape
<1>18. ran' \in BOOLEAN
  <2>1. ran \in BOOLEAN /\ (ran' = ran \/ ran' = TRUE)
    BY <1>9, Zenon DEF SupervisorShape
  <2> QED BY <2>1, Zenon
<1>19. /\ new.id <= caller.id /\ (\A k \in 1..Len(requests') : new.id < requests'[k].id)
       /\ (new.id = 0 => child' = new.what)
  BY <1>2, <1>4, <1>10
<1>20. \/ frames' = frames
       \/ /\ frames' = Append(frames, new) /\ new.id <= caller.id
          /\ \A k \in 1..Len(requests') : new.id < requests'[k].id
          /\ new.id = 2 /\ new.what = "rejected" => NotCreated'
          /\ new.id = 0 => child' = new.what
  BY <1>10, <1>14, <1>19
<1> QED BY <1>1, <1>8, <1>20, <1>11, <1>12, <1>13, <1>14, <1>15, <1>16, <1>17, <1>18, <1>19, WorldMoves

\* The helper or the child moves without a request (the waiter, the end of either).
LEMMA HelperMoves ==
  ASSUME SupervisorInvariant, UNCHANGED <<kind, row, caller, pending, requests, open, ran, outcome>>,
         \/ frames' = frames
         \/ child \in {"own", "killed"} /\ frames' = Append(frames, [id |-> 0, what |-> child]),
         child' = child \/ (child \in {"suspended", "running"} /\ child' \in {"own", "killed"}),
         helper' \in {helper, "done", "gone"},
         caller.pc = "closed" => helper' = "gone"
  PROVE  SupervisorInvariant'
<1> USE DEF SupervisorInvariant
<1>1. caller.id \in Nat /\ requests \in Seq(Asked) /\ frames \in Seq(Frame)
  BY DEF SupervisorShape, Caller
<1>2. ASSUME NEW k \in 1..Len(requests) PROVE 0 < requests[k].id
  <2>1. requests[k] \in Asked
    BY <1>1
  <2> QED BY <2>1 DEF PipesInOrder, Asked
<1>3. PICK new \in Frame :
        frames' = frames \/ (frames' = Append(frames, new) /\ new.id = 0 /\ new.what = child')
  <2>1. CASE child \in {"own", "killed"} /\ frames' = Append(frames, [id |-> 0, what |-> child])
    <3>1. [id |-> 0, what |-> child] \in Frame /\ child' = child
      BY <2>1 DEF Frame
    <3> QED BY <2>1, <3>1
  <2>2. CASE frames' = frames
    <3>1. [id |-> 0, what |-> "own"] \in Frame
      BY DEF Frame
    <3> QED BY <2>2, <3>1
  <2> QED BY <2>1, <2>2
<1>4. \/ frames' = frames
      \/ /\ frames' = Append(frames, new) /\ new.id <= caller.id
         /\ \A k \in 1..Len(requests') : new.id < requests'[k].id
         /\ new.id = 2 /\ new.what = "rejected" => NotCreated'
         /\ new.id = 0 => child' = new.what
  BY <1>1, <1>2, <1>3
<1>5. /\ NotCreated => NotCreated'
      /\ NeverResumed => NeverResumed'
      /\ Queued("create")' => child' = "none"
      /\ child' = child \/ child \notin {"own", "killed"}
  BY DEF NotCreated, NeverResumed, Queued, PipesTrue
<1>6. /\ ran' => row.recorded
      /\ caller.pc = "closed" => helper' = "gone" /\ child' \notin {"suspended", "running"}
  BY DEF PipesTrue, OutcomeTrue
<1>7. /\ helper' \in {"idle", "created", "running", "done", "gone"} /\ ran' \in BOOLEAN
      /\ child' \in {"none", "suspended", "running", "own", "killed"}
  BY DEF SupervisorShape
<1>8. requests' = requests \/ (requests # <<>> /\ requests' = Tail(requests))
  OBVIOUS
<1> QED BY <1>4, <1>5, <1>6, <1>7, <1>8, WorldMoves

\* The pipe is closed, then the helper is ended, and its child with it (close).
LEMMA CloseSafe == ASSUME SupervisorInvariant, W!Close PROVE SupervisorInvariant'
<1> USE DEF SupervisorInvariant
<1>1. /\ caller.pc = "close"
      /\ UNCHANGED <<kind, row, pending, requests, frames, ran, outcome>>
  BY DEF W!Close
<1>2. CASE open
  <2>1. open' = FALSE /\ UNCHANGED <<caller, helper, child>>
    BY <1>2 DEF W!Close
  <2>2. SupervisorShape'
    BY <1>1, <2>1 DEF SupervisorShape
  <2>3. PipesInOrder' /\ PipesTrue'
    BY <1>1, <2>1 DEF PipesInOrder, PipesTrue, NotCreated, Queued
  <2>4. ClientKnows' /\ OutcomeTrue'
    BY <1>1, <2>1 DEF ClientKnows, OutcomeTrue, NotCreated, NeverResumed, Queued
  <2> QED BY <2>2, <2>3, <2>4
<1>3. CASE ~open
  <2>1. /\ caller' = [caller EXCEPT !.pc = "closed"] /\ open' = open /\ helper' = "gone"
        /\ child' = IF child \in {"suspended", "running"} THEN "killed" ELSE child
    BY <1>3 DEF W!Close
  <2>2. /\ caller' \in Caller /\ caller'.id = caller.id /\ caller'.pc = "closed"
        /\ caller'.created = caller.created /\ caller'.uncertain = caller.uncertain
    BY <2>1 DEF SupervisorShape, Caller
  <2>3. /\ child' \in {"none", "own", "killed"}
        /\ child' = child \/ (child \in {"suspended", "running"} /\ child' = "killed")
    BY <2>1 DEF SupervisorShape
  <2>4. /\ (NotCreated => NotCreated') /\ (Queued("create")' <=> Queued("create"))
        /\ (NeverResumed => NeverResumed') /\ (Queued("resume")' <=> Queued("resume"))
    BY <1>1, <2>3 DEF NotCreated, NeverResumed, Queued
  <2>5. SupervisorShape'
    BY <1>1, <2>1, <2>2, <2>3 DEF SupervisorShape
  <2>6. PipesInOrder'
    BY <1>1, <2>2 DEF PipesInOrder
  <2>7. PipesTrue'
    <3>1. \A f \in 1..Len(frames) : frames[f] \in Frame
      BY DEF SupervisorShape
    <3>2. ASSUME NEW f \in 1..Len(frames), frames[f].id = 0 PROVE child' = frames[f].what
      <4>1. child = frames[f].what /\ frames[f].what \notin {"suspended", "running"}
        BY <3>1, <3>2 DEF PipesTrue, Frame
      <4> QED BY <2>3, <4>1
    <3>3. ASSUME NEW k \in 1..Len(pending) PROVE child' = pending[k]
      <4>1. child = pending[k] /\ pending[k] \in {"own", "killed"}
        BY DEF PipesTrue, SupervisorShape
      <4> QED BY <2>3, <4>1
    <3>4. Queued("create")' => child' = "none"
      BY <2>3, <2>4 DEF PipesTrue
    <3>5. ran' \/ Queued("resume")' => row'.recorded
      BY <1>1, <2>4 DEF PipesTrue
    <3>6. \A f \in 1..Len(frames) : frames[f].id = 2 /\ frames[f].what = "rejected" => NotCreated'
      BY <2>4 DEF PipesTrue
    <3> QED BY <1>1, <3>2, <3>3, <3>4, <3>5, <3>6 DEF PipesTrue
  <2>8. ClientKnows'
    BY <1>1, <2>2 DEF ClientKnows
  <2>9. OutcomeTrue'
    <3>1. outcome' = outcome /\ outcome # W!NoOutcome
      BY <1>1 DEF OutcomeTrue
    <3> QED BY <1>1, <2>1, <2>2, <2>3, <2>4, <3>1 DEF OutcomeTrue
  <2> QED BY <2>5, <2>6, <2>7, <2>8, <2>9
<1> QED BY <1>2, <1>3

\* A cancel, a refresh or the death of the worker (request_cancel, reconcile).
LEMMA OthersSafe ==
  ASSUME SupervisorInvariant, W!RowChanges \/ W!WorkerDies
  PROVE  SupervisorInvariant'
<1> USE DEF SupervisorInvariant
<1>1. UNCHANGED <<kind, pending, requests, frames, helper, child, ran, outcome>>
  BY DEF W!RowChanges, W!WorkerDies, W!pipes, W!theirs
<1>2. (NotCreated' <=> NotCreated) /\ (NeverResumed' <=> NeverResumed)
      /\ (Queued("create")' <=> Queued("create")) /\ (Queued("resume")' <=> Queued("resume"))
  BY <1>1 DEF NotCreated, NeverResumed, Queued
<1>3. CASE W!RowChanges
  <2>1. caller' = caller /\ open' = open
    BY <1>3 DEF W!RowChanges, W!pipes
  <2>2. row' \in Row /\ row'.recorded = row.recorded
    BY <1>3 DEF W!RowChanges, SupervisorShape, Row
  <2>3. SupervisorShape'
    BY <1>1, <2>1, <2>2 DEF SupervisorShape
  <2>4. PipesInOrder' /\ PipesTrue'
    BY <1>1, <1>2, <2>1, <2>2 DEF PipesInOrder, PipesTrue
  <2>5. ClientKnows' /\ OutcomeTrue'
    BY <1>1, <1>2, <2>1 DEF ClientKnows, OutcomeTrue
  <2> QED BY <2>3, <2>4, <2>5
<1>4. CASE W!WorkerDies
  <2>1. /\ caller.pc \notin {"closed", "dead"} /\ caller' = [caller EXCEPT !.pc = "dead"]
        /\ open' = FALSE /\ row' = row
    BY <1>4 DEF W!WorkerDies
  <2>2. /\ caller' \in Caller /\ caller'.id = caller.id /\ caller'.pc = "dead"
        /\ caller'.created = caller.created /\ caller'.uncertain = caller.uncertain
    BY <2>1 DEF SupervisorShape, Caller
  <2>3. SupervisorShape'
    BY <1>1, <2>1, <2>2 DEF SupervisorShape
  <2>4. PipesInOrder' /\ PipesTrue'
    BY <1>1, <1>2, <2>1, <2>2 DEF PipesInOrder, PipesTrue
  <2>5. ClientKnows' /\ OutcomeTrue'
    BY <1>1, <1>2, <2>2 DEF ClientKnows, OutcomeTrue
  <2> QED BY <2>3, <2>4, <2>5
<1> QED BY <1>3, <1>4

\* Every step of the client, of the helper, of its child and of the others keeps it
\* (windows_process.py, windows_wsl_sandbox.py, ccc-win-supervisor).
LEMMA SupervisorSteps ==
  ASSUME SupervisorInvariant, [W!Next]_(W!vars)
  PROVE  SupervisorInvariant'
<1>1. CASE W!Hello \/ W!Create \/ W!Record \/ W!SendStop \/ (W!HandleError /\ kind = "run")
  BY <1>1, AsksSafe
<1>2. CASE W!HandleError /\ kind # "run"
  BY <1>2, ErrorCloses
<1>3. CASE W!TakeEvent \/ W!EventFails \/ W!MarkRunning
  BY <1>3, EventSafe
<1>4. CASE W!DeferEvent
  BY <1>4, DeferSafe
<1>5. CASE W!Answered
  BY <1>5, AnsweredSafe
<1>6. CASE W!RequestFails
  BY <1>6, RequestFailsSafe
<1>7. CASE W!Close
  BY <1>7, CloseSafe
<1>8. CASE W!HelperServes
  BY <1>8, ServesSafe
<1>9. CASE W!HelperReports
  <2>1. /\ helper \in {"created", "running"} /\ child \in {"own", "killed"} /\ helper' = "done"
        /\ frames' = Append(frames, [id |-> 0, what |-> child]) /\ child' = child
        /\ UNCHANGED <<kind, row, caller, pending, requests, open, ran, outcome>>
    BY <1>9 DEF W!HelperReports, W!Codes, W!Says
  <2>2. caller.pc # "closed"
    BY <2>1 DEF SupervisorInvariant, OutcomeTrue
  <2> QED BY <2>1, <2>2, HelperMoves
<1>10. CASE W!HelperGoes
  <2>1. /\ helper' = "gone" /\ frames' = frames
        /\ child' = child \/ (child \in {"suspended", "running"} /\ child' \in {"own", "killed"})
        /\ UNCHANGED <<kind, row, caller, pending, requests, open, ran, outcome>>
    BY <1>10 DEF W!HelperGoes, W!Killed, W!pipes
  <2> QED BY <2>1, HelperMoves
<1>11. CASE W!ChildExits
  <2>1. /\ child = "running" /\ child' \in {"own", "killed"} /\ frames' = frames /\ helper' = helper
        /\ UNCHANGED <<kind, row, caller, pending, requests, open, ran, outcome>>
    BY <1>11 DEF W!ChildExits, W!Codes, W!pipes
  <2>2. caller.pc # "closed"
    BY <2>1 DEF SupervisorInvariant, OutcomeTrue
  <2> QED BY <2>1, <2>2, HelperMoves
<1>12. CASE W!RowChanges \/ W!WorkerDies
  BY <1>12, OthersSafe
<1>13. CASE UNCHANGED W!vars
  <2>1. UNCHANGED <<kind, row, caller, pending, requests, frames, open, helper, child, ran, outcome>>
    BY <1>13 DEF W!vars
  <2>2. frames' = frames /\ child' = child /\ helper' = helper
    BY <2>1
  <2>3. caller.pc = "closed" => helper' = "gone"
    BY <2>1 DEF SupervisorInvariant, OutcomeTrue
  <2> QED BY <2>1, <2>2, <2>3, HelperMoves
<1> QED BY <1>1, <1>2, <1>3, <1>4, <1>5, <1>6, <1>7, <1>8, <1>9, <1>10, <1>11, <1>12, <1>13
        DEF W!Next, W!ClientSteps, W!HelperSteps

\* The pipes, what the client knows and what it is told always agree
\* (windows_process.py, native/windows/ccc-win-supervisor).
THEOREM SupervisorInvariantHolds == W!Spec => []SupervisorInvariant
BY SupervisorStarts, SupervisorSteps, PTL DEF W!Spec

\* What the caller is told for certain is so, for either call and whatever else
\* happens (run_windows_child, execute).
THEOREM SupervisorReports == W!Spec => []ReportHolds
BY SupervisorInvariantHolds, SupervisorPromises, PTL

-----------------------------------------------------------------------------
(* Messages: the runs a message is bound to follow each other.               *)

Letter == [base : Nat, backend : Nat]
TurnRecord ==
  [rev : Nat, backend : Nat \ {0}, status : M!Statuses, alive : BOOLEAN, input : M!Payloads]

MessagesShape ==
  /\ message \in Seq(Letter) /\ Len(message) <= MaxMessages
  /\ cancelled \subseteq M!Ids
  /\ selection \in Seq(M!Payloads) /\ Len(selection) = Len(revision) /\ Len(selection) >= 1
  /\ revision \in Seq([parent : Nat, backend : Nat])
  /\ turn \in Seq(TurnRecord) /\ Len(turn) <= MaxRuns
  /\ bound \in [M!Ids -> Seq(Nat)]
  /\ backend \in Nat

\* The first run brings the first conversation, and no message names one before.
OneConversation ==
  /\ backend # 0 <=> turn # <<>>
  /\ \A m \in 1..Len(message) : message[m].backend # 0 => backend # 0
  /\ \A r \in 1..Len(turn) : turn[r].rev <= Len(revision)

\* What a revision selects was written before it.
SelectedEarlier ==
  \A k \in 1..Len(selection) : \A m \in DOMAIN selection[k] :
    m \in 1..Len(message) /\ message[m].base < k

\* The bindings of a message name runs there are, in their order.
BindingsKnown ==
  \A m \in M!Ids :
    /\ bound[m] # <<>> => m \in 1..Len(message)
    /\ \A i \in 1..Len(bound[m]) : bound[m][i] \in 1..Len(turn)

MessagesInvariant ==
  /\ MessagesShape /\ OneConversation /\ SelectedEarlier /\ BindingsKnown
  /\ M!DeliveredOnce /\ M!DeliveryExact

\* The payloads map messages to the runs before.
LEMMA PayloadsMap == \A p \in M!Payloads : DOMAIN p \subseteq M!Ids
BY DEF M!Payloads

\* Before the first message nothing is bound.
LEMMA MessagesStart == M!Init => MessagesInvariant
<1> SUFFICES ASSUME M!Init PROVE MessagesInvariant
  OBVIOUS
<1> USE DEF M!Init
<1>1. M!Nothing \in M!Payloads /\ DOMAIN M!Nothing = {}
  <2>1. {} \in SUBSET M!Ids /\ M!Nothing \in [{} -> 0..MaxRuns]
    BY DEF M!Nothing
  <2> QED BY <2>1 DEF M!Payloads, M!Nothing
<1>2. MessagesShape
  <2>1. MaxMessages \in Nat /\ MaxRuns \in Nat
    BY HostAssumption DEF HostAssumption, M!MessagesAssumption
  <2>2. message \in Seq(Letter) /\ Len(message) = 0 /\ turn \in Seq(TurnRecord) /\ Len(turn) = 0
    OBVIOUS
  <2>3. selection \in Seq(M!Payloads) /\ Len(selection) = 1
    BY <1>1
  <2>4. revision \in Seq([parent : Nat, backend : Nat]) /\ Len(revision) = 1
    OBVIOUS
  <2>5. bound \in [M!Ids -> Seq(Nat)]
    OBVIOUS
  <2> QED BY <2>1, <2>2, <2>3, <2>4, <2>5 DEF MessagesShape
<1>3. \A m \in M!Ids : bound[m] = <<>> /\ DOMAIN bound[m] = {} /\ 1..Len(bound[m]) = {}
  OBVIOUS
<1>4. DOMAIN turn = {} /\ 1..Len(turn) = {} /\ 1..Len(message) = {} /\ 1..Len(selection) = {1}
  OBVIOUS
<1>5. OneConversation /\ SelectedEarlier /\ BindingsKnown
  BY <1>1, <1>3, <1>4 DEF OneConversation, SelectedEarlier, BindingsKnown
<1>6. M!DeliveredOnce /\ M!DeliveryExact
  BY <1>3, <1>4 DEF M!DeliveredOnce, M!DeliveryExact
<1> QED BY <1>2, <1>5, <1>6 DEF MessagesInvariant

\* The properties with the domains of the sequences spelled out.
LEMMA DeliveryUnfolded ==
  ASSUME MessagesShape
  PROVE  /\ M!DeliveredOnce <=>
              \A m \in M!Ids : \A i, j \in 1..Len(bound[m]) : i < j =>
                turn[bound[m][i]].status \in {"failed", "unstarted"} /\ ~turn[bound[m][i]].alive
         /\ M!DeliveryExact <=>
              /\ \A r \in 1..Len(turn) :
                   DOMAIN turn[r].input = {m \in M!Ids : \E i \in 1..Len(bound[m]) : bound[m][i] = r}
              /\ \A m \in M!Ids : m \in cancelled => bound[m] = <<>>
              /\ \A m \in M!Ids : \A i \in 1..Len(bound[m]) :
                   /\ turn[bound[m][i]].backend
                        = IF message[m].backend # 0 THEN message[m].backend ELSE turn[1].backend
                   /\ message[m].base < turn[bound[m][i]].rev
<1>1. DOMAIN turn = 1..Len(turn) /\ \A m \in M!Ids : DOMAIN bound[m] = 1..Len(bound[m])
  BY DEF MessagesShape
<1>2. M!DeliveredOnce <=>
        \A m \in M!Ids : \A i, j \in 1..Len(bound[m]) : i < j =>
          turn[bound[m][i]].status \in {"failed", "unstarted"} /\ ~turn[bound[m][i]].alive
  BY <1>1 DEF M!DeliveredOnce
<1>3. ASSUME NEW r
      PROVE  {m \in M!Ids : \E i \in DOMAIN bound[m] : bound[m][i] = r}
             = {m \in M!Ids : \E i \in 1..Len(bound[m]) : bound[m][i] = r}
  BY <1>1
<1>4. M!DeliveryExact <=>
        /\ \A r \in 1..Len(turn) :
             DOMAIN turn[r].input = {m \in M!Ids : \E i \in 1..Len(bound[m]) : bound[m][i] = r}
        /\ \A m \in M!Ids : m \in cancelled => bound[m] = <<>>
        /\ \A m \in M!Ids : \A i \in 1..Len(bound[m]) :
             /\ turn[bound[m][i]].backend
                  = IF message[m].backend # 0 THEN message[m].backend ELSE turn[1].backend
             /\ message[m].base < turn[bound[m][i]].rev
  BY <1>1, <1>3 DEF M!DeliveryExact
<1> QED BY <1>2, <1>4

\* A message, a cancellation or a restart touches no run (enqueue, cancel,
\* restart-session).
LEMMA WritingSafe ==
  ASSUME MessagesInvariant,
         M!Enqueue \/ M!RestartSession \/ (\E m \in DOMAIN message : M!Cancel(m))
  PROVE  MessagesInvariant'
<1> USE DEF MessagesInvariant
<1>1. /\ UNCHANGED <<selection, revision, turn, bound>>
      /\ backend' \in Nat /\ (backend' # 0 <=> backend # 0)
  BY DEF M!Enqueue, M!RestartSession, M!Cancel, MessagesShape
<1>2. /\ message' \in Seq(Letter) /\ Len(message') <= MaxMessages /\ Len(message') >= Len(message)
      /\ \A m \in 1..Len(message) : m \in 1..Len(message') /\ message'[m] = message[m]
      /\ \A m \in 1..Len(message') : m \in 1..Len(message) \/ message'[m].backend = backend
      /\ \A m \in 1..Len(message') : message'[m].backend # 0 => backend' # 0
  <2>1. CASE M!Enqueue
    <3>1. message \in Seq(Letter) /\ backend \in Nat /\ Len(revision) \in Nat /\ MaxMessages \in Nat
      BY HostAssumption DEF MessagesShape, HostAssumption, M!MessagesAssumption
    <3>2. PICK new \in Letter : new.backend = backend /\ message' = Append(message, new)
      <4>1. [base |-> Len(revision), backend |-> backend] \in Letter
        BY <3>1 DEF Letter
      <4> QED BY <2>1, <4>1 DEF M!Enqueue, M!Current
    <3>3. Len(message) < MaxMessages /\ backend' = backend
      BY <2>1 DEF M!Enqueue
    <3>4. /\ message' \in Seq(Letter) /\ Len(message') = Len(message) + 1 /\ Len(message) \in Nat
          /\ \A m \in 1..Len(message) : m \in 1..Len(message') /\ message'[m] = message[m]
          /\ \A m \in 1..Len(message') : m \in 1..Len(message) \/ message'[m] = new
      BY <3>1, <3>2
    <3>5. \A m \in 1..Len(message') : message'[m].backend # 0 => backend' # 0
      BY <3>2, <3>3, <3>4 DEF OneConversation
    <3> QED BY <3>1, <3>2, <3>3, <3>4, <3>5
  <2>2. CASE UNCHANGED message
    <3>1. message' = message /\ Len(message) \in Nat
      BY <2>2 DEF MessagesShape
    <3> QED BY <1>1, <3>1 DEF MessagesShape, OneConversation
  <2> QED BY <2>1, <2>2 DEF M!RestartSession, M!Cancel
<1>3. /\ cancelled' \subseteq M!Ids
      /\ \A m \in M!Ids : m \in cancelled' => bound[m] = <<>>
  <2>1. \A m \in cancelled : m \in M!Ids /\ bound[m] = <<>>
    BY DEF MessagesShape, M!DeliveryExact
  <2>2. CASE \E m \in DOMAIN message : M!Cancel(m)
    <3>1. PICK m \in DOMAIN message : M!Cancel(m)
      BY <2>2
    <3>2. m \in M!Ids
      <4>1. MaxMessages \in Nat /\ message \in Seq(Letter) /\ Len(message) <= MaxMessages
        BY HostAssumption DEF MessagesShape, HostAssumption, M!MessagesAssumption
      <4>2. m \in 1..Len(message) /\ Len(message) \in Nat
        BY <4>1
      <4> QED BY <4>1, <4>2 DEF M!Ids
    <3> QED BY <2>1, <3>1, <3>2 DEF M!Cancel
  <2>3. CASE UNCHANGED cancelled
    BY <2>1, <2>3
  <2> QED BY <2>2, <2>3 DEF M!Enqueue, M!RestartSession
<1>4. MessagesShape'
  BY <1>1, <1>2, <1>3 DEF MessagesShape
<1>5. OneConversation'
  BY <1>1, <1>2 DEF OneConversation
<1>6. SelectedEarlier'
  BY <1>1, <1>2 DEF SelectedEarlier
<1>7. BindingsKnown'
  BY <1>1, <1>2 DEF BindingsKnown
<1>8. M!DeliveredOnce'
  BY <1>1 DEF M!DeliveredOnce
<1>9. M!DeliveryExact'
  <2>1. ASSUME NEW m \in M!Ids, NEW i \in DOMAIN bound[m]
        PROVE  message'[m] = message[m]
    <3>1. bound[m] # <<>>
      BY DEF MessagesShape
    <3> QED BY <1>2, <3>1 DEF BindingsKnown
  <2> QED BY <1>1, <1>3, <2>1 DEF M!DeliveryExact
<1> QED BY <1>4, <1>5, <1>6, <1>7, <1>8, <1>9

\* The latest binding of a message is one of them.
LEMMA LatestBound ==
  ASSUME MessagesInvariant, NEW m \in M!Ids
  PROVE  /\ bound[m] \in Seq(Nat) /\ Len(bound[m]) \in Nat
         /\ bound[m] # <<>> =>
              /\ Len(bound[m]) \in 1..Len(bound[m])
              /\ M!LatestBinding(m) = bound[m][Len(bound[m])]
              /\ M!LatestBinding(m) \in 1..Len(turn) /\ M!LatestBinding(m) # 0
              /\ m \in 1..Len(message)
<1>1. bound[m] \in Seq(Nat)
  BY DEF MessagesInvariant, MessagesShape
<1>2. Len(bound[m]) \in Nat /\ (bound[m] # <<>> => Len(bound[m]) \in 1..Len(bound[m]))
  BY <1>1
<1>3. turn \in Seq(TurnRecord)
  BY DEF MessagesInvariant, MessagesShape
<1> QED BY <1>1, <1>2, <1>3 DEF MessagesInvariant, BindingsKnown, M!LatestBinding

\* A revision freezes a selection of earlier messages (select_in, revise_in).
LEMMA ReviseSafe ==
  ASSUME MessagesInvariant, NEW ids \in SUBSET DOMAIN message, NEW redeliver \in BOOLEAN,
         M!Revise(ids, redeliver)
  PROVE  MessagesInvariant'
<1> USE DEF MessagesInvariant
<1>1. /\ UNCHANGED <<message, cancelled, turn, bound, backend>>
      /\ \A m \in ids : M!Selectable(m, redeliver)
  BY DEF M!Revise
<1>2. /\ selection \in Seq(M!Payloads) /\ Len(selection) \in Nat /\ Len(selection) = Len(revision)
      /\ revision \in Seq([parent : Nat, backend : Nat]) /\ turn \in Seq(TurnRecord)
      /\ Len(turn) \in Nat /\ backend \in Nat
  BY DEF MessagesShape
<1>3. ASSUME NEW m \in ids PROVE m \in M!Ids /\ m \in 1..Len(message)
  <2>1. MaxMessages \in Nat /\ message \in Seq(Letter) /\ Len(message) <= MaxMessages
    BY HostAssumption DEF MessagesShape, HostAssumption, M!MessagesAssumption
  <2>2. m \in 1..Len(message) /\ Len(message) \in Nat
    BY <2>1
  <2> QED BY <2>1, <2>2 DEF M!Ids
<1>4. ASSUME NEW m \in ids PROVE message[m].base < Len(revision) + 1
  <2>1. message[m] \in Letter /\ Len(revision) \in Nat
    BY <1>2, <1>3 DEF MessagesShape
  <2>2. message[m].base \in Nat
    BY <2>1 DEF Letter
  <2>3. CASE bound[m] = <<>>
    BY <1>1, <2>1, <2>2, <2>3 DEF M!Selectable, M!Current
  <2>4. CASE bound[m] # <<>>
    <3>1. /\ 1..Len(bound[m]) # {} /\ Len(bound[m]) \in 1..Len(bound[m])
          /\ bound[m][Len(bound[m])] \in 1..Len(turn)
      BY <1>3, <2>4, LatestBound DEF BindingsKnown
    <3>2. PICK r \in 1..Len(turn) : r = bound[m][Len(bound[m])] /\ message[m].base < turn[r].rev
      BY <1>3, <3>1, DeliveryUnfolded
    <3>3. turn[r].rev \in Nat /\ turn[r].rev <= Len(revision)
      <4>1. turn[r] \in TurnRecord
        BY <1>2
      <4> QED BY <4>1 DEF TurnRecord, OneConversation
    <3> QED BY <2>1, <2>2, <3>2, <3>3
  <2> QED BY <2>3, <2>4
<1>5. PICK p \in M!Payloads :
        DOMAIN p = ids /\ selection' = Append(selection, p)
  <2>1. MaxRuns \in Nat /\ Len(turn) <= MaxRuns
    BY HostAssumption DEF MessagesShape, HostAssumption, M!MessagesAssumption
  <2>2. ASSUME NEW m \in ids PROVE M!LatestBinding(m) \in 0..MaxRuns
    <3>1. CASE bound[m] = <<>>
      BY <2>1, <3>1 DEF M!LatestBinding
    <3>2. CASE bound[m] # <<>>
      BY <1>2, <1>3, <2>1, <3>2, LatestBound
    <3> QED BY <3>1, <3>2
  <2> DEFINE p == [m \in ids |-> M!LatestBinding(m)]
  <2>3. ids \in SUBSET M!Ids /\ p \in [ids -> 0..MaxRuns]
    BY <1>3, <2>2
  <2>4. p \in M!Payloads
    BY <2>3 DEF M!Payloads
  <2>5. selection' = Append(selection, p) /\ DOMAIN p = ids
    BY DEF M!Revise
  <2> QED BY <2>4, <2>5
<1>6. /\ selection' \in Seq(M!Payloads) /\ Len(selection') = Len(selection) + 1
      /\ \A k \in 1..Len(selection') :
           \/ k \in 1..Len(selection) /\ selection'[k] = selection[k]
           \/ k = Len(selection) + 1 /\ selection'[k] = p
  BY <1>2, <1>5
<1>7. /\ revision' \in Seq([parent : Nat, backend : Nat]) /\ Len(revision') = Len(revision) + 1
  <2>1. [parent |-> Len(turn), backend |-> backend] \in [parent : Nat, backend : Nat]
    BY <1>2
  <2> QED BY <1>2, <2>1 DEF M!Revise, M!Latest
<1>8. MessagesShape'
  BY <1>1, <1>2, <1>6, <1>7 DEF MessagesShape
<1>9. OneConversation'
  <2>1. ASSUME NEW r \in 1..Len(turn) PROVE turn[r].rev <= Len(revision) + 1
    <3>1. turn[r] \in TurnRecord
      BY <1>2
    <3>2. turn[r].rev \in Nat /\ turn[r].rev <= Len(revision) /\ Len(revision) \in Nat
      BY <1>2, <3>1 DEF TurnRecord, OneConversation
    <3> QED BY <3>2
  <2> QED BY <1>1, <1>7, <2>1 DEF OneConversation
<1>10. SelectedEarlier'
  <2>1. ASSUME NEW k \in 1..Len(selection'), NEW m \in DOMAIN selection'[k]
        PROVE  m \in 1..Len(message) /\ message[m].base < k
    <3>1. CASE k \in 1..Len(selection) /\ selection'[k] = selection[k]
      BY <3>1 DEF SelectedEarlier
    <3>2. CASE k = Len(selection) + 1 /\ selection'[k] = p
      <4>1. m \in ids
        BY <1>5, <3>2
      <4> QED BY <1>2, <1>3, <1>4, <3>2, <4>1
    <3> QED BY <1>6, <3>1, <3>2
  <2> QED BY <1>1, <2>1 DEF SelectedEarlier
<1>11. BindingsKnown'
  BY <1>1 DEF BindingsKnown
<1>12. M!DeliveredOnce' /\ M!DeliveryExact'
  BY <1>1 DEF M!DeliveredOnce, M!DeliveryExact
<1> QED BY <1>8, <1>9, <1>10, <1>11, <1>12

\* A failure that has stopped stays one, whatever becomes of the runs
\* (_stopped_failure); nothing else of a run changes.
LEMMA RunsMoveSafe ==
  ASSUME MessagesInvariant, NEW r \in DOMAIN turn, M!RunMoves(r)
  PROVE  MessagesInvariant'
<1> USE DEF MessagesInvariant
<1>1. UNCHANGED <<message, cancelled, selection, revision, bound, backend>>
  BY DEF M!RunMoves
<1>2. turn \in Seq(TurnRecord) /\ r \in 1..Len(turn) /\ Len(turn) \in Nat /\ turn[r] \in TurnRecord
  BY DEF MessagesShape
<1>3. PICK status \in M!Statuses, alive \in BOOLEAN :
        /\ turn' = [turn EXCEPT ![r] = [turn[r] EXCEPT !.status = status, !.alive = alive]]
        /\ turn[r].status \in {"failed", "unstarted"} /\ ~turn[r].alive => FALSE
  <2>1. turn[r].status \in M!Statuses /\ turn[r].alive \in BOOLEAN
    BY <1>2 DEF TurnRecord
  <2>2. CASE /\ turn[r].status \in {"active", "unknown"}
             /\ \E status \in {"completed", "failed", "unstarted"} :
                  turn' = [turn EXCEPT ![r].status = status]
    <3>1. PICK status \in {"completed", "failed", "unstarted"} :
            turn' = [turn EXCEPT ![r].status = status]
      BY <2>2
    <3>2. [turn[r] EXCEPT !.status = status]
          = [turn[r] EXCEPT !.status = status, !.alive = turn[r].alive]
      BY <1>2 DEF TurnRecord
    <3>3. turn' = [turn EXCEPT ![r] = [turn[r] EXCEPT !.status = status, !.alive = turn[r].alive]]
      BY <3>1, <3>2, Zenon
    <3>4. status \in M!Statuses
      BY DEF M!Statuses
    <3> QED BY <2>1, <2>2, <3>3, <3>4
  <2>3. CASE turn[r].status = "active" /\ turn' = [turn EXCEPT ![r].status = "unknown"]
    <3>2. [turn[r] EXCEPT !.status = "unknown"]
          = [turn[r] EXCEPT !.status = "unknown", !.alive = turn[r].alive]
      BY <1>2 DEF TurnRecord
    <3>3. turn' = [turn EXCEPT ![r] = [turn[r] EXCEPT !.status = "unknown", !.alive = turn[r].alive]]
      BY <2>3, <3>2, Zenon
    <3>4. "unknown" \in M!Statuses
      BY DEF M!Statuses
    <3> QED BY <2>1, <2>3, <3>3, <3>4
  <2>4. CASE turn[r].alive /\ turn' = [turn EXCEPT ![r].alive = FALSE]
    <3>2. [turn[r] EXCEPT !.alive = FALSE]
          = [turn[r] EXCEPT !.status = turn[r].status, !.alive = FALSE]
      BY <1>2 DEF TurnRecord
    <3>3. turn' = [turn EXCEPT ![r] = [turn[r] EXCEPT !.status = turn[r].status, !.alive = FALSE]]
      BY <2>4, <3>2, Zenon
    <3> QED BY <2>1, <2>4, <3>3
  <2>5. CASE turn[r].status = "completed" /\ turn' = [turn EXCEPT ![r].status = "failed"]
    <3>2. [turn[r] EXCEPT !.status = "failed"]
          = [turn[r] EXCEPT !.status = "failed", !.alive = turn[r].alive]
      BY <1>2 DEF TurnRecord
    <3>3. turn' = [turn EXCEPT ![r] = [turn[r] EXCEPT !.status = "failed", !.alive = turn[r].alive]]
      BY <2>5, <3>2, Zenon
    <3>4. "failed" \in M!Statuses
      BY DEF M!Statuses
    <3> QED BY <2>1, <2>5, <3>3, <3>4
  <2> QED BY <2>2, <2>3, <2>4, <2>5 DEF M!RunMoves
<1>4. PICK new \in TurnRecord :
        /\ turn' = [turn EXCEPT ![r] = new]
        /\ new.rev = turn[r].rev /\ new.backend = turn[r].backend /\ new.input = turn[r].input
  <2>1. [turn[r] EXCEPT !.status = status, !.alive = alive] \in TurnRecord
    BY <1>2, <1>3 DEF TurnRecord
  <2>2. /\ [turn[r] EXCEPT !.status = status, !.alive = alive].rev = turn[r].rev
        /\ [turn[r] EXCEPT !.status = status, !.alive = alive].backend = turn[r].backend
        /\ [turn[r] EXCEPT !.status = status, !.alive = alive].input = turn[r].input
    BY <1>2 DEF TurnRecord
  <2> QED BY <1>3, <2>1, <2>2
<1>5. /\ turn' \in Seq(TurnRecord) /\ Len(turn') = Len(turn)
      /\ \A s \in 1..Len(turn) : s # r => turn'[s] = turn[s]
      /\ \A s \in 1..Len(turn) :
           turn'[s].rev = turn[s].rev /\ turn'[s].backend = turn[s].backend /\ turn'[s].input = turn[s].input
  BY <1>2, <1>4
<1>6. MessagesShape'
  BY <1>1, <1>5 DEF MessagesShape
<1>7. turn # <<>> /\ turn' # <<>> /\ 1 \in 1..Len(turn)
  BY <1>2, <1>5
<1>8. OneConversation' /\ SelectedEarlier' /\ BindingsKnown'
  BY <1>1, <1>5, <1>7 DEF OneConversation, SelectedEarlier, BindingsKnown
<1>9. M!DeliveredOnce'
  <2>1. ASSUME NEW m \in M!Ids, NEW i \in 1..Len(bound[m]), NEW j \in 1..Len(bound[m]), i < j
        PROVE  turn'[bound[m][i]].status \in {"failed", "unstarted"} /\ ~turn'[bound[m][i]].alive
    <3>1. /\ turn[bound[m][i]].status \in {"failed", "unstarted"} /\ ~turn[bound[m][i]].alive
          /\ bound[m][i] \in 1..Len(turn)
      BY <2>1, DeliveryUnfolded DEF BindingsKnown
    <3>2. bound[m][i] # r
      BY <1>3, <3>1
    <3> QED BY <1>5, <3>1, <3>2
  <2>2. \A m \in M!Ids : DOMAIN bound[m] = 1..Len(bound[m])
    BY DEF MessagesShape
  <2> QED BY <1>1, <2>1, <2>2 DEF M!DeliveredOnce
<1>10. M!DeliveryExact'
  <2>1. ASSUME NEW s \in 1..Len(turn)
        PROVE  DOMAIN turn'[s].input = {m \in M!Ids : \E i \in DOMAIN bound[m] : bound[m][i] = s}
    <3>1. DOMAIN turn[s].input = {m \in M!Ids : \E i \in DOMAIN bound[m] : bound[m][i] = s}
      BY <1>2 DEF M!DeliveryExact
    <3> QED BY <1>5, <3>1
  <2>2. ASSUME NEW m \in M!Ids, NEW i \in DOMAIN bound[m]
        PROVE  /\ turn'[bound[m][i]].backend
                     = IF message[m].backend # 0 THEN message[m].backend ELSE turn'[1].backend
               /\ message[m].base < turn'[bound[m][i]].rev
    <3>1. bound[m][i] \in 1..Len(turn)
      BY DEF BindingsKnown, MessagesShape
    <3> QED BY <1>5, <1>7, <3>1 DEF M!DeliveryExact
  <2>3. DOMAIN turn' = 1..Len(turn)
    BY <1>5
  <2> QED BY <1>1, <2>1, <2>2, <2>3 DEF M!DeliveryExact
<1> QED BY <1>6, <1>8, <1>9, <1>10

\* A message goes to another run only where its latest one has failed and stopped, and
\* to the conversation it was written for (materialize, bind_in).
LEMMA ReserveSafe ==
  ASSUME MessagesInvariant, M!Reserve, LET sel == selection[M!Current] IN
           \A m \in DOMAIN sel :
             /\ M!Target(m) /\ m \notin cancelled
             /\ M!LatestBinding(m) # 0 => M!StoppedFailure(M!LatestBinding(m))
  PROVE  MessagesInvariant'
<1> USE DEF MessagesInvariant
<1> DEFINE now == selection[Len(revision)]
           run == Len(turn) + 1
           used == IF backend = 0 THEN 1 ELSE backend
<1>1. /\ Len(turn) < MaxRuns /\ UNCHANGED <<message, cancelled, selection, revision>>
      /\ turn' = Append(turn, [rev |-> Len(revision), backend |-> used, status |-> "active",
                               alive |-> TRUE, input |-> now])
      /\ bound' = [m \in M!Ids |-> IF m \in DOMAIN now THEN Append(bound[m], run) ELSE bound[m]]
      /\ backend' = used
  BY DEF M!Reserve, M!Latest, M!Current
<1>2. /\ \A m \in DOMAIN now :
           /\ M!Target(m) /\ m \notin cancelled
           /\ M!LatestBinding(m) # 0 => M!StoppedFailure(M!LatestBinding(m))
  BY DEF M!Current
<1>3. /\ selection \in Seq(M!Payloads) /\ Len(selection) = Len(revision) /\ Len(revision) \in Nat
      /\ Len(revision) \in 1..Len(selection) /\ turn \in Seq(TurnRecord) /\ Len(turn) \in Nat
      /\ backend \in Nat /\ now \in M!Payloads
  BY DEF MessagesShape
<1>4. DOMAIN now \subseteq M!Ids
  BY <1>3, PayloadsMap
<1>5. \A m \in DOMAIN now : m \in 1..Len(message) /\ message[m].base < Len(revision)
  BY <1>3 DEF SelectedEarlier
<1>6. used \in Nat \ {0} /\ (backend # 0 => used = backend) /\ run \in Nat /\ run = Len(turn) + 1
  BY <1>3
<1>7. PICK new \in TurnRecord :
        /\ turn' = Append(turn, new) /\ new.rev = Len(revision) /\ new.backend = used
        /\ new.input = now
  <2>1. [rev |-> Len(revision), backend |-> used, status |-> "active", alive |-> TRUE,
         input |-> now] \in TurnRecord
    BY <1>3, <1>6 DEF TurnRecord, M!Statuses
  <2> QED BY <1>1, <2>1
<1> HIDE DEF now, run, used
<1>8. /\ turn' \in Seq(TurnRecord) /\ Len(turn') = run
      /\ \A r \in 1..Len(turn) : turn'[r] = turn[r] /\ r # run /\ r \in 1..Len(turn')
      /\ turn'[run] = new /\ run \in 1..Len(turn')
      /\ \A r \in 1..Len(turn') : r \in 1..Len(turn) \/ r = run
      /\ DOMAIN turn' = 1..Len(turn') /\ DOMAIN turn = 1..Len(turn)
  BY <1>3, <1>6, <1>7
<1>9. ASSUME NEW m \in M!Ids
      PROVE  /\ bound[m] \in Seq(Nat) /\ bound'[m] \in Seq(Nat) /\ DOMAIN bound[m] = 1..Len(bound[m])
             /\ DOMAIN bound'[m] = 1..Len(bound'[m]) /\ Len(bound[m]) \in Nat
             /\ m \notin DOMAIN now => bound'[m] = bound[m]
             /\ m \in DOMAIN now =>
                  /\ Len(bound'[m]) = Len(bound[m]) + 1
                  /\ bound'[m][Len(bound[m]) + 1] = run
                  /\ \A i \in 1..Len(bound[m]) : bound'[m][i] = bound[m][i]
  <2>1. bound[m] \in Seq(Nat)
    BY DEF MessagesShape
  <2>2. bound'[m] = IF m \in DOMAIN now THEN Append(bound[m], run) ELSE bound[m]
    BY <1>1
  <2> QED BY <1>6, <2>1, <2>2
<1>10. ASSUME NEW m \in M!Ids, NEW i \in 1..Len(bound'[m])
       PROVE  \/ i \in 1..Len(bound[m]) /\ bound'[m][i] = bound[m][i]
                 /\ bound[m][i] \in 1..Len(turn)
              \/ m \in DOMAIN now /\ i = Len(bound[m]) + 1 /\ bound'[m][i] = run
  <2>1. m \notin DOMAIN now => bound'[m] = bound[m]
    BY <1>9
  <2>2. m \in DOMAIN now =>
                  /\ Len(bound'[m]) = Len(bound[m]) + 1
                  /\ bound'[m][Len(bound[m]) + 1] = run
                  /\ \A k \in 1..Len(bound[m]) : bound'[m][k] = bound[m][k]
    BY <1>9
  <2>3. Len(bound[m]) \in Nat
    BY <1>9
  <2>4. i \in 1..Len(bound[m]) => bound'[m][i] = bound[m][i] /\ bound[m][i] \in 1..Len(turn)
    BY <2>1, <2>2 DEF BindingsKnown
  <2>5. i \in 1..Len(bound[m]) \/ (m \in DOMAIN now /\ i = Len(bound[m]) + 1)
    BY <2>1, <2>2, <2>3
  <2> QED BY <2>2, <2>4, <2>5
<1>11. MessagesShape'
  <2>1. bound' \in [M!Ids -> Seq(Nat)]
    <3>1. \A m \in M!Ids : (IF m \in DOMAIN now THEN Append(bound[m], run) ELSE bound[m]) \in Seq(Nat)
      BY <1>1, <1>9
    <3> QED BY <1>1, <3>1
  <2>2. Len(turn') <= MaxRuns
    <3>1. MaxRuns \in Nat
      BY HostAssumption DEF HostAssumption, M!MessagesAssumption
    <3> QED BY <1>1, <1>3, <1>6, <1>8, <3>1
  <2>3. backend' \in Nat
    BY <1>1, <1>6
  <2>4. UNCHANGED <<message, cancelled, selection, revision>>
    BY <1>1
  <2> QED BY <1>8, <2>1, <2>2, <2>3, <2>4 DEF MessagesShape
<1>12. OneConversation'
  <2>1. backend' # 0 /\ turn' # <<>>
    BY <1>1, <1>6, <1>7, <1>3
  <2>2. \A r \in 1..Len(turn') : turn'[r].rev <= Len(revision)
    <3>1. ASSUME NEW r \in 1..Len(turn') PROVE turn'[r].rev <= Len(revision)
      <4>1. CASE r \in 1..Len(turn)
        BY <1>8, <4>1 DEF OneConversation
      <4>2. CASE r = run
        BY <1>3, <1>7, <1>8, <4>2
      <4> QED BY <1>8, <4>1, <4>2
    <3> QED BY <3>1
  <2> QED BY <1>1, <2>1, <2>2 DEF OneConversation
<1>13. SelectedEarlier'
  BY <1>1 DEF SelectedEarlier
<1>14. BindingsKnown'
  <2>1. ASSUME NEW m \in M!Ids, bound'[m] # <<>> PROVE m \in 1..Len(message)
    <3>1. CASE m \in DOMAIN now
      BY <1>5, <3>1
    <3>2. CASE m \notin DOMAIN now
      BY <1>9, <2>1, <3>2 DEF BindingsKnown
    <3> QED BY <3>1, <3>2
  <2>2. ASSUME NEW m \in M!Ids, NEW i \in 1..Len(bound'[m]) PROVE bound'[m][i] \in 1..Len(turn')
    BY <1>8, <1>10
  <2> QED BY <1>1, <2>1, <2>2 DEF BindingsKnown
<1>15. M!DeliveredOnce'
  <2>1. ASSUME NEW m \in M!Ids, NEW i \in 1..Len(bound'[m]), NEW j \in 1..Len(bound'[m]), i < j
        PROVE  turn'[bound'[m][i]].status \in {"failed", "unstarted"} /\ ~turn'[bound'[m][i]].alive
    <3>1. /\ i \in 1..Len(bound[m]) /\ bound'[m][i] = bound[m][i]
          /\ bound[m][i] \in 1..Len(turn)
      <4>1. i # Len(bound[m]) + 1
        BY <1>9, <1>10, <2>1
      <4> QED BY <1>10, <4>1
    <3>2. turn[bound[m][i]].status \in {"failed", "unstarted"} /\ ~turn[bound[m][i]].alive
      <4>1. CASE j \in 1..Len(bound[m])
        BY <2>1, <3>1, <4>1, DeliveryUnfolded
      <4>2. CASE m \in DOMAIN now /\ j = Len(bound[m]) + 1
        <5>1. bound[m] # <<>>
          BY <1>9, <3>1
        <5>2. M!StoppedFailure(bound[m][Len(bound[m])])
          BY <1>2, <4>2, <5>1, LatestBound
        <5>3. CASE i = Len(bound[m])
          BY <5>2, <5>3 DEF M!StoppedFailure
        <5>4. CASE i < Len(bound[m])
          <6>1. Len(bound[m]) \in 1..Len(bound[m])
            BY <5>1, LatestBound
          <6> QED BY <3>1, <5>4, <6>1, DeliveryUnfolded
        <5>5. i = Len(bound[m]) \/ i < Len(bound[m])
          BY <1>9, <3>1
        <5> QED BY <5>3, <5>4, <5>5
      <4> QED BY <1>10, <4>1, <4>2
    <3> QED BY <1>8, <3>1, <3>2
  <2>2. \A m \in M!Ids : DOMAIN bound'[m] = 1..Len(bound'[m])
    BY <1>9
  <2> QED BY <2>1, <2>2 DEF M!DeliveredOnce
<1>16. ASSUME NEW r \in 1..Len(turn')
       PROVE  DOMAIN turn'[r].input = {m \in M!Ids : \E i \in 1..Len(bound'[m]) : bound'[m][i] = r}
  <2>1. CASE r \in 1..Len(turn)
    <3>1. DOMAIN turn[r].input = {m \in M!Ids : \E i \in 1..Len(bound[m]) : bound[m][i] = r}
      BY <2>1, DeliveryUnfolded
    <3>2. ASSUME NEW m \in M!Ids
          PROVE  (\E i \in 1..Len(bound'[m]) : bound'[m][i] = r)
                 <=> (\E i \in 1..Len(bound[m]) : bound[m][i] = r)
      <4>1. \A i \in 1..Len(bound[m]) : i \in 1..Len(bound'[m]) /\ bound'[m][i] = bound[m][i]
        <5>1. Len(bound[m]) \in Nat
          BY <1>9
        <5>2. CASE m \in DOMAIN now
          <6>1. Len(bound'[m]) = Len(bound[m]) + 1
            BY <1>9, <5>2
          <6>2. \A i \in 1..Len(bound[m]) : bound'[m][i] = bound[m][i]
            BY <1>9, <5>2
          <6> QED BY <5>1, <6>1, <6>2
        <5>3. CASE m \notin DOMAIN now
          BY <1>9, <5>3
        <5> QED BY <5>2, <5>3
      <4> QED BY <1>8, <1>10, <2>1, <4>1
    <3> QED BY <1>8, <2>1, <3>1, <3>2
  <2>2. CASE r = run
    <3>1. DOMAIN turn'[r].input = DOMAIN now
      BY <1>7, <1>8, <2>2
    <3>2. ASSUME NEW m \in M!Ids
          PROVE  (\E i \in 1..Len(bound'[m]) : bound'[m][i] = run) <=> m \in DOMAIN now
      <4>1. CASE m \in DOMAIN now
        <5>1. Len(bound[m]) + 1 \in 1..Len(bound'[m])
          BY <1>9, <4>1
        <5> QED BY <1>9, <4>1, <5>1
      <4>2. CASE m \notin DOMAIN now
        BY <1>8, <1>10, <4>2
      <4> QED BY <4>1, <4>2
    <3> QED BY <1>4, <2>2, <3>1, <3>2
  <2> QED BY <1>8, <2>1, <2>2
<1>17. ASSUME NEW m \in M!Ids, m \in cancelled PROVE bound'[m] = <<>>
  BY <1>2, <1>9, <1>17 DEF M!DeliveryExact
<1>18. turn # <<>> => turn'[1].backend = turn[1].backend
  BY <1>3, <1>8
<1>19. ASSUME NEW m \in M!Ids, NEW i \in 1..Len(bound'[m])
       PROVE  /\ turn'[bound'[m][i]].backend
                   = IF message[m].backend # 0 THEN message[m].backend ELSE turn'[1].backend
              /\ message[m].base < turn'[bound'[m][i]].rev
  <2>1. CASE i \in 1..Len(bound[m]) /\ bound'[m][i] = bound[m][i] /\ bound[m][i] \in 1..Len(turn)
    <3>1. turn # <<>>
      BY <1>3, <2>1
    <3> QED BY <1>8, <1>18, <2>1, <3>1, DeliveryUnfolded
  <2>2. CASE m \in DOMAIN now /\ bound'[m][i] = run
    <3>1. turn'[bound'[m][i]].backend = used /\ turn'[bound'[m][i]].rev = Len(revision)
      BY <1>7, <1>8, <2>2
    <3>2. CASE backend = 0
      <4>1. turn = <<>> /\ message[m].backend = 0
        BY <1>5, <2>2, <3>2 DEF OneConversation
      <4>2. run = 1
        BY <1>6, <4>1
      <4> QED BY <1>5, <1>7, <1>8, <2>2, <3>1, <4>1, <4>2
    <3>3. CASE backend # 0
      <4>1. turn # <<>> /\ turn[1].backend # 0
        <5>1. turn # <<>>
          BY <3>3 DEF OneConversation
        <5>2. turn[1] \in TurnRecord
          BY <1>3, <5>1
        <5> QED BY <5>1, <5>2 DEF TurnRecord
      <4>2. backend = IF message[m].backend # 0 THEN message[m].backend ELSE turn[1].backend
        BY <1>2, <2>2, <3>3, <4>1 DEF M!Target
      <4> QED BY <1>5, <1>6, <1>18, <2>2, <3>1, <3>3, <4>1, <4>2
    <3> QED BY <3>2, <3>3
  <2> QED BY <1>10, <2>1, <2>2
<1>20. M!DeliveryExact'
  <2>1. \A m \in M!Ids : DOMAIN bound'[m] = 1..Len(bound'[m])
    BY <1>9
  <2>2. ASSUME NEW r
        PROVE  {m \in M!Ids : \E i \in DOMAIN bound'[m] : bound'[m][i] = r}
               = {m \in M!Ids : \E i \in 1..Len(bound'[m]) : bound'[m][i] = r}
    BY <2>1
  <2>3. cancelled' = cancelled /\ message' = message
    BY <1>1
  <2> QED BY <1>8, <1>16, <1>17, <1>19, <2>1, <2>2, <2>3 DEF M!DeliveryExact
<1> QED BY <1>11, <1>12, <1>13, <1>14, <1>15, <1>20

\* Every operation keeps the bindings (messages.py).
LEMMA MessagesStep ==
  ASSUME MessagesInvariant, [M!Next]_(M!vars)
  PROVE  MessagesInvariant'
<1>1. CASE M!Enqueue \/ M!RestartSession \/ (\E m \in DOMAIN message : M!Cancel(m))
  BY <1>1, WritingSafe
<1>2. CASE M!Submit
  <2>1. \A m \in DOMAIN selection[M!Current] :
          /\ M!Target(m) /\ m \notin cancelled
          /\ M!LatestBinding(m) # 0 => M!StoppedFailure(M!LatestBinding(m))
    BY <1>2 DEF M!Submit, M!Deliverable
  <2>2. M!Reserve
    BY <1>2 DEF M!Submit
  <2> QED BY <2>1, <2>2, ReserveSafe
<1>3. CASE M!Retry
  <2>1. \A m \in DOMAIN selection[M!Current] :
          /\ M!Target(m) /\ m \notin cancelled
          /\ M!LatestBinding(m) # 0 => M!StoppedFailure(M!LatestBinding(m))
    <3>1. \A r \in M!Attempts : M!StoppedFailure(r)
      BY <1>3 DEF M!Retry, M!StoppedFailure
    <3> QED BY <1>3, <3>1 DEF M!Retry, M!Deliverable
  <2>2. M!Reserve
    BY <1>3 DEF M!Retry
  <2> QED BY <2>1, <2>2, ReserveSafe
<1>4. CASE \E ids \in SUBSET DOMAIN message, redeliver \in BOOLEAN : M!Revise(ids, redeliver)
  BY <1>4, ReviseSafe
<1>5. CASE \E r \in DOMAIN turn : M!RunMoves(r)
  BY <1>5, RunsMoveSafe
<1>6. CASE UNCHANGED M!vars
  <2>1. UNCHANGED <<message, cancelled, selection, revision, turn, bound, backend>>
    BY <1>6 DEF M!vars
  <2>2. MessagesShape'
    BY <2>1 DEF MessagesInvariant, MessagesShape
  <2>3. OneConversation' /\ SelectedEarlier' /\ BindingsKnown'
    BY <2>1 DEF MessagesInvariant, OneConversation, SelectedEarlier, BindingsKnown
  <2>4. M!DeliveredOnce' /\ M!DeliveryExact'
    BY <2>1 DEF MessagesInvariant, M!DeliveredOnce, M!DeliveryExact
  <2> QED BY <2>2, <2>3, <2>4 DEF MessagesInvariant
<1> QED BY <1>1, <1>2, <1>3, <1>4, <1>5, <1>6 DEF M!Next

\* Selections, bindings and conversations agree whatever happens to the runs
\* (select_in, materialize, bind_in).
THEOREM MessagesInvariantHolds == M!Spec => []MessagesInvariant
BY MessagesStart, MessagesStep, PTL DEF M!Spec

\* No two runs that may have worked on a message have it (_stopped_failure,
\* materialize).
THEOREM MessagesDeliveredOnce == M!Spec => []DeliveredOnce
<1>1. MessagesInvariant => DeliveredOnce
  BY DEF MessagesInvariant, DeliveredOnce
<1> QED BY <1>1, MessagesInvariantHolds, PTL

\* What a run was told is what is bound to it, in the conversation it was written for
\* (bind_in, _target).
THEOREM MessagesDeliveredExactly == M!Spec => []DeliveryExact
<1>1. MessagesInvariant => DeliveryExact
  BY DEF MessagesInvariant, DeliveryExact
<1> QED BY <1>1, MessagesInvariantHolds, PTL

-----------------------------------------------------------------------------
(* The components together.                                                  *)

\* Side by side each component behaves as it does alone: none writes the state of
\* another.
THEOREM ComponentsImplemented ==
  HostSpec => Spec /\ H!Spec /\ T!Spec /\ W!Spec /\ M!Spec /\ S!Spec
<1>1. HostInit => Init /\ H!Init /\ T!Init /\ W!Init /\ M!Init /\ S!Init
  BY DEF HostInit
<1>2. ASSUME [HostNext]_host
      PROVE  /\ [Next]_vars /\ [H!Next]_(H!vars) /\ [T!Next]_(T!vars)
             /\ [W!Next]_(W!vars) /\ [M!Next]_(M!vars) /\ [S!Next]_(S!vars)
  <2> DEFINE Source == UNCHANGED vars
             Harness == UNCHANGED H!vars
             Terminal == UNCHANGED T!vars
             Windows == UNCHANGED W!vars
             Message == UNCHANGED M!vars
             Stream == UNCHANGED S!vars
  <2>1. /\ UNCHANGED harness => Harness
        /\ UNCHANGED terminals => Terminal
        /\ UNCHANGED supervisor => Windows
        /\ UNCHANGED messages => Message
        /\ UNCHANGED stream => Stream
    BY DEF harness, terminals, supervisor, messages, stream,
           H!vars, T!vars, W!vars, M!vars, S!vars
  <2>2. \/ Next /\ Harness /\ Terminal /\ Windows /\ Message /\ Stream
        \/ Source /\ H!Next /\ Terminal /\ Windows /\ Message /\ Stream
        \/ Source /\ Harness /\ T!Next /\ Windows /\ Message /\ Stream
        \/ Source /\ Harness /\ Terminal /\ W!Next /\ Message /\ Stream
        \/ Source /\ Harness /\ Terminal /\ Windows /\ M!Next /\ Stream
        \/ Source /\ Harness /\ Terminal /\ Windows /\ Message /\ S!Next
        \/ Source /\ Harness /\ Terminal /\ Windows /\ Message /\ Stream
    <3> HIDE DEF Harness, Terminal, Windows, Message, Stream
    <3>1. CASE SourceRuns
      BY <2>1, <3>1 DEF SourceRuns
    <3>2. CASE HarnessRuns
      BY <2>1, <3>2 DEF HarnessRuns
    <3>3. CASE TerminalsRun
      BY <2>1, <3>3 DEF TerminalsRun
    <3>4. CASE SupervisorRuns
      BY <2>1, <3>4 DEF SupervisorRuns, Alone
    <3>5. CASE MessagesMove
      BY <2>1, <3>5 DEF MessagesMove
    <3>6. CASE StreamMoves
      BY <2>1, <3>6 DEF StreamMoves
    <3>7. CASE UNCHANGED host
      <4>1. Source /\ UNCHANGED harness /\ UNCHANGED terminals /\ UNCHANGED supervisor
            /\ UNCHANGED messages /\ UNCHANGED stream
        BY <3>7 DEF host
      <4> QED BY <2>1, <4>1
    <3> QED BY <1>2, <3>1, <3>2, <3>3, <3>4, <3>5, <3>6, <3>7 DEF HostNext
  <2> QED BY <2>2
<1> QED BY <1>1, <1>2, PTL DEF HostSpec, Spec, H!Spec, T!Spec, W!Spec, M!Spec, S!Spec

\* All that the components promise holds side by side (source_apply.py, harness.py,
\* operator terminals, the Windows supervisor, messages.py, stream verdicts).
THEOREM HostPromises ==
  HostSpec => /\ []AppliedOnce /\ []LeaseProtects /\ []TurnsHeld /\ []ApprovedExact
              /\ []TerminalsOwned /\ []ReportHolds /\ []DeliveredOnce /\ []DeliveryExact
              /\ []VerdictExact
BY ComponentsImplemented, SourceAppliedOnce, SourceLeaseProtects, HarnessTurnsHeld,
   HarnessApprovedExact, TerminalsStayOwned, SupervisorReports, MessagesDeliveredOnce,
   MessagesDeliveredExactly, StreamVerdictExact, PTL
=============================================================================
