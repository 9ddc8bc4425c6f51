----------------------------- MODULE TaskQueue -----------------------------
(***************************************************************************)
(* Logical tasks with immutable revisions (tasks.py), exact dependencies   *)
(* and the FIFO admission queue (scheduler.py), over runs whose life is    *)
(* abstracted to what this code asks of them.                              *)
(*                                                                         *)
(* Every action is one write transaction, except the dispatcher's, which   *)
(* considers the waiting entries one by one: "cursor" is its position, and *)
(* while it is in its transaction no other writer runs.  A dispatcher that *)
(* reaches its deadline commits what it has admitted so far.               *)
(***************************************************************************)
EXTENDS Integers, FiniteSets

CONSTANTS
  Tasks,         \* tasks that may be created
  NoTask,        \* the task of a run reserved outside any task
  MaxRevisions,  \* bound: revisions of a task
  MaxRuns,       \* bound: rows ever inserted in "runs"
  MaxEntries,    \* bound: rows ever inserted in "queue_entries"
  MaxParallel,   \* config.json max_parallel
  MaxQueued,     \* config.json max_queued
  Activities     \* what clients do besides create, enqueue and dispatch

ActivityKinds == {"submit", "retry", "revise", "share", "depend", "turn",
                  "restart", "dequeue", "deadline", "lost_result", "quarantine"}

ASSUME QueueAssumption ==
  /\ NoTask \notin Tasks
  /\ MaxRevisions \in Nat /\ MaxRuns \in Nat /\ MaxEntries \in Nat
  /\ MaxParallel \in Nat \ {0} /\ MaxQueued \in Nat \ {0}
  /\ Activities \subseteq ActivityKinds

Revisions == 1..MaxRevisions
Runs      == 1..MaxRuns
Entries   == 1..MaxEntries
Nodes     == Tasks \X Revisions

\* "unstarted" and "unexecuted" are the stopped statuses as _never_started and
\* backend_unstarted tell them apart; "failed" and "divergent" have executed.
RunStatuses == {"absent", "pending", "live", "unknown", "completed",
                "unstarted", "unexecuted", "failed", "divergent"}
ActiveStatuses == {"pending", "live", "unknown"}
EntryStates == {"absent", "waiting", "reserved", "cancelled", "superseded"}

VARIABLES
  task,     \* table "tasks"; current = 0 before the task is created
  version,  \* table "task_revisions": the context each revision expects
  pinned,   \* table "dependency_sets": revisions whose dependencies are fixed
  edges,    \* table "task_dependencies": <<child, parent>> nodes
  run,      \* tables "runs", "task_runs" and "execution_inputs"
  nrun,     \* rows of "runs"
  backend,  \* sessions.backend_id; a session has the number of its first run
  entry,    \* table "queue_entries"
  nentry,   \* rows of "queue_entries"
  accepted, \* runs with an accept decision of their digest
  cursor    \* last entry the dispatcher considered, -1 outside a tick

taskTables == <<task, version, pinned, edges>>
runTables  == <<run, nrun, backend, accepted>>
queue      == <<entry, nentry>>
vars == <<task, version, pinned, edges, run, nrun, backend, entry, nentry,
          accepted, cursor>>

VersionType == [parent: 0..MaxRuns, backend: 0..MaxRuns, ack: BOOLEAN]
RunType == [status: RunStatuses, task: Tasks \union {NoTask}, rev: 0..MaxRevisions,
            session: 0..MaxRuns, backend: 0..MaxRuns, resume: BOOLEAN,
            report: BOOLEAN, input: SUBSET Runs]
EntryType == [state: EntryStates, task: Tasks \union {NoTask},
              rev: 0..MaxRevisions, run: 0..MaxRuns, terminal: BOOLEAN]

NoVersion == [parent |-> 0, backend |-> 0, ack |-> FALSE]
NoRun == [status |-> "absent", task |-> NoTask, rev |-> 0, session |-> 0,
          backend |-> 0, resume |-> FALSE, report |-> FALSE, input |-> {}]
NoEntry == [state |-> "absent", task |-> NoTask, rev |-> 0, run |-> 0,
            terminal |-> FALSE]

TypeOK ==
  /\ task \in [Tasks -> [current: 0..MaxRevisions, session: 0..MaxRuns,
                         active: 0..MaxRuns]]
  /\ version \in [Nodes -> VersionType]
  /\ pinned \subseteq Nodes
  /\ edges \subseteq Nodes \X Nodes
  /\ run \in [Runs -> RunType]
  /\ nrun \in 0..MaxRuns
  /\ backend \in [Runs -> 0..MaxRuns]
  /\ entry \in [Entries -> EntryType]
  /\ nentry \in 0..MaxEntries
  /\ accepted \subseteq Runs
  /\ cursor \in -1..MaxEntries

Init ==
  /\ task = [t \in Tasks |-> [current |-> 0, session |-> 0, active |-> 0]]
  /\ version = [v \in Nodes |-> NoVersion]
  /\ pinned = {} /\ edges = {}
  /\ run = [r \in Runs |-> NoRun] /\ nrun = 0
  /\ backend = [s \in Runs |-> 0]
  /\ entry = [e \in Entries |-> NoEntry] /\ nentry = 0
  /\ accepted = {}
  /\ cursor = -1

\* No dispatcher holds the write lock.
Unlocked == cursor = -1

-----------------------------------------------------------------------------
(* What the code reads.                                                      *)

Status(r) == run[r].status
Turns(s) == {r \in Runs : run[r].session = s /\ s # 0}
Latest(r, s) == r \in Turns(s) /\ \A q \in Turns(s) : q <= r
Attempts(t, n) == {r \in Runs : run[r].task = t /\ run[r].rev = n}
LastAttempt(r, t, n) == r \in Attempts(t, n) /\ \A q \in Attempts(t, n) : q <= r
Blocked(s) == \E r \in Turns(s) : Status(r) = "divergent"
Waiting(e) == entry[e].state = "waiting"
WaitingEntries == {e \in Entries : Waiting(e)}
Parents(t, n) == {p \in Nodes : <<<<t, n>>, p>> \in edges}

HasCapacity == Cardinality({r \in Runs : Status(r) \in ActiveStatuses}) < MaxParallel

\* Mutant: only the conversation is compared, not its latest run.
ContextChangedBackend(t, n) ==
  LET s == task[t].session IN s # 0 /\ backend[s] # version[<<t, n>>].backend

\* The session's latest run and backend are not what the revision, or its last
\* attempt, was made for.
ContextChanged(t, n) ==
  LET s == task[t].session
      last == {r \in Runs : LastAttempt(r, t, n)}
      expected == IF last = {} THEN {version[<<t, n>>].parent} ELSE last
      kept == IF last = {} THEN {version[<<t, n>>].backend}
              ELSE {run[r].backend : r \in last}
  IN  s # 0 /\ ~(backend[s] \in kept /\ \E r \in expected \ {0} : Latest(r, s))

SessionBusy(s) ==
  s # 0 /\ (Blocked(s) \/ \E r \in Turns(s) : Latest(r, s) /\ Status(r) \in ActiveStatuses)

\* Mutant: a clean stop counts as never started.
NeverStartedStopped(t, n) ==
  Attempts(t, n) # {} /\ \A r \in Attempts(t, n) : Status(r) \in {"unstarted", "unexecuted"}

\* _never_started for every attempt of the revision.
NeverStarted(t, n) ==
  Attempts(t, n) # {} /\ \A r \in Attempts(t, n) : Status(r) = "unstarted"

DependencyChanged(p) == task[p[1]].current # p[2]
\* Mutant: a complete report is enough.
DependencyComplete(p) ==
  LET r == task[p[1]].active
  IN  ~DependencyChanged(p) /\ r # 0 /\ run[r].rev = p[2] /\ Status(r) = "completed"

\* The current run of the parent is complete and Codex accepted its digest.
DependencyAccepted(p) ==
  LET r == task[p[1]].active
  IN  /\ ~DependencyChanged(p)
      /\ r # 0 /\ run[r].rev = p[2]
      /\ Status(r) = "completed" /\ run[r].report /\ r \in accepted

\* Mutant: looks at the session's turns, whatever conversation they are of.
FreshSession(s) ==
  s # 0 /\ \A r \in Turns(s) : Status(r) \in {"unstarted", "unexecuted"}

\* backend_unstarted: the reserved conversation was never created.
FreshBackend(s) ==
  s # 0 /\ \A r \in Turns(s) :
    run[r].backend = backend[s] => Status(r) \in {"unstarted", "unexecuted"}

\* The parent a retry acknowledges, and the latest run any reservation does.
ContextUncertain(t, n, retry) ==
  LET s == task[t].session
      v == version[<<t, n>>]
  IN  \/ /\ retry /\ v.parent # 0 /\ ~v.ack
         /\ Status(v.parent) # "completed"
      \/ /\ ~v.ack /\ ~retry
         /\ \E r \in Turns(s) : Latest(r, s) /\ Status(r) # "completed"

InputOf(t, n) == {task[p[1]].active : p \in Parents(t, n)}

\* submit_in and reserve_in raise nothing.
Admissible(t, n, retry) ==
  /\ n = task[t].current /\ n # 0
  /\ IF retry THEN NeverStarted(t, n) ELSE Attempts(t, n) = {}
  /\ ~ContextChanged(t, n)
  /\ ~SessionBusy(task[t].session)
  /\ ~ContextUncertain(t, n, retry)
  /\ \A p \in Parents(t, n) : DependencyAccepted(p)
  /\ \A r \in Attempts(t, n) : run[r].input = InputOf(t, n)
  /\ HasCapacity

\* Mutant: "capacity" is one of TERMINAL_BLOCKS.
BlockedByCapacity(t, n) ==
  n # task[t].current \/ Attempts(t, n) # {} \/ ContextChanged(t, n) \/ ~HasCapacity

\* The code submit_in raises first is one of TERMINAL_BLOCKS.  Dependencies
\* are looked at in the order of their UUIDs, which is any order.
BlockedForGood(t, n) ==
  \/ n # task[t].current
  \/ Attempts(t, n) # {}
  \/ ContextChanged(t, n)
  \/ ~SessionBusy(task[t].session) /\ \E p \in Parents(t, n) : DependencyChanged(p)
\* It may be one that is not.
BlockedForNow(t, n) ==
  /\ n = task[t].current /\ Attempts(t, n) = {} /\ ~ContextChanged(t, n)
  /\ \/ SessionBusy(task[t].session)
     \/ \E p \in Parents(t, n) : ~DependencyChanged(p) /\ ~DependencyAccepted(p)
     \/ /\ \A p \in Parents(t, n) : DependencyAccepted(p)
        /\ ContextUncertain(t, n, FALSE) \/ ~HasCapacity

-----------------------------------------------------------------------------
(* tasks.py                                                                  *)

\* A parent run is the exact latest one of a session that is idle.
IdleContext(s, parent) ==
  /\ Latest(parent, s) /\ Status(parent) \notin ActiveStatuses /\ ~Blocked(s)

NewVersion(t, n, s, parent, ack) ==
  version' = [version EXCEPT ![<<t, n>>] =
    [parent |-> parent, backend |-> IF s = 0 THEN 0 ELSE backend[s], ack |-> ack]]

\* create_in without a session, or with the latest run of an existing one.
Create(t) ==
  /\ Unlocked /\ MaxRevisions > 0
  /\ task[t].current = 0
  /\ \E s \in 0..nrun, parent \in 0..nrun, ack \in BOOLEAN :
       /\ IF s = 0 THEN parent = 0 /\ ~ack
          ELSE "share" \in Activities /\ IdleContext(s, parent)
       /\ task' = [task EXCEPT ![t] = [current |-> 1, session |-> s, active |-> 0]]
       /\ NewVersion(t, 1, s, parent, ack)
  /\ UNCHANGED <<pinned, edges, runTables, queue, cursor>>

\* Mutant: the queue is not told.
ReviseKeepsQueue(t) ==
  /\ "revise" \in Activities /\ Unlocked
  /\ task[t].current \in 1..(MaxRevisions - 1)
  /\ LET s == task[t].session
         n == task[t].current + 1
     IN  \E parent \in 0..nrun, ack \in BOOLEAN :
           /\ IF s = 0 THEN parent = 0 /\ ~ack ELSE IdleContext(s, parent)
           /\ task' = [task EXCEPT ![t].current = n, ![t].active = 0]
           /\ NewVersion(t, n, s, parent, ack)
  /\ UNCHANGED <<pinned, edges, runTables, queue, cursor>>

\* revise_in: a new revision of the task, in the session's latest context.
Revise(t) ==
  /\ "revise" \in Activities /\ Unlocked
  /\ task[t].current \in 1..(MaxRevisions - 1)
  /\ LET s == task[t].session
         n == task[t].current + 1
     IN  \E parent \in 0..nrun, ack \in BOOLEAN :
           /\ IF s = 0 THEN parent = 0 /\ ~ack ELSE IdleContext(s, parent)
           /\ task' = [task EXCEPT ![t].current = n, ![t].active = 0]
           /\ NewVersion(t, n, s, parent, ack)
  /\ entry' = [e \in Entries |->
       IF Waiting(e) /\ entry[e].task = t
       THEN [entry[e] EXCEPT !.state = "superseded"] ELSE entry[e]]
  /\ UNCHANGED <<pinned, edges, runTables, nentry, cursor>>

\* submit_in up to the launch: the run, its input, its queue entry, the task.
Reserve(t, n) ==
  LET r == nrun + 1
      created == task[t].session = 0
      s == IF created THEN r ELSE task[t].session
      b == IF created THEN r ELSE backend[s]
  IN  /\ nrun < MaxRuns
      /\ nrun' = r
      /\ run' = [run EXCEPT ![r] =
           [status |-> "pending", task |-> t, rev |-> n, session |-> s,
            backend |-> b, resume |-> ~created /\ ~FreshBackend(s),
            report |-> FALSE, input |-> InputOf(t, n)]]
      /\ backend' = [backend EXCEPT ![s] = b]
      /\ entry' = [e \in Entries |->
           IF entry[e].task = t /\ entry[e].rev = n
              /\ entry[e].state \in {"waiting", "reserved"}
           THEN [entry[e] EXCEPT !.state = "reserved", !.run = r, !.terminal = FALSE]
           ELSE entry[e]]
      /\ task' = [task EXCEPT ![t].session = s, ![t].active = r]
      /\ UNCHANGED <<version, pinned, edges, nentry, accepted>>

Submit(t, retry) ==
  /\ (IF retry THEN "retry" ELSE "submit") \in Activities /\ Unlocked
  /\ Admissible(t, task[t].current, retry)
  /\ Reserve(t, task[t].current)
  /\ UNCHANGED cursor

\* _decision_in of kind "accept".
Accept(t) ==
  LET r == task[t].active
  IN  /\ Unlocked
      /\ r # 0 /\ run[r].task = t /\ run[r].rev = task[t].current
      /\ Status(r) = "completed" /\ run[r].report
      /\ accepted' = accepted \union {r}
      /\ UNCHANGED <<taskTables, run, nrun, backend, queue, cursor>>

-----------------------------------------------------------------------------
(* scheduler.py                                                              *)

\* The frontier loop of _check_graph has seen a node: it is in every set that holds
\* the nodes it starts from and the parents of its members.
Reaches(from, node) ==
  \A seen \in SUBSET Nodes :
    from \subseteq seen /\ (\A v \in seen : Parents(v[1], v[2]) \subseteq seen) => node \in seen

\* Mutant: looks for the node among the parents' parents only.
GraphAllowsDirect(t, n, deps) ==
  /\ \A p \in deps : p[1] # t /\ task[p[1]].current = p[2]
  /\ ~\E p \in deps : <<t, n>> \in Parents(p[1], p[2])

\* _check_graph: dependencies are other tasks at their current revision, and
\* none of them depends on the node.
GraphAllows(t, n, deps) ==
  /\ \A p \in deps : p[1] # t /\ task[p[1]].current = p[2]
  /\ ~Reaches(deps, <<t, n>>)

Enqueue(t, deps) ==
  LET n == task[t].current
      e == nentry + 1
  IN  /\ Unlocked /\ n # 0 /\ nentry < MaxEntries
      /\ deps # {} => "depend" \in Activities
      /\ Attempts(t, n) = {}
      /\ ~\E d \in WaitingEntries : entry[d].task = t /\ entry[d].rev = n
      /\ Cardinality(WaitingEntries) < MaxQueued
      /\ GraphAllows(t, n, deps)
      /\ <<t, n>> \in pinned => deps = Parents(t, n)
      /\ nentry' = e
      /\ entry' = [entry EXCEPT ![e] =
           [state |-> "waiting", task |-> t, rev |-> n, run |-> 0, terminal |-> FALSE]]
      /\ pinned' = pinned \union {<<t, n>>}
      /\ edges' = edges \union ({<<t, n>>} \X deps)
      /\ UNCHANGED <<task, version, runTables, cursor>>

Dequeue(e) ==
  /\ "dequeue" \in Activities /\ Unlocked
  /\ Waiting(e)
  /\ entry' = [entry EXCEPT ![e].state = "cancelled"]
  /\ UNCHANGED <<taskTables, runTables, nentry, cursor>>

\* tick: the transaction starts, ...
TickStart ==
  /\ Unlocked
  /\ \E e \in WaitingEntries : ~entry[e].terminal
  /\ cursor' = 0
  /\ UNCHANGED <<taskTables, runTables, queue>>

\* ... takes the next waiting entry in the order of their ids, ...
NextEntry(e) ==
  /\ ~Unlocked
  /\ e > cursor /\ Waiting(e) /\ ~entry[e].terminal
  /\ \A d \in Entries : cursor < d /\ d < e => ~Waiting(d) \/ entry[d].terminal

Admit(e) ==
  /\ NextEntry(e)
  /\ Admissible(entry[e].task, entry[e].rev, FALSE)
  /\ Reserve(entry[e].task, entry[e].rev)
  /\ cursor' = e

\* ... rolls back to the savepoint and records why it was refused, ...
Skip(e) ==
  LET t == entry[e].task
      n == entry[e].rev
  IN  /\ NextEntry(e)
      /\ \/ BlockedForGood(t, n) /\ entry' = [entry EXCEPT ![e].terminal = TRUE]
         \/ BlockedForNow(t, n) /\ UNCHANGED entry
      /\ cursor' = e
      /\ UNCHANGED <<taskTables, runTables, nentry>>

\* Mutant: gives up the tick at an entry it cannot admit.
TickEndEarly ==
  /\ ~Unlocked
  /\ cursor > 0 \/ ~\E e \in Entries : NextEntry(e)
  /\ cursor' = -1
  /\ UNCHANGED <<taskTables, runTables, queue>>

\* ... and commits, at the end of the queue or at its deadline.
TickEnd ==
  /\ ~Unlocked
  /\ "deadline" \in Activities \/ nrun = MaxRuns \/ ~\E e \in Entries : NextEntry(e)
  /\ cursor' = -1
  /\ UNCHANGED <<taskTables, runTables, queue>>

-----------------------------------------------------------------------------
(* The runs, as RunLifecycle lets them end; and turns outside any task.      *)

RunBecomes(r, status, report) ==
  /\ Unlocked
  /\ run' = [run EXCEPT ![r].status = status, ![r].report = report]
  /\ UNCHANGED <<taskTables, nrun, backend, accepted, queue, cursor>>

\* A worker claims a pending run, or nobody does, or a client stops it.
RunClaims(r) ==
  /\ Status(r) = "pending"
  /\ \E status \in {"live", "unstarted"} : RunBecomes(r, status, FALSE)

RunEnds(r) ==
  /\ Status(r) = "live"
  /\ \/ \E report \in BOOLEAN : RunBecomes(r, "completed", report)
     \/ \E status \in {"unstarted", "unexecuted", "failed", "divergent"} :
          RunBecomes(r, status, FALSE)

RunQuarantined(r) ==
  /\ "quarantine" \in Activities
  /\ Status(r) = "live"
  /\ RunBecomes(r, "unknown", FALSE)

RunReconciled(r) ==
  /\ Status(r) = "unknown"
  /\ \E status \in {"unexecuted", "failed"} : RunBecomes(r, status, FALSE)

ResultLost(r) ==
  /\ "lost_result" \in Activities
  /\ Status(r) = "completed"
  /\ RunBecomes(r, "failed", FALSE)

\* followup or restart of a session by its name, whatever task uses it; a follow-up needs
\* a turn that started.
ForeignTurn(s, restart) ==
  LET r == nrun + 1
      b == IF restart THEN r ELSE backend[s]
  IN  /\ (IF restart THEN "restart" ELSE "turn") \in Activities
      /\ Unlocked /\ nrun < MaxRuns
      /\ Turns(s) # {} /\ ~SessionBusy(s) /\ HasCapacity
      /\ ~restart => \E q \in Turns(s) : Status(q) # "unstarted"
      /\ nrun' = r
      /\ run' = [run EXCEPT ![r] = [NoRun EXCEPT !.status = "pending",
                              !.session = s, !.backend = b, !.resume = ~restart]]
      /\ backend' = [backend EXCEPT ![s] = b]
      /\ UNCHANGED <<taskTables, accepted, queue, cursor>>

-----------------------------------------------------------------------------
Dispatcher == TickStart \/ TickEnd \/ \E e \in Entries : Admit(e) \/ Skip(e)

RunStep(r) == RunClaims(r) \/ RunEnds(r) \/ RunQuarantined(r) \/ RunReconciled(r)

Next ==
  \/ \E t \in Tasks :
       \/ Create(t) \/ Revise(t) \/ Accept(t)
       \/ \E retry \in BOOLEAN : Submit(t, retry)
       \/ \E deps \in SUBSET {v \in Nodes : task[v[1]].current = v[2]} : Enqueue(t, deps)
  \/ \E e \in Entries : Dequeue(e)
  \/ Dispatcher
  \/ \E r \in Runs : RunStep(r) \/ ResultLost(r)
  \/ \E s \in Runs, restart \in BOOLEAN : ForeignTurn(s, restart)

Spec == Init /\ [][Next]_vars

\* Somebody dispatches again and again without a deadline, workers and their
\* timeouts end every live run, the claim deadline every pending one: their
\* writes get the lock between two ticks (SQLite waits for it).
Fairness ==
  /\ WF_vars(Dispatcher)
  /\ \A r \in Runs : SF_vars(RunClaims(r)) /\ SF_vars(RunEnds(r))

FairSpec == Spec /\ Fairness

-----------------------------------------------------------------------------
(* Safety.                                                                   *)

\* A revision executes once: every attempt but the last never started, so a
\* retry never repeats a prompt that Claude may have acted on.
RevisionExecutesOnce ==
  \A r, q \in Runs :
    run[r].task # NoTask /\ run[r].task = run[q].task /\ run[r].rev = run[q].rev /\ r < q
      => Status(r) = "unstarted"

\* A turn of a task follows, in its session, exactly the run its revision was
\* written for or an earlier attempt of the same revision, in the same
\* conversation: no turn of anybody else slips between review and submission.
ContextExact ==
  \A r \in Runs : \A q \in Turns(run[r].session) :
    /\ run[r].task # NoTask /\ q < r
    /\ \A p \in Turns(run[r].session) : p <= q \/ p >= r
    => /\ run[r].backend = run[q].backend
       /\ \/ q = version[<<run[r].task, run[r].rev>>].parent
          \/ q \in Attempts(run[r].task, run[r].rev)

\* A task's turn resumes only a conversation that some earlier turn executed,
\* and creates only one that none did.
ConversationMatches ==
  \A r \in Runs :
    run[r].task # NoTask =>
      (run[r].resume <=> \E q \in Runs :
         /\ q < r /\ run[q].backend = run[r].backend
         /\ Status(q) \notin {"unstarted", "unexecuted"})

\* The input of every turn holds, for each pinned dependency, a run of exactly
\* that parent revision whose result was accepted, and nothing else; what
\* happens to the parents afterwards does not reach it.
InputsAccepted ==
  \A r \in Runs : LET deps == Parents(run[r].task, run[r].rev) IN
    run[r].task # NoTask =>
      /\ run[r].input \subseteq accepted
      /\ deps = {<<run[q].task, run[q].rev>> : q \in run[r].input}

\* No revision depends on itself, directly or through others: any set of nodes
\* has one that depends on none of them.
DependenciesAcyclic ==
  \A S \in (SUBSET Nodes) \ {{}} : \E v \in S : Parents(v[1], v[2]) \intersect S = {}

\* Queue and tasks agree: an entry waits only for a current revision without
\* attempts, once; a reserved entry names the last attempt of its revision;
\* and a task's active run is the last attempt of its current revision.
QueueConsistent ==
  /\ \A e \in WaitingEntries :
       /\ entry[e].rev = task[entry[e].task].current
       /\ Attempts(entry[e].task, entry[e].rev) = {}
       /\ \A d \in WaitingEntries : entry[d].task = entry[e].task => d = e
  /\ \A e \in Entries : entry[e].state = "reserved" =>
       LastAttempt(entry[e].run, entry[e].task, entry[e].rev)
  /\ \A t \in Tasks :
       IF task[t].active = 0 THEN Attempts(t, task[t].current) = {}
       ELSE LastAttempt(task[t].active, t, task[t].current)

\* An entry the dispatcher gives up for good could never be admitted later.
GivenUpForGood ==
  \A e \in WaitingEntries : entry[e].terminal =>
    ~Admissible(entry[e].task, entry[e].rev, FALSE)

\* Tasks and queue implement the life of a run, with a session named by its first run:
\* whoever submits, retries, dispatches or restarts, turns are reserved and end as
\* RunLifecycle has them.
Life == INSTANCE RunLife WITH
  Sessions <- Runs, NoSession <- 0, MaxLimit <- MaxParallel,
  status <- [r \in Runs |-> Status(r)],
  turn <- [r \in Runs |-> [session |-> run[r].session, backend |-> run[r].backend,
                           resume |-> run[r].resume]]

LifeImplemented == Life!Spec

(* Liveness.                                                                 *)

\* A waiting entry without dependencies is served, unless its context is gone
\* or uncertain, its session diverged or a run is in quarantine.
EntriesServed ==
  \A e \in Entries :
    Waiting(e) /\ Parents(entry[e].task, entry[e].rev) = {} ~>
      \/ ~Waiting(e) \/ entry[e].terminal
      \/ ContextUncertain(entry[e].task, entry[e].rev, FALSE)
      \/ Blocked(task[entry[e].task].session)
      \/ \E r \in Runs : Status(r) = "unknown"
=============================================================================
