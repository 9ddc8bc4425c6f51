------------------------------- MODULE Harness -------------------------------
(***************************************************************************)
(* The autonomous harness (harness_cli.py): Claude works in a clone of its  *)
(* own, the command that started it commits what it did, a check may run,   *)
(* and one exact commit is approved.                                        *)
(*                                                                          *)
(* Every command on a task holds task.lock while it works and can die at    *)
(* any point.  Claude is a process group of its own and outlives it, but    *)
(* it does nothing before its prompt and ends when the pipe closes first.   *)
(***************************************************************************)
EXTENDS Integers, FiniteSets, FiniteSetsExt

CONSTANTS
  Tasks,     \* tasks, one for each start request
  MaxTurns,  \* bound: turns of all tasks together
  MaxHeads,  \* bound: commits of a clone; 0 is the base
  Limits     \* values of max_parallel

HarnessAssumption ==
  /\ MaxTurns \in Nat /\ MaxHeads \in Nat
  /\ Limits \subseteq Nat \ {0} /\ Limits # {}

VARIABLES
  task,      \* task.json; "absent" without its entry in requests.json
  clone,     \* the working directory: its head, and whether it is clean
  holder,    \* the command that holds task.lock, and its locals
  silent,    \* turns whose Claude lives and waits for its prompt
  working,   \* turns whose Claude lives and has its prompt
  limit,     \* max_parallel in config.json
  largest,   \* history: the largest limit so far
  produced,  \* history: the commits that a turn that ended well left behind
  passed,    \* history: the commits a check left as it found them and passed
  astray     \* history: tasks given up from a PID namespace that hides their Claude

vars == <<task, clone, holder, silent, working, limit, largest, produced, passed, astray>>

Turns == 0..MaxTurns
Heads == 0..MaxHeads
Nothing == [head |-> 0, clean |-> FALSE]
Away == [pc |-> "away", ok |-> FALSE]

TypeOK ==
  /\ task \in [Tasks -> [status : {"absent", "created", "running", "unknown", "ready",
                                   "needs_attention", "approved"},
                         turn : Turns, process : Turns,
                         evidence : [head : Heads, clean : BOOLEAN],
                         check : Heads \union {-1}, unchecked : BOOLEAN]]
  /\ clone \in [Tasks -> [head : Heads, clean : BOOLEAN]]
  /\ holder \in [Tasks -> [pc : {"away", "admit", "spawn", "spawned", "recorded", "wait",
                                 "ended", "committed", "check"}, ok : BOOLEAN]]
  /\ silent \in [Tasks -> SUBSET Turns] /\ working \in [Tasks -> SUBSET Turns]
  /\ limit \in Limits /\ largest \in Limits
  /\ produced \in [Tasks -> SUBSET Heads] /\ passed \in [Tasks -> SUBSET Heads]
  /\ astray \subseteq Tasks

Init ==
  /\ task = [t \in Tasks |-> [status |-> "absent", turn |-> 0, process |-> 0,
                              evidence |-> Nothing, check |-> -1, unchecked |-> FALSE]]
  /\ clone = [t \in Tasks |-> [head |-> 0, clean |-> TRUE]]
  /\ holder = [t \in Tasks |-> Away]
  /\ silent = [t \in Tasks |-> {}] /\ working = [t \in Tasks |-> {}]
  /\ limit \in Limits /\ largest = limit
  /\ produced = [t \in Tasks |-> {}] /\ passed = [t \in Tasks |-> {}]
  /\ astray = {}

Status(t) == task[t].status
Free(t) == holder[t] = Away
Goes(t, pc) == holder' = [holder EXCEPT ![t].pc = pc]
Leaves(t) == holder' = [holder EXCEPT ![t] = Away]

\* The recorded process of the last turn, for which nothing may be recorded, lives.
ProcessLives(t) ==
  task[t].process # 0 /\ task[t].process \in silent[t] \union working[t]

\* _process_alive looks into the /proc of the command that asks and compares no PID
\* namespace: what lives is seen from inside its own namespace only.
ProcessAlive(t, inside) == inside /\ ProcessLives(t)

\* _active_other_tasks.
ActiveOthers(t) == Cardinality({u \in Tasks \ {t} : Status(u) \in {"running", "unknown"}})

TurnsTaken == MapThenSumSet(LAMBDA u : task[u].turn, Tasks)

\* The recorded evidence is what _evidence finds now.
Unchanged(t) == clone[t] = task[t].evidence

-----------------------------------------------------------------------------
(* start and followup, and _run.                                             *)

\* The clone, task.json and then the entry of the request, which is what counts.
Create(t) ==
  /\ Status(t) = "absent"
  /\ task' = [task EXCEPT ![t].status = "created"]
  /\ UNCHANGED <<clone, holder, silent, working, limit, largest, produced, passed, astray>>

\* A request that is repeated runs its task if nobody has yet.
Start(t) ==
  /\ Free(t) /\ Status(t) = "created"
  /\ Goes(t, "admit")
  /\ UNCHANGED <<task, clone, silent, working, limit, largest, produced, passed, astray>>

\* An unknown turn needs an acknowledgement.
Followup(t, acknowledge) ==
  /\ Free(t)
  /\ \/ Status(t) \in {"ready", "needs_attention"}
     \/ Status(t) = "unknown" /\ acknowledge
  /\ Goes(t, "admit")
  /\ UNCHANGED <<task, clone, silent, working, limit, largest, produced, passed, astray>>

\* Under admission.lock: the limit, and the intent of the turn.
Admit(t) ==
  /\ holder[t].pc = "admit" /\ TurnsTaken < MaxTurns
  /\ IF ActiveOthers(t) >= limit THEN Leaves(t) /\ UNCHANGED task
     ELSE /\ task' = [task EXCEPT ![t].status = "running", ![t].check = -1,
                                  ![t].turn = @ + 1, ![t].process = 0]
          /\ Goes(t, "spawn")
  /\ UNCHANGED <<clone, silent, working, limit, largest, produced, passed, astray>>

Spawn(t) ==
  /\ holder[t].pc = "spawn" /\ Goes(t, "spawned")
  /\ silent' = [silent EXCEPT ![t] = @ \union {task[t].turn}]
  /\ UNCHANGED <<task, clone, working, limit, largest, produced, passed, astray>>

RecordProcess(t) ==
  /\ holder[t].pc = "spawned" /\ Goes(t, "recorded")
  /\ task' = [task EXCEPT ![t].process = task[t].turn]
  /\ UNCHANGED <<clone, silent, working, limit, largest, produced, passed, astray>>

Prompt(t) ==
  /\ holder[t].pc = "recorded" /\ task[t].turn \in silent[t] /\ Goes(t, "wait")
  /\ silent' = [silent EXCEPT ![t] = @ \ {task[t].turn}]
  /\ working' = [working EXCEPT ![t] = @ \union {task[t].turn}]
  /\ UNCHANGED <<task, clone, limit, largest, produced, passed, astray>>

\* Claude is gone, on its own or killed after a timeout or too much output; ok is
\* a clean exit with a valid stream and no link out of the clone.
Ended(t, ok) ==
  /\ holder[t].pc = "wait" /\ task[t].turn \notin working[t]
  /\ holder' = [holder EXCEPT ![t] = [pc |-> "ended", ok |-> ok]]
  /\ UNCHANGED <<task, clone, silent, working, limit, largest, produced, passed, astray>>

Commit(t) ==
  /\ holder[t].pc = "ended" /\ Goes(t, "committed")
  /\ IF holder[t].ok /\ ~clone[t].clean
     THEN clone[t].head < MaxHeads
          /\ clone' = [clone EXCEPT ![t] = [head |-> clone[t].head + 1, clean |-> TRUE]]
     ELSE UNCHANGED clone
  /\ UNCHANGED <<task, silent, working, limit, largest, produced, passed, astray>>

\* Never ready: an incomplete turn, uncommitted files or no commit at all.
Finish(t) ==
  /\ holder[t].pc = "committed" /\ Leaves(t)
  /\ LET ready == holder[t].ok /\ clone[t].clean /\ clone[t].head # 0
     IN  /\ task' = [task EXCEPT ![t].status = IF ready THEN "ready" ELSE "needs_attention",
                                 ![t].evidence = clone[t]]
         /\ produced' = IF ready THEN [produced EXCEPT ![t] = @ \union {clone[t].head}]
                        ELSE produced
  /\ UNCHANGED <<clone, silent, working, limit, largest, passed, astray>>

-----------------------------------------------------------------------------
(* reconcile, check, approve, limits.                                        *)

GivesUp(t, inside) ==
  /\ task' = [task EXCEPT ![t].status = "unknown"]
  /\ astray' = IF ~inside /\ ProcessLives(t) THEN astray \union {t} ELSE astray
  /\ UNCHANGED <<clone, holder, silent, working, limit, largest, produced, passed>>

\* Mutant: whoever has no command any more is dead.
ReconcileBlind(t, inside) ==
  /\ Free(t) /\ Status(t) = "running"
  /\ GivesUp(t, inside)

Reconcile(t, inside) ==
  /\ Free(t) /\ Status(t) = "running" /\ ~ProcessAlive(t, inside)
  /\ GivesUp(t, inside)

Check(t) ==
  /\ Free(t) /\ Status(t) = "ready" /\ Unchanged(t)
  /\ Goes(t, "check")
  /\ UNCHANGED <<task, clone, silent, working, limit, largest, produced, passed, astray>>

\* The check works in the clone itself; it passes only if it leaves it as it was.
CheckEnds(t, exit) ==
  /\ holder[t].pc = "check" /\ Leaves(t)
  /\ LET good == exit /\ Unchanged(t)
     IN  /\ task' = [task EXCEPT ![t].check = IF good THEN clone[t].head ELSE -1]
         /\ passed' = IF good THEN [passed EXCEPT ![t] = @ \union {clone[t].head}] ELSE passed
  /\ UNCHANGED <<clone, silent, working, limit, largest, produced, astray>>

\* Mutant: the evidence of the last turn is not compared.
ApproveStale(t, unchecked) ==
  /\ Free(t) /\ Status(t) = "ready"
  /\ unchecked \/ task[t].check = clone[t].head
  /\ task' = [task EXCEPT ![t].status = "approved", ![t].evidence = clone[t],
                          ![t].unchecked = unchecked]
  /\ UNCHANGED <<clone, holder, silent, working, limit, largest, produced, passed, astray>>

\* approved_sha is the head of the evidence.
Approve(t, unchecked) ==
  /\ Free(t) /\ Status(t) = "ready" /\ Unchanged(t)
  /\ unchecked \/ task[t].check = clone[t].head
  /\ task' = [task EXCEPT ![t].status = "approved", ![t].unchecked = unchecked]
  /\ UNCHANGED <<clone, holder, silent, working, limit, largest, produced, passed, astray>>

ConfigureLimits ==
  /\ limit' \in Limits /\ limit' # limit
  /\ largest' = IF limit' > largest THEN limit' ELSE largest
  /\ UNCHANGED <<task, clone, holder, silent, working, produced, passed, astray>>

-----------------------------------------------------------------------------
(* External: Claude, the user, and commands that die.                        *)

ClaudeEnds(t, turn) ==
  /\ turn \in working[t] \union silent[t]
  /\ working' = [working EXCEPT ![t] = @ \ {turn}]
  /\ silent' = [silent EXCEPT ![t] = @ \ {turn}]
  /\ UNCHANGED <<task, clone, holder, limit, largest, produced, passed, astray>>

\* Claude, a check or anybody else changes files, takes changes back or commits.
CloneChanges(t) ==
  /\ Status(t) # "absent"
  /\ \/ clone' = [clone EXCEPT ![t].clean = ~@]
     \/ clone[t].head < MaxHeads
        /\ clone' = [clone EXCEPT ![t] = [head |-> clone[t].head + 1, clean |-> TRUE]]
  /\ UNCHANGED <<task, holder, silent, working, limit, largest, produced, passed, astray>>

\* The command dies or gives up with an error; task.json stays as it is.
Dies(t) ==
  /\ ~Free(t) /\ Leaves(t)
  /\ UNCHANGED <<task, clone, silent, working, limit, largest, produced, passed, astray>>

RunSteps(t) ==
  \/ Start(t) \/ \E acknowledge \in BOOLEAN : Followup(t, acknowledge)
  \/ Admit(t) \/ Spawn(t) \/ RecordProcess(t) \/ Prompt(t)
  \/ \E ok \in BOOLEAN : Ended(t, ok)
  \/ Commit(t) \/ Finish(t)

ReviewSteps(t) ==
  \/ \E inside \in BOOLEAN : Reconcile(t, inside)
  \/ Check(t)
  \/ \E exit \in BOOLEAN : CheckEnds(t, exit)
  \/ \E unchecked \in BOOLEAN : Approve(t, unchecked)

Next ==
  \/ \E t \in Tasks : \/ Create(t) \/ RunSteps(t) \/ ReviewSteps(t) \/ Dies(t) \/ CloneChanges(t)
                      \/ \E turn \in Turns : ClaudeEnds(t, turn)
  \/ ConfigureLimits

Spec == Init /\ [][Next]_vars

-----------------------------------------------------------------------------
(* Safety.                                                                   *)

\* However its command died, no Claude works in a clone that is reported at rest:
\* one that works is that of the last turn of a running task; and all that work
\* are within the limit they were admitted under.  Excepted are the tasks that were
\* given up from a PID namespace that hides their Claude (ProcessAlive): nothing
\* holds there, and an acknowledged follow-up starts a second one beside it.
TurnsHeld ==
  /\ \A t \in Tasks \ astray :
       working[t] # {} => Status(t) = "running" /\ working[t] = {task[t].turn}
  /\ Cardinality({t \in Tasks \ astray : working[t] # {}}) <= largest

\* An approved commit is one a turn that ended well left, and unless approved
\* unchecked, one that a check passed without changing the clone.
ApprovedExact ==
  \A t \in Tasks : Status(t) = "approved" =>
    /\ task[t].evidence.head \in produced[t] /\ task[t].evidence.clean
    /\ task[t].unchecked \/ task[t].evidence.head \in passed[t]
=============================================================================
