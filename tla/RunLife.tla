------------------------------ MODULE RunLife ------------------------------
(***************************************************************************)
(* A turn of a session and a conversation is reserved, lives and ends      *)
(* once, or is in doubt until somebody reconciles it: what tasks, queue,   *)
(* messages and workflows rely on, without workers, processes, files or    *)
(* clocks.  RunLifecycle implements it with the rows and processes it      *)
(* really has, TaskQueue with the runs of its revisions.                   *)
(***************************************************************************)
EXTENDS Integers, FiniteSets

CONSTANTS Sessions, NoSession,
          MaxRuns,   \* bound: runs ever reserved
          MaxLimit   \* bound: largest limit configured

Runs == 1..MaxRuns

ActiveStatuses == {"pending", "live", "unknown"}
\* Ended without an execution: never begun, or stopped before Claude was executed.
NeverExecuted == {"unstarted", "unexecuted"}

VARIABLES
  nrun,    \* runs reserved so far
  status,  \* of each run
  turn,    \* session, conversation, and whether it resumes that, of each run
  backend  \* the conversation each session is in; 0 before the first

life == <<nrun, status, turn, backend>>

NoTurn == [session |-> NoSession, backend |-> 0, resume |-> FALSE]

Init ==
  /\ nrun = 0
  /\ status = [r \in Runs |-> "absent"]
  /\ turn = [r \in Runs |-> NoTurn]
  /\ backend = [s \in Sessions |-> 0]

Turns(s) == {r \in Runs : turn[r].session = s}
ActiveTurns == {r \in Runs : status[r] \in ActiveStatuses}

\* The next turn of s may be reserved: none is active or in doubt, and none ended in a
\* conversation that is not the recorded one.
Free(s) ==
  /\ Cardinality(ActiveTurns) < MaxLimit
  /\ \A r \in Turns(s) : status[r] \notin ActiveStatuses \union {"divergent"}

\* Reserve a turn of s; its completed one may turn out to be damaged at that moment.
Reserve(s, b, resume) ==
  /\ nrun < MaxRuns /\ Free(s)
  /\ nrun' = nrun + 1
  /\ turn' = [turn EXCEPT ![nrun + 1] = [session |-> s, backend |-> b, resume |-> resume]]
  /\ \E damaged \in SUBSET {r \in Turns(s) : status[r] = "completed"} :
       status' = [r \in Runs |-> IF r = nrun + 1 THEN "pending"
                                 ELSE IF r \in damaged THEN "failed" ELSE status[r]]

\* A turn of a fresh conversation.
Begin(s) ==
  /\ Reserve(s, nrun + 1, FALSE)
  /\ backend' = [backend EXCEPT ![s] = nrun + 1]

\* A turn that resumes the session's conversation comes after one that started.
Resume(s) ==
  /\ \E r \in Turns(s) : status[r] # "unstarted"
  /\ Reserve(s, backend[s], TRUE) /\ UNCHANGED backend

\* A turn that creates the conversation again comes after none that executed it.
Repeat(s) ==
  /\ \E r \in Turns(s) : turn[r].backend = backend[s]
  /\ \A r \in Turns(s) : turn[r].backend = backend[s] => status[r] \in NeverExecuted
  /\ Reserve(s, backend[s], FALSE) /\ UNCHANGED backend

\* What may become of a run.
Moves(from) ==
  CASE from = "pending" -> {"live", "unstarted"}
    [] from = "live" -> {"completed", "unstarted", "unexecuted", "failed", "divergent", "unknown"}
    [] from = "unknown" -> {"unexecuted", "failed"}
    [] from = "completed" -> {"failed"}
    [] OTHER -> {}

Move(r) ==
  /\ \E to \in Moves(status[r]) : status' = [status EXCEPT ![r] = to]
  /\ UNCHANGED <<nrun, turn, backend>>

\* A client sees that nobody claimed some runs, and that the workers of others are dead.
Refresh ==
  /\ \E late, dead, doubtful \in SUBSET Runs :
       /\ \A r \in late : status[r] = "pending"
       /\ \A r \in dead \union doubtful : status[r] = "live"
       /\ status' = [r \in Runs |-> IF r \in late \union dead THEN "unstarted"
                                    ELSE IF r \in doubtful THEN "unknown" ELSE status[r]]
  /\ UNCHANGED <<nrun, turn, backend>>

Next ==
  \/ \E s \in Sessions : Begin(s) \/ Resume(s) \/ Repeat(s)
  \/ \E r \in Runs : Move(r)
  \/ Refresh

Spec == Init /\ [][Next]_life
=============================================================================
