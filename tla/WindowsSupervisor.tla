-------------------------- MODULE WindowsSupervisor --------------------------
(***************************************************************************)
(* One child under the Windows helper: the client in the worker or in a     *)
(* check (windows_process.py, windows_wsl_sandbox.py), the two pipes, and   *)
(* the helper with its job (native/windows/ccc-win-supervisor).             *)
(*                                                                          *)
(* The helper answers requests in their order and reports the exit of the   *)
(* child in between.  It owns the job: when it goes, the child goes.        *)
(***************************************************************************)
EXTENDS Integers, Sequences

CONSTANTS
  Kinds,     \* "run" is run_windows_child, "check" is execute of the sandbox
  Mishaps    \* what may happen besides

WindowsAssumption ==
  /\ Kinds \subseteq {"run", "check"} /\ Kinds # {}
  /\ Mishaps \subseteq {"timeout", "helper", "worker", "rejected"}

Ops == {"hello", "create", "resume", "stop", "abort"}
Codes == {"own", "killed"}   \* the child's exit code, or that of its job's end
NoOutcome == [what |-> "none", certain |-> FALSE]

VARIABLES
  kind,      \* which of the two calls it
  row,       \* the run or the command: cancelled, and the child's identity
  caller,    \* pc, id of its last request, whether stop was sent, and why
  pending,   \* events that arrived while a reply was awaited
  requests,  \* the helper's stdin
  frames,    \* the helper's stdout and the reader's queue
  open,      \* the client holds the pipes open
  helper,    \* the helper's phase
  child,     \* the child, with its code once it has exited
  ran,       \* history: the child was resumed
  outcome    \* what the caller is told

vars == <<kind, row, caller, pending, requests, frames, open, helper, child, ran, outcome>>

TypeOK ==
  /\ kind \in Kinds \union {"none"}
  /\ row \in [cancel : BOOLEAN, recorded : BOOLEAN, moved : BOOLEAN]
  /\ caller \in [pc : {"start", "await", "record", "mark", "loop", "error", "close", "closed",
                       "dead"},
                 op : Ops, id : Nat, stopSent : BOOLEAN, created : BOOLEAN, uncertain : BOOLEAN]
  /\ pending \in Seq({"own", "killed"})
  /\ requests \in Seq([op : Ops, id : Nat])
  /\ frames \in Seq([id : Nat, what : {"ok", "rejected", "own", "killed"}])
  /\ open \in BOOLEAN
  /\ helper \in {"idle", "created", "running", "done", "gone"}
  /\ child \in {"none", "suspended", "running", "own", "killed"}
  /\ ran \in BOOLEAN
  /\ outcome \in [what : {"none", "not launched", "cancelled", "unknown", "own", "killed"},
                  certain : BOOLEAN]

Init ==
  /\ kind = "none"
  /\ row = [cancel |-> FALSE, recorded |-> FALSE, moved |-> FALSE]
  /\ caller = [pc |-> "start", op |-> "hello", id |-> 0, stopSent |-> FALSE, created |-> FALSE,
               uncertain |-> FALSE]
  /\ pending = <<>> /\ requests = <<>> /\ frames = <<>> /\ open = TRUE
  /\ helper = "idle" /\ child = "none" /\ ran = FALSE /\ outcome = NoOutcome

pipes == <<requests, frames, open>>
theirs == <<helper, child, ran>>

-----------------------------------------------------------------------------
(* HelperClient._request.                                                    *)

\* A request is written with a fresh id and its reply is awaited.
Asks(op) ==
  /\ caller' = [caller EXCEPT !.pc = "await", !.op = op, !.id = @ + 1,
                              !.stopSent = @ \/ op = "stop"]
  /\ requests' = Append(requests, [op |-> op, id |-> caller.id + 1])
  /\ UNCHANGED <<frames, open>>

Head1 == frames[1]
Reply == frames # <<>> /\ Head1.id # 0
\* Mutant: an event that overtakes a reply is skipped.
SkipEvent ==
  /\ caller.pc = "await" /\ frames # <<>> /\ Head1.id = 0
  /\ frames' = Tail(frames)
  /\ UNCHANGED <<kind, row, caller, pending, requests, open, theirs, outcome>>

\* An event that overtakes a reply is kept for next_event.
DeferEvent ==
  /\ caller.pc = "await" /\ frames # <<>> /\ Head1.id = 0
  /\ pending' = Append(pending, Head1.what)
  /\ frames' = Tail(frames)
  /\ UNCHANGED <<kind, row, caller, requests, open, theirs, outcome>>

\* After stop the loop goes on; an abort of a cancelled run ends it for certain,
\* one after an error changes nothing any more.
Answered ==
  /\ caller.pc = "await" /\ Reply /\ Head1.id = caller.id /\ Head1.what = "ok"
  /\ frames' = Tail(frames)
  /\ caller' = [caller EXCEPT
       !.created = @ \/ caller.op = "create",
       !.pc = CASE caller.op = "hello" -> "start" [] caller.op = "create" -> "record"
                [] caller.op = "resume" -> (IF kind = "run" THEN "mark" ELSE "loop")
                [] caller.op = "stop" -> "loop" [] caller.op = "abort" -> "close"]
  /\ outcome' = IF caller.op # "abort" \/ outcome # NoOutcome THEN outcome
                ELSE IF kind = "run" THEN [what |-> "cancelled", certain |-> TRUE]
                ELSE [what |-> "unknown", certain |-> FALSE]
  /\ UNCHANGED <<kind, row, pending, requests, open, theirs>>

AfterError ==
  IF outcome # NoOutcome THEN "close"
  ELSE IF kind = "check" /\ caller.op = "stop" THEN "loop" ELSE "error"

\* Mutant: a create without a reply is one without a child.
FailsCertain(rejected) == caller' = [caller EXCEPT !.pc = AfterError]

\* create knows that nothing was created only if the helper said so; a check
\* ignores that stop failed, and so does an abort after an error.
Fails(rejected) ==
  caller' = [caller EXCEPT !.pc = AfterError, !.uncertain = caller.op = "create" /\ ~rejected]

\* The reply is an error, of another request, or there is none any more.
RequestFails ==
  /\ caller.pc = "await"
  /\ \/ Reply /\ Head1.id = caller.id /\ Head1.what = "rejected" /\ Fails(TRUE)
        /\ frames' = Tail(frames)
     \/ Reply /\ Head1.id # caller.id /\ Fails(FALSE) /\ frames' = Tail(frames)
     \/ frames = <<>> /\ helper = "gone" /\ Fails(FALSE) /\ UNCHANGED frames
     \/ "timeout" \in Mishaps /\ frames = <<>> /\ Fails(FALSE) /\ UNCHANGED frames
  /\ UNCHANGED <<kind, row, pending, requests, open, theirs, outcome>>

-----------------------------------------------------------------------------
(* run_windows_child and execute.                                            *)

Hello ==
  /\ caller.pc = "start" /\ caller.id = 0 /\ Asks("hello")
  /\ kind' \in Kinds
  /\ UNCHANGED <<row, pending, theirs, outcome>>

Create ==
  /\ caller.pc = "start" /\ caller.id # 0 /\ Asks("create")
  /\ UNCHANGED <<kind, row, pending, theirs, outcome>>

\* The identity of the suspended child, unless the run was cancelled or the
\* command closed, which abort it.
Record ==
  /\ caller.pc = "record"
  /\ IF row.cancel THEN Asks("abort") /\ UNCHANGED row
     ELSE row' = [row EXCEPT !.recorded = TRUE] /\ Asks("resume")
  /\ UNCHANGED <<kind, pending, theirs, outcome>>

\* The run became something else while its child was resumed.
MarkRunning ==
  /\ caller.pc = "mark"
  /\ caller' = [caller EXCEPT !.pc = IF row.moved THEN "error" ELSE "loop"]
  /\ UNCHANGED <<kind, row, pending, pipes, theirs, outcome>>

\* A cancel, the timeout or too much output, once.
SendStop ==
  /\ caller.pc = "loop" /\ ~caller.stopSent
  /\ Asks("stop")
  /\ UNCHANGED <<kind, row, pending, theirs, outcome>>

\* next_event: what was deferred comes first.
TakeEvent ==
  /\ caller.pc = "loop"
  /\ \/ /\ pending # <<>> /\ pending' = Tail(pending) /\ UNCHANGED frames
        /\ outcome' = [what |-> pending[1], certain |-> TRUE]
     \/ /\ pending = <<>> /\ frames # <<>> /\ Head1.id = 0
        /\ frames' = Tail(frames) /\ UNCHANGED pending
        /\ outcome' = [what |-> Head1.what, certain |-> TRUE]
  /\ caller' = [caller EXCEPT !.pc = "close"]
  /\ UNCHANGED <<kind, row, requests, open, theirs>>

\* A late reply, or the end of the helper.
EventFails ==
  /\ caller.pc = "loop" /\ pending = <<>>
  /\ \/ Reply /\ frames' = Tail(frames)
     \/ frames = <<>> /\ helper = "gone" /\ UNCHANGED frames
  /\ caller' = [caller EXCEPT !.pc = "error"]
  /\ UNCHANGED <<kind, row, pending, requests, open, theirs, outcome>>

\* Where a child may exist nothing is certain: a run aborts it, and a closing
\* pipe ends it in any case.
HandleError ==
  /\ caller.pc = "error"
  /\ IF caller.created \/ caller.uncertain
     THEN /\ outcome' = [what |-> "unknown", certain |-> FALSE]
          /\ IF kind = "run" THEN Asks("abort")
             ELSE caller' = [caller EXCEPT !.pc = "close"] /\ UNCHANGED pipes
     ELSE /\ outcome' = [what |-> "not launched", certain |-> TRUE]
          /\ caller' = [caller EXCEPT !.pc = "close"] /\ UNCHANGED pipes
  /\ UNCHANGED <<kind, row, pending, theirs>>

\* HelperClient.close: the pipe, five seconds, then the helper itself.
Close ==
  /\ caller.pc = "close"
  /\ IF open THEN open' = FALSE /\ UNCHANGED <<caller, helper, child>>
     ELSE /\ caller' = [caller EXCEPT !.pc = "closed"] /\ UNCHANGED open
          /\ helper' = "gone"
          /\ child' = IF child \in {"suspended", "running"} THEN "killed" ELSE child
  /\ UNCHANGED <<kind, row, pending, requests, frames, ran, outcome>>

-----------------------------------------------------------------------------
(* The helper, as far as the client can tell, and its child.                 *)

Says(id, what) == frames' = Append(frames, [id |-> id, what |-> what])
Killed == IF child \in {"suspended", "running"} THEN "killed" ELSE child

\* One request; what does not fit the phase is rejected.
HelperServes ==
  /\ helper # "gone" /\ requests # <<>>
  /\ requests' = Tail(requests)
  /\ LET r == requests[1]
         says(what) == IF caller.pc = "dead" THEN UNCHANGED frames ELSE Says(r.id, what)
     IN  CASE r.op = "hello" -> says("ok") /\ UNCHANGED theirs
           [] r.op = "create" ->
                \/ helper' = "created" /\ child' = "suspended" /\ says("ok") /\ UNCHANGED ran
                \/ "rejected" \in Mishaps /\ says("rejected") /\ UNCHANGED theirs
           [] r.op = "resume" ->
                IF helper = "created" /\ child = "suspended"
                THEN /\ helper' = "running" /\ child' = "running" /\ ran' = TRUE
                     /\ says("ok")
                ELSE says("rejected") /\ UNCHANGED theirs
           [] r.op = "stop" ->
                IF helper \in {"running", "done"}
                THEN /\ child' \in (IF child = "running" THEN Codes ELSE {child})
                     /\ says("ok") /\ UNCHANGED <<helper, ran>>
                ELSE says("rejected") /\ UNCHANGED theirs
           [] r.op = "abort" ->
                IF helper \in {"created", "running", "done"}
                THEN child' = Killed /\ says("ok") /\ UNCHANGED <<helper, ran>>
                ELSE says("rejected") /\ UNCHANGED theirs
  /\ UNCHANGED <<kind, row, caller, pending, open, outcome>>

\* The waiter saw the end of the child.
HelperReports ==
  /\ helper \in {"created", "running"} /\ child \in Codes
  /\ helper' = "done" /\ Says(0, child)
  /\ UNCHANGED <<kind, row, caller, pending, requests, open, child, ran, outcome>>

\* The client is gone or has closed the pipe, and all it wrote is served; or the
\* helper itself dies.
HelperGoes ==
  /\ helper # "gone" /\ kind # "none"
  /\ (~open /\ requests = <<>>) \/ "helper" \in Mishaps
  /\ helper' = "gone" /\ child' = Killed
  /\ UNCHANGED <<kind, row, caller, pending, pipes, ran, outcome>>

ChildExits ==
  /\ child = "running" /\ child' \in Codes
  /\ UNCHANGED <<kind, row, caller, pending, pipes, helper, ran, outcome>>

\* Others: cancel or stop, and refresh or reconcile of the run.
RowChanges ==
  /\ kind # "none"
  /\ \/ ~row.cancel /\ row' = [row EXCEPT !.cancel = TRUE]
     \/ ~row.moved /\ row' = [row EXCEPT !.moved = TRUE]
  /\ UNCHANGED <<kind, caller, pending, pipes, theirs, outcome>>

WorkerDies ==
  /\ "worker" \in Mishaps /\ kind # "none" /\ caller.pc \notin {"closed", "dead"}
  /\ caller' = [caller EXCEPT !.pc = "dead"] /\ open' = FALSE
  /\ UNCHANGED <<kind, row, pending, requests, frames, theirs, outcome>>

ClientSteps ==
  \/ Hello \/ Create \/ Record \/ MarkRunning \/ TakeEvent \/ EventFails \/ HandleError \/ Close
  \/ DeferEvent \/ Answered \/ RequestFails
HelperSteps == HelperServes \/ HelperReports \/ HelperGoes

Next == ClientSteps \/ SendStop \/ HelperSteps \/ ChildExits \/ RowChanges \/ WorkerDies

Spec == Init /\ [][Next]_vars

\* Every process moves while it can; the time of a child runs out (SendStop).
Fairness == WF_vars(ClientSteps) /\ WF_vars(SendStop) /\ WF_vars(HelperServes \/ HelperReports)
            /\ WF_vars(~open /\ HelperGoes)

FairSpec == Spec /\ Fairness

-----------------------------------------------------------------------------
(* Correctness.                                                              *)

\* What the caller is told for certain is so, whichever reply was lost or
\* overtaken, and once it is told, no child is left; a child that ran was
\* recorded before.
ReportHolds ==
  /\ ran => row.recorded
  /\ caller.pc = "closed" =>
       /\ outcome # NoOutcome /\ child \notin {"suspended", "running"}
       /\ outcome.certain =>
            CASE outcome.what = "not launched" -> child = "none"
              [] outcome.what = "cancelled" -> ~ran
              [] OTHER -> child = outcome.what

\* The caller hears of its child in the end, and a child does not outlive a
\* worker that died.
SupervisionEnds ==
  /\ kind # "none" ~> caller.pc \in {"closed", "dead"}
  /\ caller.pc = "dead" ~> child \notin {"suspended", "running"}
=============================================================================
