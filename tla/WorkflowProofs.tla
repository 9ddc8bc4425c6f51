--------------------------- MODULE WorkflowProofs ---------------------------
(***************************************************************************)
(* The safety of Workflow for every budget and every activity.             *)
(***************************************************************************)
EXTENDS Workflow, TLAPS

\* The place of a step in the sequence proposal, review, revision, review...
Turn(s) == 2 * s[2] + (IF s[1] = "worker" THEN 1 ELSE 2)

RevisionsCounted ==
  /\ flow.round <= policy.revisions
  /\ task["worker"].current = flow.round + 1
  /\ task["reviewer"].current = flow.round + (IF flow.phase = "review" THEN 2 ELSE 1)

\* The present step is the only one that may be without its run.
ReceiptsCounted ==
  /\ nrun \in {Turn(Current) - 1, Turn(Current)}
  /\ \A s \in Steps : receipt[s] = IF Turn(s) <= nrun THEN Turn(s) ELSE 0
  /\ task["worker"].active = receipt[<<"worker", flow.round>>]
  /\ accepted \subseteq 1..nrun

SourcesPinned ==
  \A s \in Steps : Turn(s) <= Turn(Current) => step[s].source = Turn(s) - 1

RunsOfSteps ==
  \A r \in Runs : IF r <= nrun
                  THEN Turn(run[r].step) = r /\ run[r].source = r - 1
                  ELSE run[r] = NoRun

ReportsOf(phase) == IF phase = "worker" THEN {"none", "complete"}
                    ELSE {"none", "approve", "revise", "blocked"}

\* A run reports when it ends, and the next step had its source's report.
ReportsRight ==
  \A r \in Runs :
    /\ run[r].report \in ReportsOf(run[r].step[1])
    /\ Status(r) \in ActiveStatuses => run[r].report = "none"
    /\ r < Turn(Current) =>
         /\ Status(r) \in {"completed", "failed"}
         /\ run[r].report = IF run[r].step[1] = "worker" THEN "complete" ELSE "revise"

FlowInvariant ==
  /\ TypeOK
  /\ RevisionsCounted
  /\ ReceiptsCounted
  /\ SourcesPinned
  /\ RunsOfSteps
  /\ ReportsRight
  /\ EntriesOfPresentStep
  /\ StoppedIsQuiet

-----------------------------------------------------------------------------
(* Steps and their order.                                                    *)

\* The current step is a step of the template (_step).
LEMMA CurrentIsStep == ASSUME TypeOK PROVE Current \in Steps
  BY DEF TypeOK, Current, Steps

\* Every step has its own place in the order of the template.
LEMMA TurnsOfSteps ==
  ASSUME NEW s \in Steps
  PROVE  /\ Turn(s) \in Nat /\ Turn(s) >= 1
         /\ s = <<s[1], s[2]>> /\ s[1] \in Phases /\ s[2] \in Rounds
         /\ s[1] = "worker" => Turn(s) = 2 * s[2] + 1
         /\ s[1] = "review" => Turn(s) = 2 * s[2] + 2
  BY WorkflowAssumption DEF Turn, Steps, Phases, Rounds

\* No two steps have the same place.
LEMMA TurnsDiffer ==
  ASSUME NEW s \in Steps, NEW t \in Steps, Turn(s) = Turn(t)
  PROVE  s = t
<1>1. s[2] \in Nat /\ t[2] \in Nat
  BY TurnsOfSteps, WorkflowAssumption DEF Rounds
<1>2. \/ s[1] = "worker" /\ Turn(s) = 2 * s[2] + 1
      \/ s[1] = "review" /\ Turn(s) = 2 * s[2] + 2
  BY TurnsOfSteps DEF Phases
<1>3. \/ t[1] = "worker" /\ Turn(t) = 2 * t[2] + 1
      \/ t[1] = "review" /\ Turn(t) = 2 * t[2] + 2
  BY TurnsOfSteps DEF Phases
<1>4. \A a, b \in Nat : /\ 2 * a + 1 # 2 * b + 2
                          /\ (2 * a + 1 = 2 * b + 1 => a = b)
                          /\ (2 * a + 2 = 2 * b + 2 => a = b)
  OBVIOUS
<1>5. s[1] = t[1]
  BY <1>1, <1>2, <1>3, <1>4
<1>6. \/ Turn(s) = 2 * s[2] + 1 /\ Turn(t) = 2 * t[2] + 1
      \/ Turn(s) = 2 * s[2] + 2 /\ Turn(t) = 2 * t[2] + 2
  BY <1>2, <1>3, <1>5
<1>7. s[2] = t[2]
  BY <1>1, <1>4, <1>6
<1>8. s = <<s[1], s[2]>> /\ t = <<t[1], t[2]>>
  BY TurnsOfSteps
<1> QED BY <1>5, <1>7, <1>8

\* The run of the present step, when it has one.
LEMMA PresentRun ==
  ASSUME FlowInvariant, receipt[Current] # 0
  PROVE  /\ receipt[Current] = Turn(Current) /\ nrun = Turn(Current)
         /\ nrun \in Runs
         /\ run[nrun].step = Current /\ run[nrun].source = nrun - 1
<1>1. Current \in Steps /\ nrun \in 0..MaxCalls
  BY CurrentIsStep DEF FlowInvariant, TypeOK
<1>2. receipt[Current] = Turn(Current) /\ nrun = Turn(Current)
  BY <1>1, TurnsOfSteps DEF FlowInvariant, ReceiptsCounted
<1>3. nrun \in Runs /\ nrun <= nrun
  BY <1>1, <1>2, TurnsOfSteps, WorkflowAssumption DEF Runs
<1>4. Turn(run[nrun].step) = nrun /\ run[nrun].source = nrun - 1
  BY <1>3 DEF FlowInvariant, RunsOfSteps
<1>5. run[nrun].step \in Steps
  BY <1>3 DEF FlowInvariant, TypeOK
<1> QED BY <1>1, <1>2, <1>3, <1>4, <1>5, TurnsDiffer

-----------------------------------------------------------------------------
(* Every step preserves the invariant.                                       *)

\* create leaves one task, one step and one waiting entry that fit together.
LEMMA CreatedRight == Init => FlowInvariant
<1> SUFFICES ASSUME Init PROVE FlowInvariant
  OBVIOUS
<1> USE DEF Init
<1>0. /\ <<"worker", 0>> \in Steps /\ 0 \in Rounds /\ MaxCalls \in Nat /\ MaxRevisions \in Nat
      /\ 0 \in 0..MaxCalls /\ 1 \in Revisions /\ 0 \in Revisions
      /\ policy.revisions \in Nat
  BY WorkflowAssumption DEF Steps, Phases, Rounds, Revisions
<1>1. TypeOK
  BY <1>0 DEF TypeOK, NoStep, NoRun, FlowStates, Reasons, Phases, EntryStates,
              RunStatuses, Reports, Foreign
<1>2. RevisionsCounted
  BY <1>0 DEF RevisionsCounted, Members
<1>3. Current = <<"worker", 0>> /\ Turn(Current) = 1
  BY DEF Current, Turn
<1>4. ReceiptsCounted
  BY <1>0, <1>3, TurnsOfSteps DEF ReceiptsCounted, Members
<1>5. SourcesPinned
  BY <1>3, TurnsOfSteps, TurnsDiffer, <1>0 DEF SourcesPinned
<1>6. RunsOfSteps
  BY WorkflowAssumption DEF RunsOfSteps, Runs
<1>7. ReportsRight
  BY <1>3, WorkflowAssumption DEF ReportsRight, Runs, NoRun, ReportsOf, Status, ActiveStatuses
<1>8. EntriesOfPresentStep
  BY <1>3 DEF EntriesOfPresentStep, Waiting
<1>9. StoppedIsQuiet
  BY DEF StoppedIsQuiet
<1> QED BY <1>1, <1>2, <1>4, <1>5, <1>6, <1>7, <1>8, <1>9 DEF FlowInvariant

\* The same state, but for the window, refusals and what only Codex looks at.
LEMMA FrameHolds ==
  ASSUME FlowInvariant,
         UNCHANGED <<policy, step, receipt, task, run, nrun, accepted>>,
         flow' = [flow EXCEPT !.state = flow'.state, !.reason = flow'.reason],
         flow'.state \in FlowStates, flow'.reason \in Reasons,
         entry' \in [Steps -> EntryStates],
         reviewed' \subseteq Runs, clock' \in {"before", "open", "expired"}
  PROVE  /\ TypeOK' /\ RevisionsCounted' /\ ReceiptsCounted'
         /\ SourcesPinned' /\ RunsOfSteps' /\ ReportsRight'
<1> USE DEF FlowInvariant
<1>1. flow'.phase = flow.phase /\ flow'.round = flow.round /\ Current' = Current
  BY DEF TypeOK, Current
<1>2. TypeOK'
  BY DEF TypeOK
<1>3. RevisionsCounted' /\ ReceiptsCounted' /\ SourcesPinned'
  BY <1>1 DEF RevisionsCounted, ReceiptsCounted, SourcesPinned, Turn
<1>4. RunsOfSteps' /\ ReportsRight'
  BY <1>1 DEF RunsOfSteps, ReportsRight, Turn, Status
<1> QED BY <1>2, <1>3, <1>4

\* _halt withdraws every waiting entry with the end of automation.
LEMMA HaltSafe ==
  ASSUME FlowInvariant, NEW reason \in Reasons,
         Halt(reason), reviewed' \subseteq Runs
  PROVE  FlowInvariant'
<1>1. /\ UNCHANGED <<policy, step, receipt, task, run, nrun, accepted>>
      /\ flow' = [flow EXCEPT !.state = flow'.state, !.reason = flow'.reason]
      /\ flow'.state = "awaiting_codex" /\ flow'.state \in FlowStates
      /\ flow'.reason \in Reasons
      /\ entry' \in [Steps -> EntryStates]
      /\ clock' \in {"before", "open", "expired"}
  BY DEF Halt, Withdrawn, FlowInvariant, TypeOK, FlowStates, Waiting, EntryStates
<1>2. EntriesOfPresentStep'
  BY DEF Halt, Withdrawn, EntriesOfPresentStep, Waiting, FlowInvariant, TypeOK
<1>3. StoppedIsQuiet'
  BY <1>1 DEF StoppedIsQuiet
<1> QED BY <1>1, <1>2, <1>3, FrameHolds DEF FlowInvariant

\* A refused entry stays the present step's.
LEMMA RefuseSafe ==
  ASSUME FlowInvariant, NEW s \in Steps, Refuse(s)
  PROVE  FlowInvariant'
<1>1. /\ UNCHANGED <<policy, flow, step, receipt, task, run, nrun, accepted>>
      /\ flow' = [flow EXCEPT !.state = flow'.state, !.reason = flow'.reason]
      /\ flow'.state \in FlowStates /\ flow'.reason \in Reasons
      /\ entry' \in [Steps -> EntryStates]
      /\ reviewed' \subseteq Runs /\ clock' \in {"before", "open", "expired"}
  BY DEF Refuse, FlowInvariant, TypeOK, EntryStates
<1>2. EntriesOfPresentStep'
  BY DEF Refuse, EntriesOfPresentStep, Waiting, FlowInvariant, TypeOK, Current
<1>3. StoppedIsQuiet'
  BY DEF Refuse, StoppedIsQuiet, FlowInvariant, Status
<1> QED BY <1>1, <1>2, <1>3, FrameHolds DEF FlowInvariant

\* stop withdraws every waiting entry with the request.
LEMMA StopSafe == ASSUME FlowInvariant, Stop PROVE FlowInvariant'
<1>1. /\ UNCHANGED <<policy, step, receipt, task, run, nrun, accepted>>
      /\ flow' = [flow EXCEPT !.state = flow'.state, !.reason = flow'.reason]
      /\ flow'.state = "stopping" /\ flow'.state \in FlowStates
      /\ flow'.reason \in Reasons
      /\ entry' \in [Steps -> EntryStates]
      /\ reviewed' \subseteq Runs /\ clock' \in {"before", "open", "expired"}
  BY DEF Stop, Withdrawn, FlowInvariant, TypeOK, FlowStates, Reasons, Waiting, EntryStates
<1>2. EntriesOfPresentStep'
  BY DEF Stop, Withdrawn, EntriesOfPresentStep, Waiting, FlowInvariant, TypeOK
<1>3. StoppedIsQuiet'
  BY <1>1 DEF StoppedIsQuiet
<1> QED BY <1>1, <1>2, <1>3, FrameHolds DEF FlowInvariant

\* _finish_stop looks at every run before it says stopped.
LEMMA FinishStopSafe == ASSUME FlowInvariant, FinishStop PROVE FlowInvariant'
<1>1. /\ UNCHANGED <<policy, step, receipt, task, run, nrun, accepted>>
      /\ flow' = [flow EXCEPT !.state = flow'.state, !.reason = flow'.reason]
      /\ flow'.state \in FlowStates /\ flow'.reason \in Reasons
      /\ entry' \in [Steps -> EntryStates]
      /\ reviewed' \subseteq Runs /\ clock' \in {"before", "open", "expired"}
  BY DEF FinishStop, FlowInvariant, TypeOK, FlowStates
<1>2. EntriesOfPresentStep'
  BY DEF FinishStop, EntriesOfPresentStep, Waiting, FlowInvariant
<1>3. StoppedIsQuiet'
  BY DEF FinishStop, StoppedIsQuiet, Status
<1> QED BY <1>1, <1>2, <1>3, FrameHolds DEF FlowInvariant

\* The window is read, never kept.
LEMMA ClockSafe ==
  ASSUME FlowInvariant, NEW to \in {"before", "open", "expired"}, ClockMoves(to)
  PROVE  FlowInvariant'
<1>1. /\ UNCHANGED <<policy, flow, step, receipt, task, run, nrun, accepted>>
      /\ flow' = [flow EXCEPT !.state = flow'.state, !.reason = flow'.reason]
      /\ flow'.state \in FlowStates /\ flow'.reason \in Reasons
      /\ entry' \in [Steps -> EntryStates]
      /\ reviewed' \subseteq Runs /\ clock' \in {"before", "open", "expired"}
  BY DEF ClockMoves, FlowInvariant, TypeOK
<1>2. EntriesOfPresentStep'
  BY DEF ClockMoves, EntriesOfPresentStep, Waiting, FlowInvariant, Current
<1>3. StoppedIsQuiet'
  BY DEF ClockMoves, StoppedIsQuiet, FlowInvariant, Status
<1> QED BY <1>1, <1>2, <1>3, FrameHolds DEF FlowInvariant

\* Codex accepts only what has run.
LEMMA AcceptSafe == ASSUME FlowInvariant, Accept PROVE FlowInvariant'
<1> DEFINE q == task["worker"].active
<1>1. /\ UNCHANGED <<policy, flow, step, receipt, task, entry, run, nrun, reviewed, clock>>
      /\ accepted' = accepted \union {q} /\ q \in Runs /\ Status(q) = "completed"
  BY DEF Accept, Complete
<1>2. q \in 1..nrun
  BY <1>1 DEF FlowInvariant, RunsOfSteps, NoRun, Status, Runs, TypeOK
<1>3. TypeOK'
  BY <1>1 DEF FlowInvariant, TypeOK
<1>4. ReceiptsCounted'
  BY <1>1, <1>2 DEF FlowInvariant, ReceiptsCounted, Turn, Current
<1>5. RevisionsCounted' /\ SourcesPinned' /\ RunsOfSteps' /\ ReportsRight'
  BY <1>1 DEF FlowInvariant, RevisionsCounted, SourcesPinned, RunsOfSteps, ReportsRight,
              Turn, Current, Status
<1>6. EntriesOfPresentStep' /\ StoppedIsQuiet'
  BY <1>1 DEF FlowInvariant, EntriesOfPresentStep, StoppedIsQuiet, Waiting, Current, Status
<1> QED BY <1>3, <1>4, <1>5, <1>6 DEF FlowInvariant

\* A turn from outside is nobody's step.
LEMMA ForeignTurnSafe ==
  ASSUME FlowInvariant, NEW m \in Members, ForeignTurn(m)
  PROVE  FlowInvariant'
<1>1. UNCHANGED <<policy, flow, step, receipt, entry, run, nrun, accepted, reviewed, clock>>
  BY DEF ForeignTurn
<1>2. /\ task' \in [Members -> [current: Revisions, parent: 0..MaxCalls,
                                active: 0..MaxCalls, latest: 0..Foreign]]
      /\ \A n \in Members : task'[n].current = task[n].current /\ task'[n].active = task[n].active
  <2>1. task \in [Members -> [current: Revisions, parent: 0..MaxCalls,
                              active: 0..MaxCalls, latest: 0..Foreign]]
    BY DEF FlowInvariant, TypeOK
  <2>2. task' = [task EXCEPT ![m].latest = Foreign] /\ Foreign \in 0..Foreign
    BY WorkflowAssumption DEF ForeignTurn, Foreign
  <2> QED BY <2>1, <2>2
<1>3. TypeOK'
  BY <1>1, <1>2 DEF FlowInvariant, TypeOK
<1>4. RevisionsCounted' /\ ReceiptsCounted'
  BY <1>1, <1>2 DEF FlowInvariant, RevisionsCounted, ReceiptsCounted, Turn, Current, Members
<1>5. SourcesPinned' /\ RunsOfSteps' /\ ReportsRight'
  BY <1>1 DEF FlowInvariant, SourcesPinned, RunsOfSteps, ReportsRight, Turn, Current, Status
<1>6. EntriesOfPresentStep' /\ StoppedIsQuiet'
  BY <1>1 DEF FlowInvariant, EntriesOfPresentStep, StoppedIsQuiet, Waiting, Current, Status
<1> QED BY <1>3, <1>4, <1>5, <1>6 DEF FlowInvariant

\* A run moves on: it keeps its report once a later step was built on it, has
\* one only when it has ended, and nothing of a stopped workflow moves up.
LEMMA RunBecomesSafe ==
  ASSUME FlowInvariant,
         NEW r \in Runs, NEW status \in RunStatuses, NEW report \in Reports,
         NEW isAlive \in BOOLEAN,
         RunBecomes(r, status, report, isAlive),
         Status(r) # "absent",
         report \in ReportsOf(run[r].step[1]),
         status \in ActiveStatuses => report = "none",
         r < Turn(Current) => status \in {"completed", "failed"} /\ report = run[r].report,
         flow.state = "stopped" => status \notin ActiveStatuses /\ ~isAlive
  PROVE  FlowInvariant'
<1>1. UNCHANGED <<policy, flow, step, receipt, task, entry, nrun, accepted, reviewed, clock>>
  BY DEF RunBecomes
<1>2. /\ run' \in [Runs -> [status: RunStatuses, step: Steps, source: 0..MaxCalls,
                            report: Reports, alive: BOOLEAN]]
      /\ \A p \in Runs : run'[p].step = run[p].step /\ run'[p].source = run[p].source
      /\ \A p \in Runs \ {r} : run'[p] = run[p]
      /\ run'[r].status = status /\ run'[r].report = report /\ run'[r].alive = isAlive
  <2>1. run \in [Runs -> [status: RunStatuses, step: Steps, source: 0..MaxCalls,
                          report: Reports, alive: BOOLEAN]]
    BY DEF FlowInvariant, TypeOK
  <2>2. run' = [run EXCEPT ![r].status = status, ![r].report = report, ![r].alive = isAlive]
    BY DEF RunBecomes
  <2> QED BY <2>1, <2>2
<1>3. r <= nrun
  BY DEF FlowInvariant, RunsOfSteps, NoRun, Status
<1>4. TypeOK'
  BY <1>1, <1>2 DEF FlowInvariant, TypeOK
<1>5. RevisionsCounted' /\ ReceiptsCounted' /\ SourcesPinned'
  BY <1>1 DEF FlowInvariant, RevisionsCounted, ReceiptsCounted, SourcesPinned, Turn, Current
<1>6. RunsOfSteps'
  BY <1>1, <1>2, <1>3 DEF FlowInvariant, RunsOfSteps, Turn
<1>7. Turn(Current)' = Turn(Current)
  BY <1>1 DEF Turn, Current
<1>8. ReportsRight'
  BY <1>1, <1>2, <1>7 DEF FlowInvariant, ReportsRight, Status
<1>9. EntriesOfPresentStep'
  BY <1>1 DEF FlowInvariant, EntriesOfPresentStep, Waiting, Current
<1>10. StoppedIsQuiet'
  BY <1>1, <1>2 DEF FlowInvariant, StoppedIsQuiet, Status
<1> QED BY <1>4, <1>5, <1>6, <1>8, <1>9, <1>10 DEF FlowInvariant

\* Every event of a run is one that RunBecomesSafe allows.
LEMMA RunStepSafe ==
  ASSUME FlowInvariant, NEW r \in Runs,
         RunStep(r) \/ StopRun(r) \/ RunQuarantined(r) \/ RunReconciled(r) \/ ResultLost(r)
  PROVE  FlowInvariant'
<1>1. /\ run[r] \in [status: RunStatuses, step: Steps, source: 0..MaxCalls,
                     report: Reports, alive: BOOLEAN]
      /\ run[r].step[1] \in Phases
  BY TurnsOfSteps DEF FlowInvariant, TypeOK
<1>2. /\ run[r].report \in ReportsOf(run[r].step[1])
      /\ "none" \in ReportsOf(run[r].step[1])
      /\ Status(r) \in ActiveStatuses => run[r].report = "none"
      /\ r < Turn(Current) => Status(r) \in {"completed", "failed"}
      /\ flow.state = "stopped" => Status(r) \notin ActiveStatuses /\ ~run[r].alive
  BY DEF FlowInvariant, ReportsRight, ReportsOf, StoppedIsQuiet
<1>3. /\ {"pending", "live", "unknown", "completed", "failed"} \subseteq RunStatuses
      /\ \A phase \in Phases : ReportsOf(phase) \subseteq Reports
  BY DEF RunStatuses, ReportsOf, Reports, Phases
<1>4. CASE RunStarts(r)
  <2>1. Status(r) = "pending"
    BY <1>4 DEF RunStarts
  <2>2. CASE RunBecomes(r, "live", "none", TRUE)
    BY <1>1, <1>2, <1>3, <2>1, <2>2, RunBecomesSafe DEF ActiveStatuses
  <2>3. CASE RunBecomes(r, "failed", "none", FALSE)
    BY <1>1, <1>2, <1>3, <2>1, <2>3, RunBecomesSafe DEF ActiveStatuses
  <2> QED BY <1>4, <2>2, <2>3 DEF RunStarts
<1>5. CASE RunEnds(r)
  <2>1. Status(r) = "live"
    BY <1>5 DEF RunEnds
  <2>2. CASE RunBecomes(r, "failed", "none", TRUE)
    BY <1>1, <1>2, <1>3, <2>1, <2>2, RunBecomesSafe DEF ActiveStatuses
  <2>3. ASSUME NEW report \in ReportsOf(run[r].step[1]),
               RunBecomes(r, "completed", report, TRUE)
        PROVE  FlowInvariant'
    BY <1>1, <1>2, <1>3, <2>1, <2>3, RunBecomesSafe DEF ActiveStatuses
  <2> QED BY <1>5, <2>2, <2>3 DEF RunEnds, ReportsOf
<1>6. CASE WorkerExits(r)
  BY <1>1, <1>2, <1>3, <1>6, RunBecomesSafe DEF WorkerExits, ActiveStatuses
<1>7. CASE StopRun(r)
  <2>1. RunBecomes(r, "failed", run[r].report, run[r].alive)
    BY <1>1, <1>7 DEF StopRun, RunBecomes, FlowInvariant, TypeOK
  <2>2. Status(r) = "pending" /\ flow.state # "stopped"
    BY <1>7 DEF StopRun
  <2> QED BY <1>1, <1>2, <1>3, <2>1, <2>2, RunBecomesSafe DEF ActiveStatuses
<1>8. CASE RunQuarantined(r)
  BY <1>1, <1>2, <1>3, <1>8, RunBecomesSafe DEF RunQuarantined, ActiveStatuses
<1>9. CASE RunReconciled(r)
  BY <1>1, <1>2, <1>3, <1>9, RunBecomesSafe DEF RunReconciled, ActiveStatuses
<1>10. CASE ResultLost(r)
  BY <1>1, <1>2, <1>3, <1>10, RunBecomesSafe DEF ResultLost, ActiveStatuses
<1> QED BY <1>4, <1>5, <1>6, <1>7, <1>8, <1>9, <1>10 DEF RunStep

\* record_in: the run is the next one, and it is the present step's.
LEMMA AdmitSafe ==
  ASSUME FlowInvariant, NEW s \in Steps, Admit(s)
  PROVE  FlowInvariant'
<1> DEFINE r == nrun + 1
           m == Member(s[1])
<1>1. /\ s = Current /\ receipt[s] = 0 /\ flow.state = "active"
      /\ ~Accepted /\ CallsSuffice(s[1])
      /\ nrun' = r
      /\ run' = [run EXCEPT ![r] =
           [status |-> "pending", step |-> s, source |-> step[s].source,
            report |-> "none", alive |-> FALSE]]
      /\ receipt' = [receipt EXCEPT ![s] = r]
      /\ entry' = [entry EXCEPT ![s] = "reserved"]
      /\ UNCHANGED <<policy, flow, step, accepted, reviewed, clock>>
  BY DEF Admit, Admissible
<1>0. task' = [task EXCEPT ![m].active = r, ![m].latest = r]
  BY DEF Admit
<1>2. /\ policy.calls <= MaxCalls /\ policy.calls \in Nat /\ nrun \in Nat
      /\ MaxCalls \in Nat
  BY WorkflowAssumption DEF FlowInvariant, TypeOK
<1>3. policy.calls - nrun >= 1
  BY <1>1, <1>2 DEF CallsSuffice
<1>4. r \in Runs /\ r \in 0..MaxCalls /\ r \in 0..Foreign
  BY <1>2, <1>3 DEF Runs, Foreign
<1>5. /\ s[1] \in Phases /\ m \in Members
      /\ s[1] = flow.phase /\ s[2] = flow.round
  BY <1>1, TurnsOfSteps DEF Member, Members, Phases, Current
<1>6. nrun = Turn(s) - 1 /\ Turn(s) = r /\ Turn(s) \in Nat
  BY <1>1, <1>2, TurnsOfSteps DEF FlowInvariant, ReceiptsCounted
<1>7. Current' = Current /\ Turn(Current)' = Turn(Current)
  BY <1>1 DEF Current, Turn
<1>8. TypeOK'
  <2>1. run' \in [Runs -> [status: RunStatuses, step: Steps, source: 0..MaxCalls,
                           report: Reports, alive: BOOLEAN]]
    BY <1>1, <1>4 DEF FlowInvariant, TypeOK, RunStatuses, Reports
  <2>2. task' \in [Members -> [current: Revisions, parent: 0..MaxCalls,
                               active: 0..MaxCalls, latest: 0..Foreign]]
    <3>1. task \in [Members -> [current: Revisions, parent: 0..MaxCalls,
                                active: 0..MaxCalls, latest: 0..Foreign]]
      BY DEF FlowInvariant, TypeOK
    <3> HIDE DEF r, m
    <3> QED BY <1>0, <1>4, <1>5, <3>1
  <2>3. receipt' \in [Steps -> 0..MaxCalls] /\ entry' \in [Steps -> EntryStates]
    BY <1>1, <1>4 DEF FlowInvariant, TypeOK, EntryStates
  <2> QED BY <1>1, <1>4, <2>1, <2>2, <2>3 DEF FlowInvariant, TypeOK
<1>9. /\ \A n \in Members : task'[n].current = task[n].current
      /\ \A n \in Members \ {m} : task'[n] = task[n]
      /\ task'[m].active = r
  BY <1>0, <1>5 DEF FlowInvariant, TypeOK
<1>10. RevisionsCounted'
  BY <1>1, <1>9 DEF FlowInvariant, RevisionsCounted, Members
<1>11. ReceiptsCounted'
  <2>1. nrun' \in {Turn(Current)' - 1, Turn(Current)'}
    BY <1>1, <1>6, <1>7
  <2>2. ASSUME NEW t \in Steps
        PROVE  receipt'[t] = IF Turn(t) <= nrun' THEN Turn(t) ELSE 0
    <3>1. CASE t = s
      <4>1. receipt'[s] = r
        BY <1>1 DEF FlowInvariant, TypeOK
      <4>2. nrun' = r
        BY <1>1
      <4>3. receipt'[t] = Turn(t) /\ nrun' = Turn(t) /\ Turn(t) \in Nat
        BY <1>6, <3>1, <4>1, <4>2
      <4>4. Turn(t) <= nrun'
        BY <4>3
      <4> QED BY <4>3, <4>4
    <3>2. CASE t # s
      <4>1. receipt'[t] = receipt[t]
        BY <1>1, <3>2 DEF FlowInvariant, TypeOK
      <4>2. Turn(t) # r /\ Turn(t) \in Nat
        BY <1>6, <3>2, TurnsDiffer, TurnsOfSteps
      <4> QED BY <1>1, <1>2, <4>1, <4>2 DEF FlowInvariant, ReceiptsCounted
    <3> QED BY <3>1, <3>2
  <2>3. task'["worker"].active = receipt'[<<"worker", flow.round>>]
    <3>1. <<"worker", flow.round>> \in Steps
      BY DEF FlowInvariant, TypeOK, Steps, Phases
    <3>2. CASE s[1] = "worker"
      BY <1>1, <1>5, <1>9, <3>1, <3>2 DEF Member, FlowInvariant, TypeOK, Current
    <3>3. CASE s[1] = "review"
      <4>1. <<"worker", flow.round>> # s /\ m = "reviewer"
        BY <1>1, <3>3 DEF Current, Member
      <4> QED BY <1>1, <1>9, <3>1, <4>1 DEF FlowInvariant, ReceiptsCounted, TypeOK, Members
    <3> QED BY <1>5, <3>2, <3>3 DEF Phases
  <2>4. accepted' \subseteq 1..nrun'
    BY <1>1, <1>2 DEF FlowInvariant, ReceiptsCounted
  <2>5. \A t \in Steps : Turn(t)' = Turn(t)
    BY DEF Turn
  <2> QED BY <1>1, <2>1, <2>2, <2>3, <2>4, <2>5 DEF ReceiptsCounted, Turn
<1>12. SourcesPinned'
  BY <1>1, <1>7 DEF FlowInvariant, SourcesPinned, Turn
<1>13. /\ run'[r].step = s /\ run'[r].source = r - 1 /\ run'[r].report = "none"
       /\ run'[r].status = "pending"
       /\ \A p \in Runs \ {r} : run'[p] = run[p]
  <2>1. step[s].source = Turn(s) - 1
    <3>1. Turn(s) = Turn(Current) /\ Turn(s) <= Turn(Current)
      BY <1>1, <1>6
    <3> QED BY <3>1 DEF FlowInvariant, SourcesPinned
  <2> QED BY <1>1, <1>4, <1>6, <2>1 DEF FlowInvariant, TypeOK
<1>14. RunsOfSteps'
  <2> SUFFICES ASSUME NEW p \in Runs
               PROVE  IF p <= nrun' THEN Turn(run'[p].step) = p /\ run'[p].source = p - 1
                                    ELSE run'[p] = NoRun
    BY DEF RunsOfSteps, Turn, NoRun
  <2>1. CASE p = r
    <3>1. r <= nrun'
      BY <1>1, <1>2
    <3>2. Turn(run'[r].step) = r /\ run'[r].source = r - 1
      BY <1>6, <1>13
    <3> QED BY <2>1, <3>1, <3>2
  <2>2. CASE p # r
    BY <1>1, <1>2, <1>13, <2>2 DEF FlowInvariant, RunsOfSteps, Runs
  <2> QED BY <2>1, <2>2
<1>15. ReportsRight'
  BY <1>1, <1>4, <1>5, <1>6, <1>7, <1>13 DEF FlowInvariant, ReportsRight, ReportsOf, Status, Phases
<1>16. EntriesOfPresentStep'
  BY <1>1, <1>7 DEF FlowInvariant, EntriesOfPresentStep, Waiting, TypeOK
<1>17. StoppedIsQuiet'
  BY <1>1 DEF StoppedIsQuiet
<1> QED BY <1>8, <1>10, <1>11, <1>12, <1>14, <1>15, <1>16, <1>17 DEF FlowInvariant

\* _prepare: the next step of the template, once the present one has the report
\* that calls for it.
LEMMA PrepareSafe ==
  ASSUME FlowInvariant, flow.state = "active", receipt[Current] # 0,
         NEW phase \in Phases, NEW number \in Rounds, number <= policy.revisions,
         \/ flow.phase = "worker" /\ phase = "review" /\ number = flow.round
         \/ flow.phase = "review" /\ phase = "worker" /\ number = flow.round + 1,
         Status(nrun) = "completed",
         run[nrun].report = IF flow.phase = "worker" THEN "complete" ELSE "revise",
         Prepare(phase, number), reviewed' \subseteq Runs
  PROVE  FlowInvariant'
<1> DEFINE m == Member(phase)
           s == <<phase, number>>
<1>1. /\ step' = [step EXCEPT ![s] =
           [rev |-> task[m].current + 1, source |-> receipt[Current]]]
      /\ flow' = [flow EXCEPT !.phase = phase, !.round = number]
      /\ entry' = [entry EXCEPT ![s] = "waiting"]
      /\ UNCHANGED <<policy, receipt, run, nrun, accepted, clock>>
  BY DEF Prepare
<1>2. task' = [task EXCEPT ![m].current = @ + 1, ![m].parent = task[m].active,
                           ![m].active = 0]
  BY DEF Prepare
<1>3. /\ s \in Steps /\ m \in Members /\ Current \in Steps
      /\ flow.phase \in Phases /\ flow.round \in Nat /\ number \in Nat
  BY WorkflowAssumption, CurrentIsStep DEF Steps, Member, Members, Phases, Rounds, FlowInvariant, TypeOK
<1>4. /\ flow'.phase = phase /\ flow'.round = number /\ Current' = s
      /\ flow'.state = "active" /\ flow'.reason = flow.reason
  BY <1>1 DEF FlowInvariant, TypeOK, Current
<1>5. Turn(s) = Turn(Current) + 1 /\ Turn(Current) \in Nat
  BY <1>3 DEF Turn, Current, Phases
<1>6. /\ receipt[Current] = Turn(Current) /\ nrun = Turn(Current)
      /\ nrun \in Runs /\ run[nrun].step = Current
  BY PresentRun
<1>7. Turn(Current)' = Turn(s)
  BY <1>4 DEF Turn
<1>8. \A t \in Steps : Turn(t)' = Turn(t)
  BY DEF Turn
<1>9. task \in [Members -> [current: Revisions, parent: 0..MaxCalls,
                           active: 0..MaxCalls, latest: 0..Foreign]]
  BY DEF FlowInvariant, TypeOK
<1>10. task[m].current + 1 \in Revisions
  BY <1>3, <1>9, WorkflowAssumption
     DEF FlowInvariant, TypeOK, RevisionsCounted, Revisions, Member, Members, Rounds
<1>11. /\ task' \in [Members -> [current: Revisions, parent: 0..MaxCalls,
                                 active: 0..MaxCalls, latest: 0..Foreign]]
       /\ \A n \in Members \ {m} : task'[n] = task[n]
       /\ task'[m].current = task[m].current + 1 /\ task'[m].active = 0
  <2>1. 0 \in 0..MaxCalls
    BY WorkflowAssumption
  <2> HIDE DEF m
  <2> QED BY <1>2, <1>3, <1>9, <1>10, <2>1
<1>12. TypeOK'
  <2>1. step' \in [Steps -> [rev: Revisions, source: 0..MaxCalls]]
    BY <1>1, <1>3, <1>10 DEF FlowInvariant, TypeOK
  <2>2. flow' \in [state: FlowStates, reason: Reasons, phase: Phases, round: Rounds]
    BY <1>1 DEF FlowInvariant, TypeOK
  <2>3. entry' \in [Steps -> EntryStates]
    BY <1>1 DEF FlowInvariant, TypeOK, EntryStates
  <2> QED BY <1>1, <1>11, <2>1, <2>2, <2>3 DEF FlowInvariant, TypeOK
<1>13. RevisionsCounted'
  BY <1>1, <1>3, <1>4, <1>11 DEF FlowInvariant, RevisionsCounted, Member, Members
<1>14. ReceiptsCounted'
  <2>1. nrun' \in {Turn(Current)' - 1, Turn(Current)'}
    BY <1>1, <1>5, <1>6, <1>7
  <2>2. \A t \in Steps : receipt'[t] = IF Turn(t)' <= nrun' THEN Turn(t)' ELSE 0
    BY <1>1, <1>8 DEF FlowInvariant, ReceiptsCounted
  <2>3. task'["worker"].active = receipt'[<<"worker", flow'.round>>]
    <3>1. CASE phase = "worker"
      <4>1. receipt[s] = 0
        BY <1>3, <1>5, <1>6 DEF FlowInvariant, ReceiptsCounted
      <4> QED BY <1>1, <1>4, <1>11, <3>1, <4>1 DEF Member
    <3>2. CASE phase = "review"
      BY <1>1, <1>4, <1>11, <3>2 DEF FlowInvariant, ReceiptsCounted, Member, Members
    <3> QED BY <3>1, <3>2 DEF Phases
  <2>4. accepted' \subseteq 1..nrun'
    BY <1>1 DEF FlowInvariant, ReceiptsCounted
  <2> QED BY <2>1, <2>2, <2>3, <2>4 DEF ReceiptsCounted
<1>15. SourcesPinned'
  <2> SUFFICES ASSUME NEW t \in Steps, Turn(t) <= Turn(s)
               PROVE  step'[t].source = Turn(t) - 1
    BY <1>7, <1>8 DEF SourcesPinned
  <2>1. CASE t = s
    <3>1. step'[s].source = receipt[Current]
      BY <1>1, <1>3 DEF FlowInvariant, TypeOK
    <3> QED BY <1>5, <1>6, <2>1, <3>1
  <2>2. CASE t # s
    <3>1. Turn(t) # Turn(s)
      BY <1>3, <2>2, TurnsDiffer
    <3>2. Turn(t) <= Turn(Current)
      BY <1>5, <3>1, TurnsOfSteps
    <3>3. step'[t] = step[t]
      BY <1>1, <2>2 DEF FlowInvariant, TypeOK
    <3> QED BY <3>2, <3>3 DEF FlowInvariant, SourcesPinned
  <2> QED BY <2>1, <2>2
<1>16. RunsOfSteps'
  BY <1>1 DEF FlowInvariant, RunsOfSteps, Turn
<1>17. ReportsRight'
  <2>1. Current[1] = flow.phase
    BY DEF Current
  <2>2. \A p \in Runs : p < Turn(s) => p < Turn(Current) \/ p = nrun
    BY <1>5, <1>6 DEF Runs
  <2> QED BY <1>1, <1>6, <1>7, <2>1, <2>2 DEF FlowInvariant, ReportsRight, Status
<1>18. EntriesOfPresentStep'
  <2> SUFFICES ASSUME NEW t \in Steps, entry'[t] \in {"waiting", "blocked"}
               PROVE  t = s /\ receipt[t] = 0
    BY <1>1, <1>4 DEF EntriesOfPresentStep, Waiting
  <2>1. t = s
    BY <1>1 DEF FlowInvariant, EntriesOfPresentStep, Waiting, TypeOK
  <2>2. receipt[s] = 0
    BY <1>3, <1>5, <1>6 DEF FlowInvariant, ReceiptsCounted
  <2> QED BY <2>1, <2>2
<1>19. StoppedIsQuiet'
  BY <1>4 DEF StoppedIsQuiet
<1> QED BY <1>12, <1>13, <1>14, <1>15, <1>16, <1>17, <1>18, <1>19 DEF FlowInvariant

\* The stage that follows is prepared, or Codex decides.
LEMMA ProceedSafe ==
  ASSUME FlowInvariant, flow.state = "active", receipt[Current] # 0,
         NEW phase \in Phases, NEW number \in Rounds, number <= policy.revisions,
         \/ flow.phase = "worker" /\ phase = "review" /\ number = flow.round
         \/ flow.phase = "review" /\ phase = "worker" /\ number = flow.round + 1,
         Status(nrun) = "completed",
         run[nrun].report = IF flow.phase = "worker" THEN "complete" ELSE "revise",
         Proceed(phase, number), reviewed' \subseteq Runs
  PROVE  FlowInvariant'
<1>1. "attention" \in Reasons
  BY DEF Reasons
<1>2. CASE Halt("attention")
  BY <1>1, <1>2, HaltSafe
<1>3. CASE Prepare(phase, number)
  BY <1>3, PrepareSafe
<1> QED BY <1>2, <1>3 DEF Proceed

\* What advance has in its hands when it goes on.
LEMMA AdvancingFacts ==
  ASSUME FlowInvariant, NEW phase \in Phases, Advancing(phase)
  PROVE  /\ flow.phase = phase /\ ~Accepted /\ ~Obstructed
         /\ receipt[Current] = nrun /\ nrun \in Runs /\ receipt[Current] # 0
         /\ Status(nrun) = "completed" /\ run[nrun].report # "none"
         /\ run[nrun].report \in ReportsOf(phase)
         /\ run[nrun].source = nrun - 1
<1>1. /\ flow.phase = phase /\ ~Accepted /\ ~Obstructed
      /\ receipt[Current] \in Runs /\ Status(receipt[Current]) = "completed"
      /\ run[receipt[Current]].report # "none"
  BY DEF Advancing, Complete
<1>2. receipt[Current] # 0
  BY <1>1 DEF Runs
<1>3. receipt[Current] = nrun /\ run[nrun].step = Current /\ run[nrun].source = nrun - 1
  BY <1>2, PresentRun
<1>4. run[nrun].report \in ReportsOf(Current[1])
  BY <1>1, <1>3 DEF FlowInvariant, ReportsRight
<1>5. Current[1] = flow.phase
  BY DEF Current
<1> QED BY <1>1, <1>2, <1>3, <1>4, <1>5

\* advance goes on or hands over to Codex.
LEMMA AdvanceSafe == ASSUME FlowInvariant, Advance PROVE FlowInvariant'
<1>1. /\ flow.state = "active" /\ reviewed \subseteq Runs
      /\ {"attention", "codex_accepted", "approve_recommended", "review_blocked",
          "revise_limit", "call_limit"} \subseteq Reasons
      /\ "worker" \in Phases /\ "review" \in Phases
  BY DEF Advance, FlowInvariant, TypeOK, Reasons, Phases
<1>2. /\ flow.round \in Rounds /\ flow.round \in Nat
      /\ flow.round <= policy.revisions /\ policy.revisions \in 0..MaxRevisions
      /\ MaxRevisions \in Nat
  BY WorkflowAssumption DEF FlowInvariant, TypeOK, RevisionsCounted, Rounds
<1>3. CASE AdvanceObstructed
  BY <1>1, <1>3, HaltSafe DEF AdvanceObstructed
<1>4. CASE AdvanceAccepted
  BY <1>1, <1>4, HaltSafe DEF AdvanceAccepted
<1>5. CASE AdvanceToReview
  <2>1. Advancing("worker") /\ reviewed' = reviewed
    BY <1>5 DEF AdvanceToReview
  <2>2. run[nrun].report = "complete"
    BY <1>1, <2>1, AdvancingFacts DEF ReportsOf
  <2>3. CASE Halt("call_limit")
    BY <1>1, <2>1, <2>3, HaltSafe
  <2>4. CASE Proceed("review", flow.round)
    BY <1>1, <1>2, <2>1, <2>2, <2>4, AdvancingFacts, ProceedSafe
  <2> QED BY <1>5, <2>3, <2>4 DEF AdvanceToReview
<1>6. CASE AdvanceReviewed
  <2>1. Advancing("review") /\ receipt[Current] \in Runs
    BY <1>1, <1>6, AdvancingFacts DEF AdvanceReviewed
  <2>2. reviewed' \subseteq Runs
    BY <1>1, <1>6, <2>1 DEF AdvanceReviewed
  <2>3. CASE \E reason \in Reasons : Halt(reason)
    BY <2>2, <2>3, HaltSafe
  <2>4. CASE /\ run[receipt[Current]].report = "revise" /\ MayRevise
             /\ Proceed("worker", flow.round + 1)
    <3>1. flow.round + 1 \in Rounds /\ flow.round + 1 <= policy.revisions
      BY <1>2, <2>4 DEF MayRevise, Rounds
    <3> QED BY <1>1, <2>1, <2>2, <2>4, <3>1, AdvancingFacts, ProceedSafe
  <2>5. (\E reason \in Reasons : Halt(reason))
        \/ /\ run[receipt[Current]].report = "revise" /\ MayRevise
           /\ Proceed("worker", flow.round + 1)
    BY <1>1, <1>6 DEF AdvanceReviewed
  <2> QED BY <2>3, <2>4, <2>5
<1> QED BY <1>3, <1>4, <1>5, <1>6 DEF Advance

\* The invariant is inductive.
LEMMA NextSafe == FlowInvariant /\ [Next]_vars => FlowInvariant'
<1> SUFFICES ASSUME FlowInvariant, [Next]_vars PROVE FlowInvariant'
  OBVIOUS
<1>1. CASE Advance
  BY <1>1, AdvanceSafe
<1>2. CASE Stop
  BY <1>2, StopSafe
<1>3. CASE FinishStop
  BY <1>3, FinishStopSafe
<1>4. CASE Accept
  BY <1>4, AcceptSafe
<1>5. CASE \E s \in Steps : Admit(s) \/ Refuse(s)
  BY <1>5, AdmitSafe, RefuseSafe
<1>6. CASE \E r \in Runs : \/ StopRun(r) \/ RunStep(r) \/ RunQuarantined(r)
                           \/ RunReconciled(r) \/ ResultLost(r)
  BY <1>6, RunStepSafe
<1>7. CASE \E m \in Members : ForeignTurn(m)
  BY <1>7, ForeignTurnSafe
<1>8. CASE \E to \in {"before", "open", "expired"} : ClockMoves(to)
  BY <1>8, ClockSafe
<1>9. CASE UNCHANGED vars
  BY <1>9 DEF vars, FlowInvariant, TypeOK, RevisionsCounted, ReceiptsCounted, SourcesPinned,
              RunsOfSteps, ReportsRight, EntriesOfPresentStep, StoppedIsQuiet,
              Turn, Current, Status, Waiting
<1> QED BY <1>1, <1>2, <1>3, <1>4, <1>5, <1>6, <1>7, <1>8, <1>9 DEF Next

\* Every reachable state of a workflow is right: its steps, receipts and runs are
\* the same sequence, and what was built on rests on the report it needs.
THEOREM FlowCorrect == Spec => []FlowInvariant
<1> QED BY CreatedRight, NextSafe, PTL DEF Spec

\* The rows have their types; at most the planned revisions are made.
THEOREM TypeCorrect == Spec => []TypeOK
<1>1. FlowInvariant => TypeOK
  BY DEF FlowInvariant
<1> QED BY <1>1, FlowCorrect, PTL

\* Only the present step of an active workflow waits in the queue.
THEOREM QueueOwned == Spec => []EntriesOfPresentStep
<1>1. FlowInvariant => EntriesOfPresentStep
  BY DEF FlowInvariant
<1> QED BY <1>1, FlowCorrect, PTL

\* A stopped workflow has nothing alive and nothing in doubt.
THEOREM StopEstablished == Spec => []StoppedIsQuiet
<1>1. FlowInvariant => StoppedIsQuiet
  BY DEF FlowInvariant
<1> QED BY <1>1, FlowCorrect, PTL

\* A review is of its proposal, a revision of the review that asked for it.
THEOREM TurnsAnswered == Spec => []TurnsAnswerEachOther
<1>1. ASSUME FlowInvariant PROVE TurnsAnswerEachOther
  <2> SUFFICES ASSUME NEW r \in 1..nrun
               PROVE  IF r = 1 THEN run[r].step = <<"worker", 0>> /\ run[r].source = 0
                      ELSE LET q == run[r - 1] IN
                           /\ run[r].source = r - 1
                           /\ IF q.step[1] = "worker"
                              THEN q.report = "complete" /\ run[r].step = <<"review", q.step[2]>>
                              ELSE q.report = "revise" /\ run[r].step = <<"worker", q.step[2] + 1>>
    BY DEF TurnsAnswerEachOther
  <2>1. nrun \in 0..MaxCalls /\ MaxCalls \in Nat /\ Current \in Steps
    BY <1>1, WorkflowAssumption, CurrentIsStep DEF FlowInvariant, TypeOK
  <2>2. \A p \in 1..nrun : p \in Runs /\ run[p].step \in Steps
    BY <1>1, <2>1 DEF FlowInvariant, TypeOK, Runs
  <2>3. \A p \in 1..nrun : Turn(run[p].step) = p /\ run[p].source = p - 1
    BY <1>1, <2>1, <2>2 DEF FlowInvariant, RunsOfSteps
  <2>4. \A p \in 1..nrun : LET t == run[p].step IN
          /\ t = <<t[1], t[2]>> /\ t[2] \in Nat
          /\ \/ t[1] = "worker" /\ p = 2 * t[2] + 1
             \/ t[1] = "review" /\ p = 2 * t[2] + 2
    <3> SUFFICES ASSUME NEW p \in 1..nrun
                 PROVE  LET t == run[p].step IN
                        /\ t = <<t[1], t[2]>> /\ t[2] \in Nat
                        /\ \/ t[1] = "worker" /\ p = 2 * t[2] + 1
                           \/ t[1] = "review" /\ p = 2 * t[2] + 2
      OBVIOUS
    <3> DEFINE t == run[p].step
    <3>1. t \in Steps /\ Turn(t) = p
      BY <2>2, <2>3
    <3>2. /\ t = <<t[1], t[2]>> /\ t[2] \in Rounds /\ t[1] \in Phases
          /\ t[1] = "worker" => Turn(t) = 2 * t[2] + 1
          /\ t[1] = "review" => Turn(t) = 2 * t[2] + 2
      BY <3>1, TurnsOfSteps
    <3>3. t[2] \in Nat
      BY <3>2, WorkflowAssumption DEF Rounds
    <3> QED BY <3>1, <3>2, <3>3 DEF Phases
  <2>5. CASE r = 1
    <3> DEFINE t == run[r].step
    <3>1. /\ t = <<t[1], t[2]>> /\ t[2] \in Nat
          /\ \/ t[1] = "worker" /\ r = 2 * t[2] + 1
             \/ t[1] = "review" /\ r = 2 * t[2] + 2
      BY <2>4
    <3>2. t[1] = "worker" /\ t[2] = 0
      <4> HIDE DEF t
      <4> QED BY <2>5, <3>1
    <3> QED BY <2>3, <2>5, <3>1, <3>2
  <2>6. CASE r # 1
    <3>1. r - 1 \in 1..nrun
      BY <2>1, <2>6
    <3>2. r - 1 < Turn(Current)
      BY <1>1, <2>1, <3>1, TurnsOfSteps DEF FlowInvariant, ReceiptsCounted
    <3>3. run[r - 1].report = IF run[r - 1].step[1] = "worker" THEN "complete" ELSE "revise"
      BY <1>1, <2>2, <3>1, <3>2 DEF FlowInvariant, ReportsRight
    <3> DEFINE p == run[r - 1].step
               t == run[r].step
    <3>4. /\ p[2] \in Nat
          /\ \/ p[1] = "worker" /\ r - 1 = 2 * p[2] + 1
             \/ p[1] = "review" /\ r - 1 = 2 * p[2] + 2
      BY <2>4, <3>1
    <3>5. /\ t = <<t[1], t[2]>> /\ t[2] \in Nat
          /\ \/ t[1] = "worker" /\ r = 2 * t[2] + 1
             \/ t[1] = "review" /\ r = 2 * t[2] + 2
      BY <2>4
    <3>6. /\ p[1] = "worker" => t[1] = "review" /\ t[2] = p[2]
          /\ p[1] # "worker" => t[1] = "worker" /\ t[2] = p[2] + 1
      <4> HIDE DEF p, t
      <4> QED BY <3>4, <3>5
    <3> QED BY <2>3, <2>6, <3>3, <3>5, <3>6
  <2> QED BY <2>5, <2>6
<1> QED BY <1>1, FlowCorrect, PTL

\* A recommendation to approve names the result that is still the worker's, and
\* that nobody accepted before.
THEOREM ApprovalsExact == Spec => ApprovalExact
<1>1. ASSUME FlowInvariant, [Next]_vars,
             flow.reason # "approve_recommended", flow'.reason = "approve_recommended"
      PROVE  LET q == task["worker"].active IN
             /\ \E r \in reviewed' : run[r].source = q /\ run[r].report = "approve"
             /\ Complete(q) /\ q \notin accepted
  <2> DEFINE q == task["worker"].active
  <2>1. AdvanceReviewed
    <3>1. flow \in [state: FlowStates, reason: Reasons, phase: Phases, round: Rounds]
      BY <1>1 DEF FlowInvariant, TypeOK
    <3>2. \A reason : Halt(reason) => flow'.reason = reason
      BY <3>1 DEF Halt
    <3>3. \A phase, number : Proceed(phase, number) => flow'.reason # "approve_recommended"
      BY <1>1, <3>1, <3>2 DEF Proceed, Prepare
    <3>4. ~AdvanceObstructed /\ ~AdvanceAccepted /\ ~AdvanceToReview
      BY <1>1, <3>2, <3>3 DEF AdvanceObstructed, AdvanceAccepted, AdvanceToReview
    <3>5. ~Stop /\ ~FinishStop
      BY <1>1, <3>1 DEF Stop, FinishStop
    <3>6. flow' # flow
      BY <1>1
    <3> QED BY <1>1, <3>4, <3>5, <3>6
            DEF Next, Advance, Accept, Admit, Refuse, StopRun, RunStep, RunStarts, RunEnds,
                WorkerExits, RunQuarantined, RunReconciled, ResultLost, ForeignTurn,
                ClockMoves, RunBecomes, vars
  <2>2. /\ receipt[Current] \in reviewed' /\ Advancing("review")
        /\ run[receipt[Current]].report = "approve"
    <3>1. flow \in [state: FlowStates, reason: Reasons, phase: Phases, round: Rounds]
      BY <1>1 DEF FlowInvariant, TypeOK
    <3>2. \A reason : Halt(reason) => flow'.reason = reason
      BY <3>1 DEF Halt
    <3>3. \A phase, number : Proceed(phase, number) => flow'.reason # "approve_recommended"
      BY <1>1, <3>1, <3>2 DEF Proceed, Prepare
    <3> QED BY <1>1, <2>1, <3>2, <3>3 DEF AdvanceReviewed
  <2>3. /\ flow.phase = "review" /\ ~Accepted /\ ~Obstructed
        /\ receipt[Current] = nrun /\ nrun \in Runs /\ receipt[Current] # 0
        /\ Status(nrun) = "completed" /\ run[nrun].report # "none"
        /\ run[nrun].source = nrun - 1
    BY <1>1, <2>2, AdvancingFacts DEF Phases
  <2>4. run[nrun].source # 0 /\ Status(run[nrun].source) = "completed"
    BY <2>3 DEF Obstructed, Decidable, Complete
  <2>5. flow.round \in Rounds /\ flow.round \in Nat /\ Current \in Steps
    BY <1>1, WorkflowAssumption, CurrentIsStep DEF FlowInvariant, TypeOK, Rounds
  <2>6. /\ <<"worker", flow.round>> \in Steps
        /\ Turn(<<"worker", flow.round>>) = 2 * flow.round + 1
        /\ Turn(Current) = 2 * flow.round + 2
    BY <2>3, <2>5 DEF Steps, Phases, Turn, Current
  <2>7. nrun = Turn(Current)
    BY <1>1, <2>3, PresentRun
  <2>8. q = nrun - 1 /\ q \in Runs /\ q < Turn(Current)
    <3>1. q = 2 * flow.round + 1
      BY <1>1, <2>5, <2>6, <2>7 DEF FlowInvariant, ReceiptsCounted
    <3>2. nrun = 2 * flow.round + 2
      BY <2>6, <2>7
    <3>3. nrun \in 1..MaxCalls /\ MaxCalls \in Nat
      BY <2>3, WorkflowAssumption DEF Runs
    <3> HIDE DEF q
    <3> QED BY <2>5, <2>6, <3>1, <3>2, <3>3 DEF Runs
  <2>9. run[q].report # "none"
    BY <1>1, <2>8 DEF FlowInvariant, ReportsRight
  <2>10. q # 0 /\ q \notin accepted
    BY <2>3, <2>8 DEF Accepted, Runs
  <2> QED BY <2>2, <2>3, <2>4, <2>8, <2>9, <2>10, SMTT(30) DEF Complete
<1>2. FlowInvariant /\ [Next]_vars =>
        [flow.reason # "approve_recommended" /\ flow'.reason = "approve_recommended" =>
          LET q == task["worker"].active IN
          /\ \E r \in reviewed' : run[r].source = q /\ run[r].report = "approve"
          /\ Complete(q) /\ q \notin accepted]_vars
  BY <1>1
<1> QED BY <1>2, FlowCorrect, PTL DEF Spec, ApprovalExact

-----------------------------------------------------------------------------
(* Workflow implements BoundedReview.                                        *)

IsOpen == flow.state = "active" /\ ~Accepted

\* Reserving the present step's run is its turn: a proposal that leaves a call
\* for its review, or that review.
LEMMA AdmitIsTurn ==
  ASSUME FlowInvariant, NEW s \in Steps, Admit(s)
  PROVE  Review!Propose \/ Review!Review
<1>1. /\ s = Current /\ receipt[s] = 0 /\ flow.state = "active"
      /\ ~Accepted /\ CallsSuffice(s[1]) /\ nrun' = nrun + 1
      /\ UNCHANGED <<policy, flow, accepted>>
  BY DEF Admit, Admissible
<1>2. task' = [task EXCEPT ![Member(s[1])].active = nrun + 1,
                           ![Member(s[1])].latest = nrun + 1]
  BY DEF Admit
<1>3. /\ nrun \in Nat /\ policy.calls \in Nat
      /\ policy.revisions \in Nat /\ flow.round \in Nat /\ flow.round <= policy.revisions
      /\ flow.phase \in Phases
  BY WorkflowAssumption DEF FlowInvariant, TypeOK, RevisionsCounted, Rounds
<1>4. nrun = Turn(Current) - 1
  BY <1>1, <1>3, CurrentIsStep, TurnsOfSteps DEF FlowInvariant, ReceiptsCounted
<1>5. s[1] = flow.phase
  BY <1>1 DEF Current
<1>6. task'["worker"].active \in {task["worker"].active, nrun + 1}
  <2>1. task \in [Members -> [current: Revisions, parent: 0..MaxCalls,
                              active: 0..MaxCalls, latest: 0..Foreign]]
    BY DEF FlowInvariant, TypeOK
  <2>2. Member(s[1]) \in Members
    BY DEF Member, Members
  <2> QED BY <1>2, <2>1, <2>2 DEF Members
<1>7. nrun + 1 \notin accepted
  BY <1>3 DEF FlowInvariant, ReceiptsCounted
<1>8. IsOpen /\ IsOpen'
  BY <1>1, <1>6, <1>7 DEF IsOpen, Accepted
<1>9. CASE flow.phase = "worker"
  <2>1. nrun = 2 * flow.round
    BY <1>3, <1>4, <1>9 DEF Turn, Current
  <2>2. nrun % 2 = 0 /\ nrun <= 2 * policy.revisions
    BY <1>3, <2>1
  <2>3. nrun + 2 <= policy.calls
    BY <1>1, <1>3, <1>5, <1>9 DEF CallsSuffice
  <2> QED BY <1>1, <1>8, <2>2, <2>3 DEF IsOpen, Review!Propose
<1>10. CASE flow.phase = "review"
  <2>1. nrun = 2 * flow.round + 1
    BY <1>3, <1>4, <1>10 DEF Turn, Current
  <2>2. nrun % 2 = 1
    BY <1>3, <2>1
  <2> QED BY <1>1, <1>8, <2>2 DEF IsOpen, Review!Review
<1> QED BY <1>3, <1>9, <1>10 DEF Phases

\* Nothing else adds a turn, changes the budgets or opens automation again.
LEMMA OthersAddNoTurn ==
  ASSUME FlowInvariant, [Next]_vars, ~ \E s \in Steps : Admit(s)
  PROVE  /\ UNCHANGED <<policy, nrun>>
         /\ IsOpen' => IsOpen
<1>1. CASE Advance
  <2>1. ASSUME NEW reason, Halt(reason)
        PROVE  UNCHANGED <<policy, nrun>> /\ ~IsOpen'
    BY <2>1 DEF Halt, IsOpen, FlowInvariant, TypeOK
  <2>2. ASSUME NEW phase, NEW number, Proceed(phase, number), flow.state = "active", ~Accepted
        PROVE  UNCHANGED <<policy, nrun>> /\ IsOpen
    BY <2>1, <2>2 DEF Proceed, Prepare, IsOpen
  <2>3. CASE AdvanceObstructed \/ AdvanceAccepted
    BY <2>1, <2>3 DEF AdvanceObstructed, AdvanceAccepted
  <2>4. CASE AdvanceToReview
    BY <1>1, <2>1, <2>2, <2>4 DEF AdvanceToReview, Advancing, Advance
  <2>5. CASE AdvanceReviewed
    BY <1>1, <2>1, <2>2, <2>5 DEF AdvanceReviewed, Advancing, Advance
  <2> QED BY <1>1, <2>3, <2>4, <2>5 DEF Advance
<1>2. CASE Stop \/ FinishStop
  BY <1>2 DEF Stop, FinishStop, IsOpen, FlowInvariant, TypeOK
<1>3. CASE Accept
  BY <1>3 DEF Accept, IsOpen, Accepted
<1>4. CASE \E s \in Steps : Refuse(s)
  BY <1>4 DEF Refuse, IsOpen, Accepted
<1>5. CASE \E r \in Runs : \/ StopRun(r) \/ RunStep(r) \/ RunQuarantined(r)
                           \/ RunReconciled(r) \/ ResultLost(r)
  <2>1. PICK r \in Runs : \/ StopRun(r) \/ RunStep(r) \/ RunQuarantined(r)
                          \/ RunReconciled(r) \/ ResultLost(r)
    BY <1>5
  <2>2. ASSUME NEW status, NEW report, NEW isAlive, RunBecomes(r, status, report, isAlive)
        PROVE  UNCHANGED <<policy, flow, task, accepted, nrun>>
    BY <2>2 DEF RunBecomes
  <2>3. StopRun(r) => UNCHANGED <<policy, flow, task, accepted, nrun>>
    BY DEF StopRun
  <2>4. /\ RunStarts(r) => UNCHANGED <<policy, flow, task, accepted, nrun>>
        /\ WorkerExits(r) => UNCHANGED <<policy, flow, task, accepted, nrun>>
    BY <2>2 DEF RunStarts, WorkerExits
  <2>5. RunEnds(r) => UNCHANGED <<policy, flow, task, accepted, nrun>>
    BY <2>2 DEF RunEnds
  <2>6. /\ RunQuarantined(r) => UNCHANGED <<policy, flow, task, accepted, nrun>>
        /\ RunReconciled(r) => UNCHANGED <<policy, flow, task, accepted, nrun>>
        /\ ResultLost(r) => UNCHANGED <<policy, flow, task, accepted, nrun>>
    BY <2>2 DEF RunQuarantined, RunReconciled, ResultLost
  <2>7. UNCHANGED <<policy, flow, task, accepted, nrun>>
    BY <2>1, <2>3, <2>4, <2>5, <2>6 DEF RunStep
  <2> QED BY <2>7 DEF IsOpen, Accepted
<1>6. CASE \E m \in Members : ForeignTurn(m)
  <2>1. PICK m \in Members : ForeignTurn(m)
    BY <1>6
  <2>2. task'["worker"].active = task["worker"].active
    BY <2>1 DEF ForeignTurn, FlowInvariant, TypeOK, Members
  <2>3. UNCHANGED <<policy, flow, accepted, nrun>>
    BY <2>1 DEF ForeignTurn
  <2> QED BY <2>2, <2>3 DEF IsOpen, Accepted
<1>7. CASE \E to \in {"before", "open", "expired"} : ClockMoves(to)
  BY <1>7 DEF ClockMoves, IsOpen, Accepted
<1>8. CASE UNCHANGED vars
  BY <1>8 DEF vars, IsOpen, Accepted
<1> QED BY <1>1, <1>2, <1>3, <1>4, <1>5, <1>6, <1>7, <1>8 DEF Next

\* A workflow is a bounded review: proposals and reviews take turns within both
\* budgets, and there are none once automation has ended.
THEOREM BoundedReviewRefined == Spec => BoundsRespected
<1>1. ASSUME Init PROVE Review!Init
  BY <1>1 DEF Init, Review!Init, Accepted, Members
<1>2. ASSUME FlowInvariant, [Next]_vars
      PROVE  [Review!Propose \/ Review!Review \/ Review!End]_<<policy, nrun, IsOpen>>
  <2>1. CASE \E s \in Steps : Admit(s)
    BY <1>2, <2>1, AdmitIsTurn
  <2>2. CASE ~ \E s \in Steps : Admit(s)
    <3>1. UNCHANGED <<policy, nrun>> /\ (IsOpen' => IsOpen)
      BY <1>2, <2>2, OthersAddNoTurn
    <3>2. CASE IsOpen /\ ~IsOpen'
      BY <3>1, <3>2 DEF Review!End, IsOpen
    <3>3. CASE IsOpen' = IsOpen
      BY <3>1, <3>3
    <3> QED BY <3>1, <3>2, <3>3 DEF IsOpen
  <2> QED BY <2>1, <2>2
<1>3. FlowInvariant /\ [Next]_vars =>
        [Review!Propose \/ Review!Review \/ Review!End]_<<policy, nrun,
                                          flow.state = "active" /\ ~Accepted>>
  BY <1>2 DEF IsOpen
<1> QED BY <1>1, <1>3, FlowCorrect, PTL DEF Spec, BoundsRespected, Review!Spec
=============================================================================
