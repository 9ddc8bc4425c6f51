------------------------------- MODULE Messages -------------------------------
(***************************************************************************)
(* Messages for the next turn of one task (messages.py): enqueued for the   *)
(* present revision and conversation, selected by a revision, bound to the  *)
(* run that is reserved for it, and delivered again only after an attempt   *)
(* that failed and stopped.                                                 *)
(*                                                                          *)
(* Every operation is one write transaction; runs live and end in between.  *)
(***************************************************************************)
EXTENDS Integers, Sequences, FiniteSets

CONSTANTS
  MaxMessages,   \* bound: messages ever enqueued
  MaxUnbound,    \* max_unbound_messages
  MaxRevisions,  \* bound: revisions of the task
  MaxRuns,       \* bound: its runs
  MaxBackends    \* bound: conversations its session ever has

MessagesAssumption ==
  /\ MaxMessages \in Nat /\ MaxRevisions \in Nat \ {0} /\ MaxRuns \in Nat
  /\ MaxUnbound \in Nat /\ MaxBackends \in Nat

VARIABLES
  message,    \* messages in the order of seq: base revision, target conversation (0: none)
  cancelled,  \* message_cancellations
  selection,  \* revision_messages: revision -> selected message -> expected prior run
  revision,   \* the context each revision expects: parent run and conversation
  turn,       \* the task's runs: revision, conversation, status, whether a process of
              \* it lives, and the frozen input: message -> prior run
  bound,      \* message_bindings: message -> its runs in the order of the bindings
  backend     \* the session's conversation, 0 before the first run

vars == <<message, cancelled, selection, revision, turn, bound, backend>>

Ids == 1..MaxMessages
Payloads == UNION {[S -> 0..MaxRuns] : S \in SUBSET Ids}
Statuses == {"active", "unknown", "completed", "failed", "unstarted"}
Nothing == [m \in {} |-> 0]

TypeOK ==
  /\ message \in Seq([base : 1..MaxRevisions, backend : 0..MaxBackends])
  /\ cancelled \subseteq Ids
  /\ selection \in Seq(Payloads) /\ Len(selection) = Len(revision)
  /\ revision \in Seq([parent : 0..MaxRuns, backend : 0..MaxBackends])
  /\ turn \in Seq([rev : 1..MaxRevisions, backend : 1..MaxBackends, status : Statuses,
                   alive : BOOLEAN, input : Payloads])
  /\ bound \in [Ids -> Seq(1..MaxRuns)]
  /\ backend \in 0..MaxBackends

Init ==
  /\ message = <<>> /\ cancelled = {}
  /\ selection = <<Nothing>> /\ revision = <<[parent |-> 0, backend |-> 0]>>
  /\ turn = <<>> /\ bound = [m \in Ids |-> <<>>] /\ backend = 0

-----------------------------------------------------------------------------
(* What the code reads.                                                      *)

Current == Len(revision)
Latest == Len(turn)   \* the session's latest run, 0 if there is none
LatestActive == Latest # 0 /\ turn[Latest].status \in {"active", "unknown"}
LatestBinding(m) == IF bound[m] = <<>> THEN 0 ELSE bound[m][Len(bound[m])]
Unbound == {m \in DOMAIN message : bound[m] = <<>> /\ m \notin cancelled}
Attempts == {r \in DOMAIN turn : turn[r].rev = Current}

\* Mutant: a failure that is recorded has stopped.
FailureRecorded(r) == turn[r].status \in {"failed", "unstarted"}

\* _stopped_failure.
StoppedFailure(r) == turn[r].status \in {"failed", "unstarted"} /\ ~turn[r].alive

\* Mutant: the task is the target, whatever its conversation.
TargetTask(m) == TRUE

\* _target: the conversation the message was written for; one that was written
\* before there was any belongs to the first.
Target(m) ==
  LET first == IF turn = <<>> THEN 0 ELSE turn[1].backend
      meant == IF message[m].backend # 0 THEN message[m].backend ELSE first
  IN  backend # 0 /\ meant # 0 => backend = meant

-----------------------------------------------------------------------------
(* Operations.                                                               *)

Enqueue ==
  /\ Len(message) < MaxMessages /\ Cardinality(Unbound) < MaxUnbound
  /\ message' = Append(message, [base |-> Current, backend |-> backend])
  /\ UNCHANGED <<cancelled, selection, revision, turn, bound, backend>>

Cancel(m) ==
  /\ bound[m] = <<>>
  /\ cancelled' = cancelled \union {m}
  /\ UNCHANGED <<message, selection, revision, turn, bound, backend>>

\* select_in.
Selectable(m, redeliver) ==
  /\ Target(m) /\ m \notin cancelled
  /\ IF bound[m] # <<>> THEN redeliver /\ StoppedFailure(LatestBinding(m))
     ELSE message[m].base = Current

\* revise_in: the selection is frozen with the run each message was last bound to.
Revise(ids, redeliver) ==
  /\ Current < MaxRevisions /\ ~LatestActive
  /\ \A m \in ids : Selectable(m, redeliver)
  /\ selection' = Append(selection, [m \in ids |-> LatestBinding(m)])
  /\ revision' = Append(revision, [parent |-> Latest, backend |-> backend])
  /\ UNCHANGED <<message, cancelled, turn, bound, backend>>

\* materialize: cancelled since, or delivered since by another revision.
Deliverable(m) ==
  LET prior == selection[Current][m]
      last == LatestBinding(m)
  IN  /\ Target(m) /\ m \notin cancelled
      /\ last # 0 /\ last \notin Attempts => last = prior /\ StoppedFailure(last)
      /\ last = 0 => prior = 0

\* reserve_in and bind_in: the first run brings the first conversation.
Reserve ==
  /\ Latest < MaxRuns
  /\ LET run == Latest + 1
         used == IF backend = 0 THEN 1 ELSE backend
     IN  /\ turn' = Append(turn, [rev |-> Current, backend |-> used, status |-> "active",
                                  alive |-> TRUE, input |-> selection[Current]])
         /\ bound' = [m \in Ids |-> IF m \in DOMAIN selection[Current]
                                    THEN Append(bound[m], run) ELSE bound[m]]
         /\ backend' = used
  /\ UNCHANGED <<message, cancelled, selection, revision>>

Submit ==
  /\ Attempts = {} /\ ~LatestActive
  /\ revision[Current] = [parent |-> Latest, backend |-> backend]
  /\ \A m \in DOMAIN selection[Current] : Deliverable(m)
  /\ Reserve

\* Every attempt of the revision never started, and the input is the same again.
Retry ==
  /\ Attempts # {} /\ \A r \in Attempts : turn[r].status = "unstarted" /\ ~turn[r].alive
  /\ Latest \in Attempts /\ turn[Latest].backend = backend
  /\ \A m \in DOMAIN selection[Current] : Deliverable(m)
  /\ \A r \in Attempts : turn[r].input = selection[Current]
  /\ Reserve

\* restart-session: a new conversation once the latest run is at rest.
RestartSession ==
  /\ backend # 0 /\ backend < MaxBackends /\ ~LatestActive
  /\ backend' = backend + 1
  /\ UNCHANGED <<message, cancelled, selection, revision, turn, bound>>

-----------------------------------------------------------------------------
(* The runs (module RunLifecycle): a status is recorded by a worker that is   *)
(* still there, or by others about one that is not; a completed run whose    *)
(* result is found damaged has failed.                                       *)

RunMoves(r) ==
  /\ \/ turn[r].status \in {"active", "unknown"}
        /\ \E status \in {"completed", "failed", "unstarted"} : turn' = [turn EXCEPT ![r].status = status]
     \/ turn[r].status = "active" /\ turn' = [turn EXCEPT ![r].status = "unknown"]
     \/ turn[r].status = "completed" /\ turn' = [turn EXCEPT ![r].status = "failed"]
     \/ turn[r].status # "active" /\ turn[r].alive /\ turn' = [turn EXCEPT ![r].alive = FALSE]
  /\ UNCHANGED <<message, cancelled, selection, revision, bound, backend>>

Next ==
  \/ Enqueue \/ Submit \/ Retry \/ RestartSession
  \/ \E m \in DOMAIN message : Cancel(m)
  \/ \E ids \in SUBSET DOMAIN message, redeliver \in BOOLEAN : Revise(ids, redeliver)
  \/ \E r \in DOMAIN turn : RunMoves(r)

Spec == Init /\ [][Next]_vars

-----------------------------------------------------------------------------
(* Safety.                                                                   *)

\* Whatever is selected, cancelled, revised or retried, at most one run that may
\* have worked on a message or still does has it: all before its latest one have
\* failed and stopped.
DeliveredOnce ==
  \A m \in Ids : \A i, j \in DOMAIN bound[m] : i < j =>
    turn[bound[m][i]].status \in {"failed", "unstarted"} /\ ~turn[bound[m][i]].alive

\* What a run was told is exactly what is bound to it, with the run it follows; a
\* cancelled message is never told, and every message stays in one conversation.
DeliveryExact ==
  /\ \A r \in DOMAIN turn : DOMAIN turn[r].input = {m \in Ids : \E i \in DOMAIN bound[m] : bound[m][i] = r}
  /\ \A m \in Ids : m \in cancelled => bound[m] = <<>>
  /\ \A m \in Ids : \A i \in DOMAIN bound[m] :
       LET run == turn[bound[m][i]]
           meant == IF message[m].backend # 0 THEN message[m].backend ELSE turn[1].backend
       IN  run.backend = meant /\ message[m].base < run.rev
=============================================================================
