------------------------------- MODULE MCHost --------------------------------
(***************************************************************************)
(* The components whose models share no state: the applications of         *)
(* finished workspaces (SourceApply, whose names are used as they are),    *)
(* the harness, operator terminals, the Windows supervisor, the messages   *)
(* of one task, and the verdict on an event stream.  Since none of them    *)
(* can disturb another, a behaviour here is one of a single component.     *)
(***************************************************************************)
EXTENDS SourceApply, Sequences, FiniteSets, TLC

CONSTANTS
  t1, t2, Tasks, MaxTurns, MaxHeads, Limits,
  p1, p2, o1, o2,
  c1, r1, r2, i1, i2, Clients, Requests, Intents, MaxRequests, MaxAgents,
  Kinds, Mishaps,
  MaxMessages, MaxUnbound, MaxRevisions, MaxRuns, MaxBackends,
  MaxLines

VARIABLES
  task, clone, holder, silent, working, limit, largest, produced, passed, astray,
  file, agent, descriptor, client, lock, running, attached, launches, operated,
  kind, row, caller, pending, requests, frames, open, helper, child, ran, outcome,
  message, cancelled, selection, revision, turn, bound, backend,
  purpose, lines, parsed

H == INSTANCE Harness
T == INSTANCE Terminals
W == INSTANCE WindowsSupervisor
M == INSTANCE Messages
S == INSTANCE Stream

ASSUME HostAssumption ==
  H!HarnessAssumption /\ T!TerminalsAssumption /\ W!WindowsAssumption /\ M!MessagesAssumption
  /\ S!StreamAssumption

harness == <<task, clone, holder, silent, working, limit, largest, produced, passed, astray>>
terminals == <<file, agent, descriptor, client, lock, running, attached, launches, operated>>
supervisor == <<kind, row, caller, pending, requests, frames, open, helper, child, ran, outcome>>
messages == <<message, cancelled, selection, revision, turn, bound, backend>>
stream == <<purpose, lines, parsed>>
host == <<vars, harness, terminals, supervisor, messages, stream>>

HostInit == Init /\ H!Init /\ T!Init /\ W!Init /\ M!Init /\ S!Init

NoHarness == H!Init /\ limit = 1
NoStream == S!Init /\ purpose = "run"

\* One component runs while the others have not begun.
SourceRuns ==
  /\ NoHarness /\ T!Init /\ W!Init /\ M!Init /\ NoStream
  /\ Next /\ UNCHANGED <<harness, terminals, supervisor, messages, stream>>
HarnessRuns ==
  /\ Init /\ T!Init /\ W!Init /\ M!Init /\ NoStream
  /\ H!Next /\ UNCHANGED <<vars, terminals, supervisor, messages, stream>>
TerminalsRun ==
  /\ Init /\ NoHarness /\ W!Init /\ M!Init /\ NoStream
  /\ T!Next /\ UNCHANGED <<vars, harness, supervisor, messages, stream>>
Alone == UNCHANGED <<vars, harness, terminals, messages, stream>>
SupervisorRuns ==
  /\ Init /\ NoHarness /\ T!Init /\ M!Init /\ NoStream
  /\ W!Next /\ Alone
MessagesMove ==
  /\ Init /\ NoHarness /\ T!Init /\ W!Init /\ NoStream
  /\ M!Next /\ UNCHANGED <<vars, harness, terminals, supervisor, stream>>
StreamMoves ==
  /\ Init /\ NoHarness /\ T!Init /\ W!Init /\ M!Init
  /\ S!Next /\ UNCHANGED <<vars, harness, terminals, supervisor, messages>>

HostNext ==
  \/ SourceRuns \/ HarnessRuns \/ TerminalsRun \/ SupervisorRuns \/ MessagesMove
  \/ StreamMoves

HostSpec ==
  /\ HostInit /\ [][HostNext]_host
  /\ WF_host(W!ClientSteps /\ kind # "none" /\ Alone)
  /\ WF_host(W!SendStop /\ Alone)
  /\ WF_host((W!HelperServes \/ W!HelperReports) /\ Alone)
  /\ WF_host(~open /\ W!HelperGoes /\ Alone)

TurnsHeld == H!TurnsHeld
ApprovedExact == H!ApprovedExact
TerminalsOwned == T!TerminalsOwned
ReportHolds == W!ReportHolds
DeliveredOnce == M!DeliveredOnce
DeliveryExact == M!DeliveryExact
VerdictExact == S!VerdictExact
SupervisionEnds == W!SupervisionEnds
=============================================================================
