------------------------------ MODULE Terminals ------------------------------
(***************************************************************************)
(* Operator terminals (terminal_cli.py): background agents that Claude's    *)
(* own runtime creates and keeps.  A request is written before its launch   *)
(* under a name nobody else has; whatever is lost after that, the same      *)
(* request adopts the agent of that name and never launches another.        *)
(*                                                                          *)
(* Clients are processes; registry.lock is released when its client dies.   *)
(***************************************************************************)
EXTENDS Integers, Sequences, FiniteSets

CONSTANTS
  Clients,      \* processes that run "terminal start", "attach" or "stop"
  Requests,     \* request ids
  Intents,      \* what is asked for: name, role, project, model, effort
  MaxRequests,  \* the bound of the registry
  MaxAgents     \* bound: agents of Claude's runtime

TerminalsAssumption ==
  /\ MaxRequests \in Nat /\ MaxAgents \in Nat
  /\ "none" \notin Clients /\ "none" \notin Intents /\ "foreign" \notin Requests

VARIABLES
  file,        \* request-*.json
  agent,       \* agents of the runtime in the order of their creation
  descriptor,  \* session-*.json: agent -> the request and intent it is kept for
  client,      \* the processes and their locals
  lock,        \* the holder of registry.lock
  running,     \* requests whose "claude --bg" is at work
  attached,    \* agent -> the client that holds its operator lease, if any
  launches,    \* history: how often a request was launched
  operated     \* history: agents that were attached to or stopped

vars == <<file, agent, descriptor, client, lock, running, attached, launches, operated>>

Ids == 1..MaxAgents
NoFile == [status |-> "none", intent |-> "none", id |-> 0]
NoDescriptor == [request |-> "none", intent |-> "none"]
Away == [pc |-> "away", request |-> "none", intent |-> "none", id |-> 0]

TypeOK ==
  /\ file \in [Requests -> [status : {"none", "starting", "launch_failed", "unknown", "started"},
                            intent : Intents \union {"none"}, id : 0..MaxAgents]]
  /\ agent \in Seq([of : Requests \union {"foreign"}, status : {"hidden", "listed", "ended"}])
  /\ Len(agent) <= MaxAgents
  /\ descriptor \in [Ids -> [request : Requests \union {"none"}, intent : Intents \union {"none"}]]
  /\ client \in [Clients -> [pc : {"away", "locked", "launch", "wait", "look", "adopt", "found",
                                   "described"},
                             request : Requests \union {"none"}, intent : Intents \union {"none"},
                             id : 0..MaxAgents]]
  /\ lock \in Clients \union {"none"}
  /\ running \subseteq Requests
  /\ attached \in [Ids -> Clients \union {"none"}]
  /\ launches \in [Requests -> Nat]
  /\ operated \subseteq Ids

Init ==
  /\ file = [r \in Requests |-> NoFile]
  /\ agent = <<>>
  /\ descriptor = [i \in Ids |-> NoDescriptor]
  /\ client = [c \in Clients |-> Away]
  /\ lock = "none" /\ running = {}
  /\ attached = [i \in Ids |-> "none"]
  /\ launches = [r \in Requests |-> 0] /\ operated = {}

Request(c) == client[c].request
Goes(c, pc) == client' = [client EXCEPT ![c].pc = pc]
Leaves(c) == client' = [client EXCEPT ![c] = Away] /\ lock' = "none"
FileOf(c) == file[Request(c)]
Known(status) == {r \in Requests : file[r].status = status}

\* agents and _normalize_agent: what the catalogue lists, and what may be attached.
Listed(i) == i \in DOMAIN agent /\ agent[i].status # "hidden"
Attachable(i) == i \in DOMAIN agent /\ agent[i].status = "listed"
Managed(i) == descriptor[i] # NoDescriptor

-----------------------------------------------------------------------------
(* start.                                                                    *)

Start(c, r, intent) ==
  /\ client[c] = Away /\ lock = "none"
  /\ lock' = c
  /\ client' = [client EXCEPT ![c] = [pc |-> "locked", request |-> r, intent |-> intent, id |-> 0]]
  /\ UNCHANGED <<file, agent, descriptor, running, attached, launches, operated>>

\* Mutant: a launch that was not seen to succeed is made again.
WriteRequestAgain(c) ==
  /\ client[c].pc = "locked"
  /\ FileOf(c).status # "started"
  /\ file' = [file EXCEPT ![Request(c)] =
                [status |-> "starting", intent |-> client[c].intent, id |-> 0]]
  /\ Goes(c, "launch")
  /\ UNCHANGED <<agent, descriptor, lock, running, attached, launches, operated>>

\* The intent of a launch is on disk before the launch.
WriteRequest(c) ==
  /\ client[c].pc = "locked"
  /\ FileOf(c) = NoFile /\ Cardinality(Requests \ Known("none")) < MaxRequests
  /\ file' = [file EXCEPT ![Request(c)] =
                [status |-> "starting", intent |-> client[c].intent, id |-> 0]]
  /\ Goes(c, "launch")
  /\ UNCHANGED <<agent, descriptor, lock, running, attached, launches, operated>>

\* request_conflict or terminal_registry_full.
Refuse(c) ==
  /\ client[c].pc = "locked"
  /\ IF FileOf(c) = NoFile THEN Cardinality(Requests \ Known("none")) >= MaxRequests
     ELSE FileOf(c).intent # client[c].intent
  /\ Leaves(c)
  /\ UNCHANGED <<file, agent, descriptor, running, attached, launches, operated>>

Launch(c) ==
  /\ client[c].pc = "launch" /\ Goes(c, "wait")
  /\ running' = running \union {Request(c)}
  /\ launches' = [launches EXCEPT ![Request(c)] = @ + 1]
  /\ UNCHANGED <<file, agent, descriptor, lock, attached, operated>>

\* claude --bg answered: with the id of its agent, with no id, or with an error.
LaunchAnswered(c) ==
  /\ client[c].pc = "wait" /\ Request(c) \notin running
  /\ \/ \E i \in DOMAIN agent :
          /\ agent[i].of = Request(c)
          /\ client' = [client EXCEPT ![c].pc = "look", ![c].id = i]
     \/ Goes(c, "look")
  /\ UNCHANGED <<file, agent, descriptor, lock, running, attached, launches, operated>>

LaunchFails(c) ==
  /\ client[c].pc = "wait"
  /\ file' = [file EXCEPT ![Request(c)].status = "launch_failed"]
  /\ Leaves(c)
  /\ UNCHANGED <<agent, descriptor, running, attached, launches, operated>>

\* The agent with the id that was answered, or the one of the request's name.
Look(c) ==
  /\ client[c].pc = "look"
  /\ \E i \in DOMAIN agent :
       /\ IF client[c].id # 0 THEN i = client[c].id /\ Listed(i)
          ELSE agent[i].of = Request(c) /\ Attachable(i)
       /\ client' = [client EXCEPT ![c].pc = "found", ![c].id = i]
  /\ UNCHANGED <<file, agent, descriptor, lock, running, attached, launches, operated>>

\* Twenty looks were in vain.
GiveUp(c) ==
  /\ client[c].pc = "look"
  /\ file' = [file EXCEPT ![Request(c)].status = "unknown"]
  /\ Leaves(c)
  /\ UNCHANGED <<agent, descriptor, running, attached, launches, operated>>

\* A request that is known: its recorded agent, or the one of its name.
Adopt(c) ==
  /\ client[c].pc = "locked"
  /\ FileOf(c) # NoFile /\ FileOf(c).intent = client[c].intent
  /\ LET recorded == {i \in Ids : FileOf(c).id = i /\ Listed(i)}
         named == {i \in DOMAIN agent : agent[i].of = Request(c) /\ Attachable(i)}
         candidates == IF recorded # {} THEN recorded ELSE named
     IN  IF Cardinality(candidates) = 1
         THEN \E i \in candidates :
                /\ client' = [client EXCEPT ![c].pc = "found", ![c].id = i]
                /\ UNCHANGED lock
         ELSE Leaves(c)
  /\ UNCHANGED <<file, agent, descriptor, running, attached, launches, operated>>

WriteDescriptor(c) ==
  /\ client[c].pc = "found" /\ Goes(c, "described")
  /\ descriptor' = [descriptor EXCEPT ![client[c].id] =
                      [request |-> Request(c), intent |-> client[c].intent]]
  /\ UNCHANGED <<file, agent, lock, running, attached, launches, operated>>

WriteStarted(c) ==
  /\ client[c].pc = "described"
  /\ file' = [file EXCEPT ![Request(c)].status = "started", ![Request(c)].id = client[c].id]
  /\ Leaves(c)
  /\ UNCHANGED <<agent, descriptor, running, attached, launches, operated>>

\* A timeout, an error of the catalogue, or the client dies.
Dies(c) ==
  /\ client[c] # Away
  /\ client' = [client EXCEPT ![c] = Away]
  /\ lock' = IF lock = c THEN "none" ELSE lock
  /\ UNCHANGED <<file, agent, descriptor, running, attached, launches, operated>>

-----------------------------------------------------------------------------
(* attach and stop, of managed terminals only.                               *)

Attach(c, i) ==
  /\ client[c] = Away /\ \A j \in Ids : attached[j] # c
  /\ Managed(i) /\ Attachable(i) /\ attached[i] = "none"
  /\ attached' = [attached EXCEPT ![i] = c]
  /\ operated' = operated \union {i}
  /\ UNCHANGED <<file, agent, descriptor, client, lock, running, launches>>

Detach(i) ==
  /\ attached[i] # "none" /\ attached' = [attached EXCEPT ![i] = "none"]
  /\ UNCHANGED <<file, agent, descriptor, client, lock, running, launches, operated>>

Stop(i) ==
  /\ Managed(i) /\ Listed(i)
  /\ agent' = [agent EXCEPT ![i].status = "ended"]
  /\ operated' = operated \union {i}
  /\ UNCHANGED <<file, descriptor, client, lock, running, attached, launches>>

-----------------------------------------------------------------------------
(* External: Claude's background runtime and its other users.                *)

\* A launch at work creates its agent, if it does, and ends.
RuntimeLaunches(r) ==
  /\ r \in running /\ running' = running \ {r}
  /\ \/ UNCHANGED agent
     \/ /\ Len(agent) < MaxAgents
        /\ agent' = Append(agent, [of |-> r, status |-> "hidden"])
  /\ UNCHANGED <<file, descriptor, client, lock, attached, launches, operated>>

RuntimeMoves(i) ==
  /\ i \in DOMAIN agent
  /\ \/ agent[i].status = "hidden" /\ agent' = [agent EXCEPT ![i].status = "listed"]
     \/ agent[i].status = "listed" /\ agent' = [agent EXCEPT ![i].status = "ended"]
  /\ UNCHANGED <<file, descriptor, client, lock, running, attached, launches, operated>>

ForeignAgent ==
  /\ Len(agent) < MaxAgents
  /\ agent' = Append(agent, [of |-> "foreign", status |-> "listed"])
  /\ UNCHANGED <<file, descriptor, client, lock, running, attached, launches, operated>>

StartSteps(c) ==
  \/ WriteRequest(c) \/ Refuse(c) \/ Launch(c) \/ LaunchAnswered(c) \/ LaunchFails(c)
  \/ Look(c) \/ GiveUp(c) \/ Adopt(c) \/ WriteDescriptor(c) \/ WriteStarted(c) \/ Dies(c)

Next ==
  \/ \E c \in Clients : StartSteps(c) \/ \E i \in Ids : Attach(c, i)
  \/ \E c \in Clients, r \in Requests, intent \in Intents : Start(c, r, intent)
  \/ \E i \in Ids : Detach(i) \/ Stop(i) \/ RuntimeMoves(i)
  \/ \E r \in Requests : RuntimeLaunches(r)
  \/ ForeignAgent

Spec == Init /\ [][Next]_vars

-----------------------------------------------------------------------------
(* Safety.                                                                   *)

\* Whatever is lost, a request is launched once; and what the controller calls
\* its terminal, attaches to or stops is the agent of that launch, kept for the
\* very intent of its request.
TerminalsOwned ==
  /\ \A r \in Requests : launches[r] <= 1
  /\ \A i \in Ids : Managed(i) =>
       /\ i \in DOMAIN agent /\ agent[i].of = descriptor[i].request
       /\ file[descriptor[i].request].intent = descriptor[i].intent
  /\ \A i \in operated : agent[i].of # "foreign"
=============================================================================
