---------------------------- MODULE MCTaskQueue ----------------------------
(***************************************************************************)
(* Values of TaskQueue's constants for TLC; no definition tells tasks      *)
(* apart.  A run explores one or two scenarios, each a smaller instance.   *)
(***************************************************************************)
EXTENDS TaskQueue, TLC

CONSTANTS t1, t2, t3, Scenarios

VARIABLE scenario

Symmetry == Permutations(Tasks)

ScenarioInit == Init /\ scenario \in Scenarios

\* Turns without a queue, with intact results.
OfTurns ==
  /\ nentry' = 0
  /\ \A r \in Runs : run[r].status = "completed" => run'[r] = run[r]

\* One turn less, but a queue: no session is shared or restarted.
OfEntries ==
  /\ nrun' < MaxRuns
  /\ \A r \in 1..nrun' : run'[r].backend = run'[r].session
  /\ \A t, u \in Tasks : t # u => task'[t].session = 0 \/ task'[t].session # task'[u].session

ScenarioNext ==
  /\ Next /\ UNCHANGED scenario
  /\ CASE scenario = "turns" -> OfTurns
       [] scenario = "entries" -> OfEntries
       [] scenario = "all" -> TRUE

ScenarioSpec == ScenarioInit /\ [][ScenarioNext]_<<vars, scenario>>
FairScenarios == ScenarioSpec /\ Fairness
=============================================================================
