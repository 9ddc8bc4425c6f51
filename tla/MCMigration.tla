----------------------------- MODULE MCMigration -----------------------------
(***************************************************************************)
(* Values of Migration's constants for TLC, and three scenarios: in the    *)
(* "present" one all clients know the lock and none relinks the store, as  *)
(* the theorems on resumption assume; in the "mixed" one they do what      *)
(* Activities says, and the store is upgraded by one schema less; in the   *)
(* "observed" one nothing happens but what module Observation says of the  *)
(* ledger that two of the steps begin.                                     *)
(***************************************************************************)
EXTENDS Migration, TLC

CONSTANTS c1, c2, w, r, o, Flows, Runs, Operations, PageSize, MaxEvents

VARIABLES scenario, schema, db, ledger, past, reader

O == INSTANCE Observation
observation == <<schema, db, ledger, past, reader>>

ASSUME LedgerAssumption == O!ObservationAssumption

ScenarioInit == Init /\ O!Init /\ scenario \in {"present", "mixed", "observed"}

ByPresentClients ==
  /\ config'.launcher = config.launcher /\ installed' = installed
  /\ database'.work # database.work =>
       \E c \in Clients, active \in BOOLEAN : Write(c, active)

ScenarioNext ==
  /\ UNCHANGED scenario
  /\ CASE scenario = "present" -> Next /\ ByPresentClients /\ UNCHANGED observation
       [] scenario = "mixed" -> Next /\ target' < VERSION /\ UNCHANGED observation
       [] scenario = "observed" -> O!Next /\ UNCHANGED vars

ScenarioSpec ==
  /\ ScenarioInit /\ [][ScenarioNext]_<<vars, scenario, observation>>
  /\ Fairness

CompletesAtPresent == scenario = "present" => MigrationCompletes
ReplayExact == O!ReplayExact
=============================================================================
