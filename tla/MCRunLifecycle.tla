-------------------------- MODULE MCRunLifecycle --------------------------
(***************************************************************************)
(* Values of RunLifecycle's constants for TLC, the symmetry of sessions    *)
(* and of PID namespaces, which no definition tells apart, and a           *)
(* constraint that explores two kinds of behaviours of one instance.       *)
(***************************************************************************)
EXTENDS RunLifecycle, TLC

CONSTANTS s1, s2, host1, container1

Symmetry == Permutations(Sessions) \union Permutations(Namespaces)

\* Two sessions and a command in one namespace, one boot and without leftovers.
Competing ==
  /\ boot = 1 /\ binary = 1
  /\ \A r \in Runs : group[r] # "residue"
  /\ \A q, r \in Runs : {row[q].ns, row[r].ns} # Namespaces

\* One session by itself, wherever its workers and clients are.
Alone ==
  /\ limit = 1 /\ commands = 0
  /\ \A q, r \in Runs : {row[q].session, row[r].session} # Sessions

CompetingOrAlone == Competing \/ Alone
=============================================================================
