-------------------------- MODULE ExecutionSlots --------------------------
(***************************************************************************)
(* What the controller promises about execution, without processes, rows   *)
(* or failures: a session executes only while it holds a slot, a slot is   *)
(* acquired only within the limit in force, and it is given back only when *)
(* the execution that used it is over.  RunLifecycle implements it.        *)
(***************************************************************************)
EXTENDS Integers, FiniteSets

CONSTANTS Sessions,  \* holders: one turn of a session at a time
          MaxLimit   \* bound: largest limit configured

VARIABLES holders,   \* sessions that hold a slot
          executing, \* sessions with a live execution
          commands,  \* slots held by workspace commands
          limit      \* the limit in force

slots == <<holders, executing, commands, limit>>

Init ==
  /\ holders = {} /\ executing = {} /\ commands = 0
  /\ limit \in 1..MaxLimit

InUse == commands + Cardinality(holders)

\* Take one slot, for a turn or for a command.
Acquire ==
  /\ InUse < limit
  /\ \/ \E s \in Sessions \ holders : holders' = holders \union {s} /\ UNCHANGED commands
     \/ commands' = commands + 1 /\ UNCHANGED holders
  /\ UNCHANGED <<executing, limit>>

\* A turn of a holder starts to execute.
Begin ==
  /\ \E s \in holders \ executing : executing' = executing \union {s}
  /\ UNCHANGED <<holders, commands, limit>>

\* Executions end; one crash may end several.
End ==
  /\ executing' \in SUBSET executing
  /\ UNCHANGED <<holders, commands, limit>>

\* Slots are given back, never that of a live execution.  An exception
\* handler ends the execution and gives its slot back in one step.
Release ==
  /\ holders' \in SUBSET holders
  /\ executing' \in SUBSET (executing \intersect holders')
  /\ UNCHANGED <<commands, limit>>

ReleaseCommand ==
  /\ commands > 0 /\ commands' = commands - 1
  /\ UNCHANGED <<holders, executing, limit>>

Resize ==
  /\ limit' \in 1..MaxLimit
  /\ UNCHANGED <<holders, executing, commands>>

Next == Acquire \/ Begin \/ End \/ Release \/ ReleaseCommand \/ Resize

Spec == Init /\ [][Next]_slots
=============================================================================
