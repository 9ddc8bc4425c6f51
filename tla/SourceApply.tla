----------------------------- MODULE SourceApply -----------------------------
(***************************************************************************)
(* workspace apply (workspace.py) and terminal shell (terminal_cli.py) of   *)
(* one source repository: an intact frozen patch is put once into the       *)
(* clean source tree at its base commit, or nobody knows.                   *)
(*                                                                          *)
(* Appliers, the shell command and their children are processes; the lease  *)
(* of the project is a lock that the system releases when its process dies, *)
(* whether or not the process left a child behind.                          *)
(***************************************************************************)
EXTENDS Integers

CONSTANTS
  Appliers,   \* processes that run "workspace apply"
  OpIds,      \* operation ids they are given
  MaxEdits,   \* bound: changes of the user to the source
  Accidents   \* what may happen besides

ASSUME SourceApplyAssumption ==
  /\ MaxEdits \in Nat
  /\ "none" \notin Appliers /\ "shell" \notin Appliers /\ "none" \notin OpIds
  /\ Accidents \subseteq {"crash", "orphan", "editor"}

VARIABLES
  application,  \* the row of "workspace_applications" and its operation id
  head,         \* the source is at the base commit
  work,         \* its files: as committed, edited, with the patch or a part of it
  applier,      \* [Appliers -> pc and operation id]
  git,          \* the child "git apply": the applier that started it, if it runs
  lease,        \* who holds the project's lease
  shell,        \* the operator's shell: closed, open, open in a directory of the
                \* repository (another project, another lease), or an orphan
  applies,      \* history: how often git apply was started
  edits,        \* history: changes of the user
  outside       \* history: one was not made in a shell under the lease

vars == <<application, head, work, applier, git, lease, shell, applies, edits, outside>>

NoApplication == [state |-> "none", op |-> "none"]
Away == [pc |-> "away", op |-> "none"]

TypeOK ==
  /\ application \in [state : {"none", "applying", "applied", "unknown"}, op : OpIds \union {"none"}]
  /\ head \in {"base", "moved"}
  /\ work \in {"clean", "edited", "partial", "patched", "mixed"}
  /\ applier \in [Appliers -> [pc : {"away", "read", "leased", "checked", "intent", "git",
                                     "verify", "good", "bad"},
                               op : OpIds \union {"none"}]]
  /\ git \in Appliers \union {"none"}
  /\ lease \in Appliers \union {"none", "shell"}
  /\ shell \in {"closed", "open", "inner", "orphan"}
  /\ applies \in Nat /\ edits \in 0..MaxEdits /\ outside \in BOOLEAN

Init ==
  /\ application = NoApplication
  /\ head = "base" /\ work = "clean"
  /\ applier = [a \in Appliers |-> Away]
  /\ git = "none" /\ lease = "none" /\ shell = "closed"
  /\ applies = 0 /\ edits = 0 /\ outside = FALSE

Moves(a, from, to) == applier[a].pc = from /\ applier' = [applier EXCEPT ![a].pc = to]
Returns(a) == applier' = [applier EXCEPT ![a] = Away]
Release(a) == lease' = IF lease = a THEN "none" ELSE lease

-----------------------------------------------------------------------------
(* apply.                                                                    *)

\* The frozen result is intact (export), neither the operation nor an attempt
\* is recorded; otherwise the prior answer is returned or the request refused.
Ask(a, op) ==
  /\ applier[a] = Away
  /\ application = NoApplication
  /\ applier' = [applier EXCEPT ![a] = [pc |-> "read", op |-> op]]
  /\ UNCHANGED <<application, head, work, git, lease, shell, applies, edits, outside>>

\* Mutant: the lease of the shell is another one.
AcquireBesideShell(a) ==
  /\ applier[a].pc = "read"
  /\ IF lease \in {"none", "shell"} THEN lease' = a /\ Moves(a, "read", "leased")
     ELSE Returns(a) /\ UNCHANGED lease
  /\ UNCHANGED <<application, head, work, git, shell, applies, edits, outside>>

\* The lease is not waited for.
Acquire(a) ==
  /\ applier[a].pc = "read"
  /\ IF lease = "none" THEN lease' = a /\ Moves(a, "read", "leased")
     ELSE Returns(a) /\ UNCHANGED lease
  /\ UNCHANGED <<application, head, work, git, shell, applies, edits, outside>>

\* HEAD, status and git apply --check.
Preflight(a) ==
  /\ applier[a].pc = "leased"
  /\ IF head = "base" /\ work = "clean" THEN Moves(a, "leased", "checked") /\ UNCHANGED lease
     ELSE Returns(a) /\ Release(a)
  /\ UNCHANGED <<application, head, work, git, shell, applies, edits, outside>>

\* Mutant: the row of a workspace is replaced.
RecordIntentAgain(a) ==
  /\ applier[a].pc = "checked"
  /\ application' = [state |-> "applying", op |-> applier[a].op]
  /\ Moves(a, "checked", "intent")
  /\ UNCHANGED <<head, work, git, lease, shell, applies, edits, outside>>

\* The intent precedes any change of the source; a workspace has one row.
RecordIntent(a) ==
  /\ applier[a].pc = "checked"
  /\ IF application = NoApplication
     THEN /\ application' = [state |-> "applying", op |-> applier[a].op]
          /\ Moves(a, "checked", "intent") /\ UNCHANGED lease
     ELSE Returns(a) /\ Release(a) /\ UNCHANGED application
  /\ UNCHANGED <<head, work, git, shell, applies, edits, outside>>

GitStarts(a) ==
  /\ Moves(a, "intent", "git")
  /\ git = "none" /\ git' = a /\ applies' = applies + 1
  /\ UNCHANGED <<application, head, work, lease, shell, edits, outside>>

\* External: git apply writes file after file.
GitWrites ==
  /\ git # "none"
  /\ work' = CASE work = "clean" -> "partial" [] work = "partial" -> "patched"
               [] work \in {"edited", "mixed"} -> "mixed" [] work = "patched" -> "patched"
  /\ work' # work
  /\ UNCHANGED <<application, head, applier, git, lease, shell, applies, edits, outside>>

\* It is done, or it fails or is killed after its timeout by the applier, whatever it
\* has written by then.
GitEnds(a) ==
  /\ git = a /\ git' = "none"
  /\ \/ (applier[a].pc = "git" => work = "patched") /\ UNCHANGED applier
     \/ Moves(a, "git", "bad")
  /\ UNCHANGED <<application, head, work, lease, shell, applies, edits, outside>>

\* _verify_applied_source, after git said that it succeeded.
Verify(a) ==
  /\ applier[a].pc = "git" /\ git # a
  /\ applier' = [applier EXCEPT ![a].pc = IF head = "base" /\ work = "patched" THEN "good" ELSE "bad"]
  /\ UNCHANGED <<application, head, work, git, lease, shell, applies, edits, outside>>

\* The result of an attempt that is still the recorded one.
RecordResult(a) ==
  /\ applier[a].pc \in {"good", "bad"}
  /\ application' = IF application.state # "applying" THEN application
                    ELSE [application EXCEPT !.state = IF applier[a].pc = "good" THEN "applied"
                                                       ELSE "unknown"]
  /\ Returns(a) /\ Release(a)
  /\ UNCHANGED <<head, work, git, shell, applies, edits, outside>>

-----------------------------------------------------------------------------
(* The shell, the user and accidents.                                        *)

\* The lease is that of the directory the shell is opened in.
OpenShell(place) ==
  /\ shell = "closed" /\ shell' = place
  /\ \/ place = "open" /\ lease = "none" /\ lease' = "shell"
     \/ place = "inner" /\ UNCHANGED lease
  /\ UNCHANGED <<application, head, work, applier, git, applies, edits, outside>>

CloseShell ==
  /\ shell # "closed" /\ shell' = "closed"
  /\ lease' = IF shell = "open" THEN "none" ELSE lease
  /\ UNCHANGED <<application, head, work, applier, git, applies, edits, outside>>

\* The user changes files, takes changes back, or commits.
Edit(where) ==
  /\ edits < MaxEdits /\ edits' = edits + 1
  /\ \/ where = "shell" /\ shell = "open" /\ UNCHANGED outside
     \/ where = "shell" /\ shell \in {"inner", "orphan"} /\ outside' = TRUE
     \/ where = "editor" /\ "editor" \in Accidents /\ outside' = TRUE
  /\ \/ work' = (IF work \in {"clean", "edited"} THEN "edited" ELSE "mixed") /\ UNCHANGED head
     \/ work' = "clean" /\ UNCHANGED head
     \/ work' = "clean" /\ head' = "moved"
  /\ UNCHANGED <<application, applier, git, lease, shell, applies>>

\* The command dies; its shell does not.
OrphanShell ==
  /\ "orphan" \in Accidents /\ shell = "open" /\ shell' = "orphan"
  /\ lease' = "none"
  /\ UNCHANGED <<application, head, work, applier, git, applies, edits, outside>>

\* An applier dies; its git does not.
Crash(a) ==
  /\ "crash" \in Accidents /\ applier[a] # Away
  /\ Returns(a) /\ Release(a)
  /\ outside' = (outside \/ git = a)
  /\ UNCHANGED <<application, head, work, git, shell, applies, edits>>

ApplierSteps(a) ==
  \/ \E op \in OpIds : Ask(a, op)
  \/ Acquire(a) \/ Preflight(a) \/ RecordIntent(a) \/ GitStarts(a) \/ Verify(a) \/ RecordResult(a)

Next ==
  \/ \E a \in Appliers : ApplierSteps(a) \/ GitEnds(a) \/ Crash(a)
  \/ GitWrites \/ CloseShell \/ OrphanShell
  \/ \E place \in {"open", "inner"} : OpenShell(place)
  \/ \E where \in {"shell", "editor"} : Edit(where)

Spec == Init /\ [][Next]_vars

-----------------------------------------------------------------------------
(* Safety.                                                                   *)

\* Git is let loose on the source at most once, and only under a durable intent
\* that no later attempt gets past; who died in it has not applied.
AppliedOnce ==
  /\ applies <= 1
  /\ applies = 1 => application # NoApplication
  /\ git # "none" => application.state = "applying"

\* What the shell and the appliers do under the lease does not mix: from the
\* look at the clean tree to the end of git nobody but git changes the source,
\* and a recorded "applied" is of the base commit with exactly the patch.
LeaseProtects ==
  outside \/ \A a \in Appliers :
    /\ applier[a].pc \in {"checked", "intent"} => head = "base" /\ work = "clean"
    /\ applier[a].pc \in {"git", "good"} => head = "base" /\ work \in {"clean", "partial", "patched"}
    /\ applier[a].pc = "good" => work = "patched"
=============================================================================
