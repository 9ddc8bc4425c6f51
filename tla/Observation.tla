----------------------------- MODULE Observation ------------------------------
(***************************************************************************)
(* The observation ledger (schema.py, observation.py): triggers append an  *)
(* event in the transaction of the change that caused it, two migrations   *)
(* begin it in the middle of a store's life, and readers select it page by *)
(* page, without a transaction around the pages, and fold each page row by *)
(* row, while others write.                                                *)
(*                                                                          *)
(* A run stands for the nodes whose one projected column is watched, a     *)
(* workflow for those with several, the edge of a run's reservation for    *)
(* the nine kinds of edges.  A transaction that is rolled back takes its   *)
(* events along and is no step here.                                       *)
(***************************************************************************)
EXTENDS Integers, Sequences, SequencesExt

CONSTANTS
  Flows, Runs, Operations,  \* identities, by kind
  PageSize,   \* PAGE, and the limit of a caller of events
  MaxEvents   \* bound: events in the ledger

ObservationAssumption == PageSize \in Nat \ {0} /\ MaxEvents \in Nat

VARIABLES
  schema,  \* 13, 14 or 15
  db,      \* the projected columns of the rows, edges and telemetry
  ledger,  \* observation_events in the order of the cursor
  past,    \* history: what was there, and is projected, when each was appended
  reader   \* a replay or a caller of events: pc, bound, cursor, rows of the page still
           \* to be folded, where it goes after them, what is folded

vars == <<schema, db, ledger, past, reader>>

Nodes == Flows \union Runs \union Operations
Kind(n) == IF n \in Flows THEN "workflow" ELSE IF n \in Runs THEN "run" ELSE "operation"
States == {"none", "open", "closed"}
Absent == [state |-> "none", phase |-> 1, reserved |-> FALSE]
Empty == [x \in {} |-> Absent]
Unread == [seen |-> FALSE, error |-> FALSE, fidelity |-> "none", groups |-> {},
           nodes |-> Empty, edges |-> {}, usage |-> {}]
Idle == [pc |-> "idle", bound |-> 0, cursor |-> 0, rows |-> <<>>, next |-> "idle",
         view |-> Unread]

Init ==
  /\ schema = 13
  /\ db = [row |-> [n \in Nodes |-> Absent], edges |-> {}, usage |-> {}]
  /\ ledger = <<>> /\ past = <<>> /\ reader = Idle

-----------------------------------------------------------------------------
(* Triggers.                                                                 *)

Present(d) == {n \in Nodes : d.row[n].state # "none"}

\* What is projected of a store whose operations are followed, as far as they are.
Projection(d, operations) ==
  [nodes |-> [n \in {x \in Present(d) : x \in Operations => x \in operations} |-> d.row[n]],
   edges |-> d.edges, usage |-> d.usage]

\* Mutant: the condition watches the state alone.
WatchedState(row) == <<row.state>>

\* The columns in the condition of observation_*_state.
Watched(row) == <<row.state, row.phase>>

Followed(n) == n \in Operations => schema >= 15
Event(kind, id, body) == [kind |-> kind, id |-> id, body |-> body]

\* The event of a change of one row.
NodeEvents(old, new) ==
  LET created == {n \in Present(new) \ Present(old) : Followed(n)}
      moved == {n \in Present(old) : Followed(n) /\ Watched(old.row[n]) # Watched(new.row[n])}
  IN  SetToSeq({Event("node_created", n, new.row[n]) : n \in created}
               \union {Event("node_state", n, new.row[n]) : n \in moved})

EdgeEvents(old, new) ==
  SetToSeq({Event("edge_created", e, Absent) : e \in new.edges \ old.edges})

Triggered(old, new) ==
  NodeEvents(old, new) \o EdgeEvents(old, new)
    \o SetToSeq({Event("run_telemetry", r, Absent) : r \in new.usage \ old.usage})

\* What a transaction has done to the tables so far, and one more statement of it.
Begun == [db |-> db, ledger |-> ledger, past |-> past]
Statement(log, new) ==
  LET events == IF schema < 14 THEN <<>> ELSE Triggered(log.db, new)
      shown == Projection(new, IF schema = 15 THEN Operations ELSE {})
  IN  [db |-> new, ledger |-> log.ledger \o events,
       past |-> log.past \o [i \in DOMAIN events |-> shown]]

Commit(log) ==
  /\ Len(log.ledger) <= MaxEvents
  /\ db' = log.db /\ ledger' = log.ledger /\ past' = log.past
  /\ UNCHANGED <<schema, reader>>

-----------------------------------------------------------------------------
(* External: the transactions of the controller.                             *)

With(d, n, state) == [d EXCEPT !.row[n].state = state]
State(n) == db.row[n].state

CreateNode(n) ==
  n \notin Runs /\ State(n) = "none" /\ Commit(Statement(Begun, With(db, n, "open")))

\* A revision's run is reserved: the run, its edge, and the workflow's window.
ReserveRun(w, r) ==
  /\ State(w) = "open" /\ State(r) = "none"
  /\ LET run == With(db, r, "open")
         edge == [run EXCEPT !.edges = @ \union {<<w, r>>}]
         window == [edge EXCEPT !.row[w].reserved = TRUE]
     IN  Commit(Statement(Statement(Statement(Begun, run), edge), window))

\* The phase, or the state and its reason.
MoveFlow(w) ==
  /\ State(w) # "none"
  /\ \/ Commit(Statement(Begun, [db EXCEPT !.row[w].phase = 3 - @]))
     \/ State(w) = "open" /\ Commit(Statement(Begun, With(db, w, "closed")))

\* The worker's last transaction: status and telemetry.
FinishRun(r) ==
  /\ State(r) = "open"
  /\ LET ended == With(db, r, "closed")
         metered == [ended EXCEPT !.usage = @ \union {r}]
     IN  Commit(Statement(Statement(Begun, ended), metered))

Settle(o) == State(o) = "open" /\ Commit(Statement(Begun, With(db, o, "closed")))

-----------------------------------------------------------------------------
(* Migrations.                                                               *)

\* One event summarises what is there; ledgers of an early build had no group for
\* operations.
AddObservation ==
  /\ schema = 13 /\ schema' = 14 /\ UNCHANGED <<db, reader>>
  /\ LET shown == Projection(db, {})
     IN  /\ past' = <<shown>>
         /\ \E groups \in {{"workflow", "run"}, {"workflow", "run", "operation"}} :
              ledger' = <<Event("baseline", "store", [groups |-> groups, shown |-> shown])>>

\* A summary of every operation there has been.
AddOperations ==
  /\ schema = 14 /\ schema' = 15 /\ UNCHANGED <<db, reader>>
  /\ LET ops == SetToSeq(Operations \intersect Present(db))
     IN  /\ Len(ledger) + Len(ops) <= MaxEvents
         /\ ledger' = ledger \o [i \in DOMAIN ops |-> Event("node_created", ops[i], db.row[ops[i]])]
         /\ past' = past \o [i \in DOMAIN ops |-> Projection(db, {ops[j] : j \in 1..i})]

-----------------------------------------------------------------------------
(* Readers.                                                                  *)

Put(nodes, n, body) == [x \in DOMAIN nodes \union {n} |-> IF x = n THEN body ELSE nodes[x]]

\* _seed: a baseline that summarised nothing lost nothing.
Seed(view, body) ==
  [seen |-> TRUE, error |-> view.seen, groups |-> body.groups,
   fidelity |-> IF body.shown = [nodes |-> Empty, edges |-> {}, usage |-> {}] THEN "complete"
                ELSE "baseline_only",
   nodes |-> body.shown.nodes, edges |-> body.shown.edges, usage |-> body.shown.usage]

Failing(view) == [view EXCEPT !.error = TRUE]

\* _fold for a node; operations have a group even if the baseline has none.
FoldNode(view, e) ==
  LET known == e.id \in DOMAIN view.nodes
  IN  IF Kind(e.id) \notin view.groups \union {"operation"} \/ (e.kind = "node_created") = known
      THEN Failing(view)
      ELSE [view EXCEPT !.nodes = Put(@, e.id, e.body), !.groups = @ \union {Kind(e.id)}]

FoldLink(view, e) ==
  IF e.kind = "edge_created"
  THEN IF e.id \in view.edges THEN Failing(view) ELSE [view EXCEPT !.edges = @ \union {e.id}]
  ELSE IF e.id \in view.usage THEN Failing(view) ELSE [view EXCEPT !.usage = @ \union {e.id}]

Fold(view, e) ==
  IF e.kind = "baseline" THEN Seed(view, e.body)
  ELSE IF ~view.seen THEN Failing(view)
  ELSE IF e.kind \in {"node_created", "node_state"} THEN FoldNode(view, e) ELSE FoldLink(view, e)

\* _select: events after an exclusive cursor, through an inclusive one.
Select(after, through, limit) ==
  LET last == CHOOSE n \in {through, after + limit, Len(ledger)} :
                n <= through /\ n <= after + limit /\ n <= Len(ledger)
  IN  SubSeq(ledger, after + 1, last)

\* replay: through a cursor, or through the present end, which is pinned.
StartReplay(through) ==
  /\ schema >= 14 /\ reader.pc \in {"idle", "done", "failed"}
  /\ reader' = [Idle EXCEPT !.pc = "replay", !.bound = through]
  /\ UNCHANGED <<schema, db, ledger, past>>

\* A page has been selected; it is folded before anything else is read.
Selected(rows, bound, next) ==
  /\ reader' = [reader EXCEPT !.pc = "fold", !.rows = rows, !.bound = bound, !.next = next]
  /\ UNCHANGED <<schema, db, ledger, past>>

ReadPage ==
  /\ reader.pc = "replay"
  /\ LET rows == Select(reader.cursor, reader.bound, PageSize)
     IN  Selected(rows, reader.bound, IF Len(rows) < PageSize THEN "done" ELSE "replay")

\* events: a page after next_cursor, by a caller who folds it onto what it has, and
\* asks again as long as has_more.
FollowPage ==
  /\ reader.pc \in {"done", "follow"}
  /\ LET rows == Select(reader.cursor, MaxEvents, PageSize + 1)
         more == Len(rows) > PageSize
         page == IF more THEN SubSeq(rows, 1, PageSize) ELSE rows
     IN  Selected(page, reader.cursor + Len(page), IF more THEN "follow" ELSE "done")

FoldRow ==
  /\ reader.pc = "fold" /\ reader.rows # <<>>
  /\ LET view == Fold(reader.view, Head(reader.rows))
     IN  reader' = [reader EXCEPT !.view = view, !.cursor = @ + 1, !.rows = Tail(@),
                      !.pc = IF view.error THEN "failed" ELSE "fold"]
  /\ UNCHANGED <<schema, db, ledger, past>>

\* A history that ends without its baseline fails.
EndPage ==
  /\ reader.pc = "fold" /\ reader.rows = <<>>
  /\ reader' = [reader EXCEPT !.pc = IF reader.next = "done" /\ ~reader.view.seen THEN "failed"
                                     ELSE reader.next]
  /\ UNCHANGED <<schema, db, ledger, past>>

-----------------------------------------------------------------------------

Next ==
  \/ \E n \in Nodes : CreateNode(n)
  \/ \E w \in Flows : MoveFlow(w) \/ \E r \in Runs : ReserveRun(w, r)
  \/ \E r \in Runs : FinishRun(r)
  \/ \E o \in Operations : Settle(o)
  \/ AddObservation \/ AddOperations
  \/ \E through \in 0..Len(ledger) : StartReplay(through)
  \/ ReadPage \/ FollowPage \/ FoldRow \/ EndPage

Spec == Init /\ [][Next]_vars

TypeOK ==
  /\ schema \in 13..15
  /\ db \in [row : [Nodes -> [state : States, phase : {1, 2}, reserved : BOOLEAN]],
             edges : SUBSET (Flows \X Runs), usage : SUBSET Runs]
  /\ Len(ledger) <= MaxEvents /\ Len(past) = Len(ledger)
  /\ reader.pc \in {"idle", "replay", "fold", "follow", "done", "failed"}
  /\ reader.cursor \in 0..Len(ledger) /\ reader.bound \in 0..Len(ledger)

\* The same, but for the time of a workflow's first reservation: its UPDATE fires no
\* trigger, so that readers have it only with the workflow's next event.
Agrees(view, shown) ==
  /\ view.edges = shown.edges /\ view.usage = shown.usage
  /\ DOMAIN view.nodes = DOMAIN shown.nodes
  /\ \A n \in DOMAIN shown.nodes :
       /\ view.nodes[n].state = shown.nodes[n].state /\ view.nodes[n].phase = shown.nodes[n].phase
       /\ view.nodes[n].reserved => shown.nodes[n].reserved

\* However pages and commits follow each other, what a reader has folded is at every
\* cursor what was projected there (replay, events): a ledger the triggers wrote is never
\* refused, nothing is missed, read twice or of a later time, and a replay ends at its bound.
ReplayExact ==
  /\ reader.cursor > 0 => Agrees(reader.view, past[reader.cursor])
  /\ reader.pc = "failed" => reader.bound = 0
  /\ reader.pc = "done" => reader.cursor = reader.bound
  /\ reader.view.fidelity = "complete" => past[1] = [nodes |-> Empty, edges |-> {}, usage |-> {}]
=============================================================================
