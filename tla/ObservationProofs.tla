--------------------------- MODULE ObservationProofs ---------------------------
(***************************************************************************)
(* The safety of the observation ledger, for every number of workflows,    *)
(* runs, operations and events and every size of a page: whatever commits  *)
(* between and inside the pages of a reader, what it has folded is what    *)
(* was projected at its cursor.                                            *)
(***************************************************************************)
EXTENDS MCMigration, Sequences, SequenceTheorems, FiniteSetTheorems, TLAPS

-----------------------------------------------------------------------------
(* Types.                                                                    *)

RowType == [state : O!States, phase : {1, 2}, reserved : BOOLEAN]
DbType == [row : [O!Nodes -> RowType], edges : SUBSET (Flows \X Runs), usage : SUBSET Runs]
NodeMaps == UNION {[D -> RowType] : D \in SUBSET O!Nodes}
ShownType == [nodes : NodeMaps, edges : SUBSET (Flows \X Runs), usage : SUBSET Runs]
BaselineType == [groups : SUBSET {"workflow", "run", "operation"}, shown : ShownType]
EventType ==
  [kind : {"baseline"}, id : {"store"}, body : BaselineType]
    \union [kind : {"node_created", "node_state"}, id : O!Nodes, body : RowType]
    \union [kind : {"edge_created"}, id : Flows \X Runs, body : RowType]
    \union [kind : {"run_telemetry"}, id : Runs, body : RowType]
ViewType == [seen : BOOLEAN, error : BOOLEAN, fidelity : {"none", "complete", "baseline_only"},
             groups : SUBSET {"workflow", "run", "operation"},
             nodes : NodeMaps, edges : SUBSET (Flows \X Runs), usage : SUBSET Runs]
ReaderType == [pc : {"idle", "replay", "fold", "follow", "done", "failed"},
               next : {"idle", "replay", "follow", "done"},
               bound : Nat, cursor : Nat, rows : Seq(EventType), view : ViewType]

\* What an event adds to what was shown before it.
Leads(a, e, b) ==
  \/ /\ e.kind \in {"node_created", "node_state"} /\ e.id \in O!Nodes
     /\ e.kind = "node_created" <=> e.id \notin DOMAIN a.nodes
     /\ O!Agrees([nodes |-> O!Put(a.nodes, e.id, e.body), edges |-> a.edges, usage |-> a.usage], b)
  \/ /\ e.kind = "edge_created" /\ e.id \notin a.edges
     /\ O!Agrees([nodes |-> a.nodes, edges |-> a.edges \union {e.id}, usage |-> a.usage], b)
  \/ /\ e.kind = "run_telemetry" /\ e.id \notin a.usage
     /\ O!Agrees([nodes |-> a.nodes, edges |-> a.edges, usage |-> a.usage \union {e.id}], b)

\* What is projected at the present schema.
Shown(d) == O!Projection(d, IF schema = 15 THEN Operations ELSE {})

\* The first event is the baseline of what there was, every other one leads on, and what was
\* shown last is what is there.
HistoryLed(log) ==
  /\ log.ledger[1].kind = "baseline" /\ log.ledger[1].body.shown = log.past[1]
  /\ {"workflow", "run"} \subseteq log.ledger[1].body.groups
  /\ \A i \in 2..Len(log.ledger) : Leads(log.past[i - 1], log.ledger[i], log.past[i])
  /\ O!Agrees(log.past[Len(log.past)], Shown(log.db))

LogTyped(log) ==
  /\ log \in [db : DbType, ledger : Seq(EventType), past : Seq(ShownType)]
  /\ Len(log.past) = Len(log.ledger)

LogKnown(log) == IF schema = 13 THEN log.ledger = <<>> ELSE log.ledger # <<>> /\ HistoryLed(log)

-----------------------------------------------------------------------------
(* The inductive invariant.                                                  *)

LedgerTyped == schema \in 13..15 /\ LogTyped(O!Begun) /\ reader \in ReaderType

\* Before schema 14 nothing is appended; of operations there are finitely many.
LedgerKnown == IsFiniteSet(Operations \intersect O!Present(db)) /\ LogKnown(O!Begun)

\* What is left of a page is the piece of the ledger after the cursor, within the bound.
PageKnown ==
  LET end == reader.cursor + Len(reader.rows)
  IN  /\ reader.pc = "idle" => reader = O!Idle
      /\ reader.pc # "idle" => schema # 13
      /\ reader.pc \notin {"fold", "failed"} => reader.rows = <<>>
      /\ end <= Len(ledger)
      /\ \A i \in 1..Len(reader.rows) : reader.rows[i] = ledger[reader.cursor + i]
      /\ reader.bound <= Len(ledger)
      /\ reader.pc # "failed" => end <= reader.bound
      /\ reader.pc = "fold" /\ reader.next # "replay" => end = reader.bound
      /\ reader.pc = "fold" => reader.next # "idle"
      /\ reader.pc = "fold" /\ reader.next = "follow" => end > 0
      /\ reader.pc \in {"done", "follow"} => reader.cursor = reader.bound /\ reader.cursor > 0
      /\ reader.pc = "failed" => reader.bound = 0

\* What has been folded is what was projected at the cursor.
ViewKnown ==
  IF reader.cursor = 0 THEN reader.view = O!Unread
  ELSE /\ reader.view.seen /\ ~reader.view.error
       /\ {"workflow", "run"} \subseteq reader.view.groups
       /\ O!Agrees(reader.view, past[reader.cursor])
       /\ reader.view.fidelity = "complete" =>
            past[1] = [nodes |-> O!Empty, edges |-> {}, usage |-> {}]

ObservationInvariant == LedgerTyped /\ LedgerKnown /\ PageKnown /\ ViewKnown

-----------------------------------------------------------------------------
(* Sets as sequences.                                                        *)

\* The instance counts as the library does.
LEMMA SameCardinality == ASSUME NEW S PROVE O!Cardinality(S) = Cardinality(S)
  BY DEF O!Cardinality, Cardinality, O!IsFiniteSet, IsFiniteSet

\* A statement that fires no trigger appends nothing (Triggered).
LEMMA SeqOfEmpty == O!SetToSeq({}) = <<>>
<1>1. O!Cardinality({}) = 0
  BY SameCardinality, FS_EmptySet
<1> QED BY <1>1 DEF O!SetToSeq, O!IsInjective

\* A statement that fires one trigger appends its event (Triggered).
LEMMA SeqOfOne == ASSUME NEW x PROVE O!SetToSeq({x}) = <<x>>
<1>1. O!Cardinality({x}) = 1
  BY SameCardinality, FS_Singleton
<1>2. <<x>> \in [1..1 -> {x}]
  OBVIOUS
<1>3. \A f \in [1..1 -> {x}] : f = <<x>>
  OBVIOUS
<1> QED BY <1>1, <1>2, <1>3 DEF O!SetToSeq, O!IsInjective

\* A summary lists each row once (AddOperations).
LEMMA SeqOfSet ==
  ASSUME NEW S, IsFiniteSet(S)
  PROVE  /\ O!SetToSeq(S) \in Seq(S)
         /\ DOMAIN O!SetToSeq(S) = 1..Len(O!SetToSeq(S))
         /\ \A i, j \in 1..Len(O!SetToSeq(S)) :
              O!SetToSeq(S)[i] = O!SetToSeq(S)[j] => i = j
         /\ S = {O!SetToSeq(S)[i] : i \in 1..Len(O!SetToSeq(S))}
<1> DEFINE n == Cardinality(S)
           q == O!SetToSeq(S)
<1>1. n \in Nat /\ ExistsBijection(1..n, S)
  BY FS_CardinalityType
<1>2. \E f \in [1..n -> S] : O!IsInjective(f)
  BY <1>1 DEF ExistsBijection, Bijection, Injection, IsInjective, O!IsInjective
<1>3. q \in [1..n -> S] /\ O!IsInjective(q)
  BY <1>2, SameCardinality DEF O!SetToSeq
<1>4. q \in Seq(S) /\ Len(q) = n /\ DOMAIN q = 1..n
  BY <1>1, <1>3
<1>5. q \in Injection(1..n, S)
  BY <1>3 DEF Injection, IsInjective, O!IsInjective
<1>6. IsFiniteSet(1..n) /\ Cardinality(1..n) = n
  BY <1>1, FS_Interval
<1>7. q \in Surjection(1..n, S)
  BY <1>5, <1>6, FS_Injection
<1>8. S = {q[i] : i \in 1..n}
  BY <1>3, <1>7 DEF Surjection
<1>9. \A i, j \in 1..n : q[i] = q[j] => i = j
  BY <1>3 DEF O!IsInjective
<1> HIDE DEF q, n
<1>10. /\ q \in Seq(S)
       /\ DOMAIN q = 1..Len(q)
       /\ \A i, j \in 1..Len(q) : q[i] = q[j] => i = j
       /\ S = {q[i] : i \in 1..Len(q)}
  BY <1>4, <1>8, <1>9
<1> QED BY <1>10 DEF q

\* One more at the end of a sequence.
LEMMA AppendOne ==
  ASSUME NEW S, NEW s \in Seq(S), NEW x \in S
  PROVE  /\ s \o <<x>> \in Seq(S) /\ Len(s \o <<x>>) = Len(s) + 1
         /\ (s \o <<x>>)[Len(s) + 1] = x
         /\ \A i \in 1..Len(s) : (s \o <<x>>)[i] = s[i]
<1> DEFINE one == <<x>>
<1>1. one \in Seq(S) /\ Len(one) = 1 /\ one[1] = x
  OBVIOUS
<1> HIDE DEF one
<1>2. Len(s) \in Nat
  OBVIOUS
<1>3. /\ s \o one \in Seq(S) /\ Len(s \o one) = Len(s) + Len(one)
      /\ \A i \in 1..Len(s) + Len(one) :
           (s \o one)[i] = IF i <= Len(s) THEN s[i] ELSE one[i - Len(s)]
  <2>1. one \in Seq(S)
    BY <1>1
  <2> QED BY <2>1, ConcatProperties, Zenon
<1>4. Len(s) + 1 \in 1..Len(s) + Len(one) /\ 1..Len(s) \subseteq 1..Len(s) + Len(one)
  BY <1>1, <1>2
<1>5. (s \o one)[Len(s) + 1] = one[1] /\ \A i \in 1..Len(s) : (s \o one)[i] = s[i]
  BY <1>1, <1>2, <1>3, <1>4
<1> QED BY <1>1, <1>3, <1>5 DEF one

-----------------------------------------------------------------------------
(* What a reader folds.                                                      *)

\* What is shown agrees with itself, and a view that agrees with what agrees agrees.
LEMMA AgreesWithItself == ASSUME NEW a PROVE O!Agrees(a, a)
  BY DEF O!Agrees

LEMMA AgreesOnward ==
  ASSUME NEW a, NEW b, NEW c, O!Agrees(a, b), O!Agrees(b, c)
  PROVE  O!Agrees(a, c)
  BY DEF O!Agrees

\* The maps of nodes stay maps of nodes (Put).
LEMMA PutTyped ==
  ASSUME NEW nodes \in NodeMaps, NEW n \in O!Nodes, NEW body \in RowType
  PROVE  O!Put(nodes, n, body) \in NodeMaps
<1>1. PICK D \in SUBSET O!Nodes : nodes \in [D -> RowType]
  BY DEF NodeMaps
<1>2. D \union {n} \in SUBSET O!Nodes /\ O!Put(nodes, n, body) \in [D \union {n} -> RowType]
  BY <1>1 DEF O!Put
<1> QED BY <1>2 DEF NodeMaps

\* One event of a node, an edge or telemetry takes a view that agrees with what was shown
\* before it to one that agrees with what was shown after it, without an error (_fold).
LEMMA FoldFollows ==
  ASSUME NEW view \in ViewType, NEW e \in EventType, NEW a \in ShownType, NEW b \in ShownType,
         view.seen, ~view.error, {"workflow", "run"} \subseteq view.groups,
         O!Agrees(view, a), Leads(a, e, b)
  PROVE  /\ O!Fold(view, e) \in ViewType
         /\ O!Fold(view, e).seen /\ ~O!Fold(view, e).error
         /\ {"workflow", "run"} \subseteq O!Fold(view, e).groups
         /\ O!Agrees(O!Fold(view, e), b)
         /\ O!Fold(view, e).fidelity = view.fidelity
<1> DEFINE new == O!Fold(view, e)
           Good == /\ new \in ViewType /\ new.seen /\ ~new.error
                   /\ {"workflow", "run"} \subseteq new.groups
                   /\ O!Agrees(new, b) /\ new.fidelity = view.fidelity
<1>1. CASE e.kind \in {"node_created", "node_state"}
  <2> DEFINE put == O!Put(view.nodes, e.id, e.body)
             then == O!Put(a.nodes, e.id, e.body)
  <2>1. /\ e.id \in O!Nodes
        /\ e.kind = "node_created" <=> e.id \notin DOMAIN a.nodes
        /\ O!Agrees([nodes |-> then, edges |-> a.edges, usage |-> a.usage], b)
    BY <1>1 DEF Leads
  <2>2. e.body \in RowType
    BY <1>1, <2>1 DEF EventType
  <2>3. O!Kind(e.id) \in {"workflow", "run", "operation"}
    BY DEF O!Kind
  <2>4. DOMAIN view.nodes = DOMAIN a.nodes
    BY DEF O!Agrees
  <2>5. new = [view EXCEPT !.nodes = put, !.groups = @ \union {O!Kind(e.id)}]
    BY <1>1, <2>1, <2>3, <2>4 DEF O!Fold, O!FoldNode
  <2>6. put \in NodeMaps
    BY <2>1, <2>2, PutTyped DEF ViewType
  <2>7. /\ new \in ViewType /\ new.seen /\ ~new.error
        /\ {"workflow", "run"} \subseteq new.groups /\ new.fidelity = view.fidelity
        /\ new.nodes = put /\ new.edges = view.edges /\ new.usage = view.usage
    <3> DEFINE groups == view.groups \union {O!Kind(e.id)}
    <3> HIDE DEF put, new
    <3>1. groups \in SUBSET {"workflow", "run", "operation"} /\ {"workflow", "run"} \subseteq groups
      BY <2>3 DEF ViewType
    <3> HIDE DEF groups
    <3>2. new = [view EXCEPT !.nodes = put, !.groups = groups]
      BY <2>5 DEF groups
    <3> QED BY <2>6, <3>1, <3>2 DEF ViewType
  <2>8. O!Agrees(new, [nodes |-> then, edges |-> a.edges, usage |-> a.usage])
    BY <2>4, <2>7 DEF O!Agrees, O!Put
  <2> QED BY <2>1, <2>7, <2>8, AgreesOnward
<1>2. CASE e.kind = "edge_created"
  <2>1. /\ e.id \notin a.edges
        /\ O!Agrees([nodes |-> a.nodes, edges |-> a.edges \union {e.id}, usage |-> a.usage], b)
    BY <1>2 DEF Leads
  <2>2. e.id \in Flows \X Runs
    BY <1>2 DEF EventType
  <2>3. new = [view EXCEPT !.edges = @ \union {e.id}]
    BY <1>2, <2>1 DEF O!Fold, O!FoldLink, O!Agrees
  <2>4. /\ new \in ViewType /\ new.seen /\ ~new.error
        /\ {"workflow", "run"} \subseteq new.groups /\ new.fidelity = view.fidelity
        /\ new.nodes = view.nodes /\ new.edges = view.edges \union {e.id}
        /\ new.usage = view.usage
    BY <2>2, <2>3 DEF ViewType
  <2>5. O!Agrees(new, [nodes |-> a.nodes, edges |-> a.edges \union {e.id}, usage |-> a.usage])
    BY <2>4 DEF O!Agrees
  <2> QED BY <2>1, <2>4, <2>5, AgreesOnward
<1>3. CASE e.kind = "run_telemetry"
  <2>1. /\ e.id \notin a.usage
        /\ O!Agrees([nodes |-> a.nodes, edges |-> a.edges, usage |-> a.usage \union {e.id}], b)
    BY <1>3 DEF Leads
  <2>2. e.id \in Runs
    BY <1>3 DEF EventType
  <2>3. new = [view EXCEPT !.usage = @ \union {e.id}]
    BY <1>3, <2>1 DEF O!Fold, O!FoldLink, O!Agrees
  <2>4. /\ new \in ViewType /\ new.seen /\ ~new.error
        /\ {"workflow", "run"} \subseteq new.groups /\ new.fidelity = view.fidelity
        /\ new.nodes = view.nodes /\ new.edges = view.edges
        /\ new.usage = view.usage \union {e.id}
    BY <2>2, <2>3 DEF ViewType
  <2>5. O!Agrees(new, [nodes |-> a.nodes, edges |-> a.edges, usage |-> a.usage \union {e.id}])
    BY <2>4 DEF O!Agrees
  <2> QED BY <2>1, <2>4, <2>5, AgreesOnward
<1> QED BY <1>1, <1>2, <1>3 DEF Leads

\* The baseline gives a reader what was shown when it was written, and calls it complete
\* only if nothing was (_seed).
LEMMA FoldBegins ==
  ASSUME NEW e \in EventType, e.kind = "baseline", {"workflow", "run"} \subseteq e.body.groups
  PROVE  /\ O!Fold(O!Unread, e) \in ViewType
         /\ O!Fold(O!Unread, e).seen /\ ~O!Fold(O!Unread, e).error
         /\ {"workflow", "run"} \subseteq O!Fold(O!Unread, e).groups
         /\ O!Agrees(O!Fold(O!Unread, e), e.body.shown)
         /\ O!Fold(O!Unread, e).fidelity = "complete" =>
              e.body.shown = [nodes |-> O!Empty, edges |-> {}, usage |-> {}]
<1> DEFINE new == O!Fold(O!Unread, e)
           none == [nodes |-> O!Empty, edges |-> {}, usage |-> {}]
<1>1. e.body \in BaselineType
  BY DEF EventType
<1>2. new = [seen |-> TRUE, error |-> FALSE, groups |-> e.body.groups,
             fidelity |-> IF e.body.shown = none THEN "complete" ELSE "baseline_only",
             nodes |-> e.body.shown.nodes, edges |-> e.body.shown.edges,
             usage |-> e.body.shown.usage]
  BY DEF O!Fold, O!Seed, O!Unread
<1> HIDE DEF none
<1>3. new \in ViewType
  BY <1>1, <1>2 DEF BaselineType, ShownType, ViewType
<1>4. O!Agrees(new, e.body.shown)
  BY <1>2 DEF O!Agrees
<1> QED BY <1>2, <1>3, <1>4 DEF none

-----------------------------------------------------------------------------
(* What a statement appends.                                                 *)

\* The changes that the statements of the controller make: of one row, which never goes
\* away nor forgets its window, of one edge or of one run's telemetry.
RowChange(old, new, n, body) ==
  /\ n \in O!Nodes /\ body \in RowType /\ body.state # "none"
  /\ old.row[n].reserved => body.reserved
  /\ new = [old EXCEPT !.row[n] = body]
EdgeChange(old, new, e) == e \in Flows \X Runs /\ new = [old EXCEPT !.edges = @ \union {e}]
UsageChange(old, new, run) == run \in Runs /\ new = [old EXCEPT !.usage = @ \union {run}]
Change(old, new) ==
  \/ \E n \in O!Nodes, body \in RowType : RowChange(old, new, n, body)
  \/ \E e \in Flows \X Runs : EdgeChange(old, new, e)
  \/ \E run \in Runs : UsageChange(old, new, run)

\* What was appended to one log gives the other.
Continues(log, new) ==
  /\ Len(log.ledger) <= Len(new.ledger)
  /\ \A i \in 1..Len(log.ledger) : new.ledger[i] = log.ledger[i] /\ new.past[i] = log.past[i]

\* What is projected is of its type (Projection).
LEMMA ProjectionTyped ==
  ASSUME NEW d \in DbType, NEW operations
  PROVE  O!Projection(d, operations) \in ShownType
<1> DEFINE D == {x \in O!Present(d) : x \in Operations => x \in operations}
<1>1. D \in SUBSET O!Nodes
  BY DEF O!Present
<1>2. [n \in D |-> d.row[n]] \in [D -> RowType]
  BY <1>1 DEF DbType
<1>3. [n \in D |-> d.row[n]] \in NodeMaps
  BY <1>1, <1>2 DEF NodeMaps
<1> QED BY <1>3 DEF O!Projection, ShownType, DbType

\* An event that leads to what is shown next continues the history.
LEMMA AppendLeads ==
  ASSUME NEW log, LogTyped(log), log.ledger # <<>>, HistoryLed(log),
         NEW e \in EventType, NEW shown \in ShownType, NEW new \in DbType,
         Leads(log.past[Len(log.past)], e, shown), O!Agrees(shown, Shown(new))
  PROVE  LET next == [db |-> new, ledger |-> log.ledger \o <<e>>, past |-> log.past \o <<shown>>]
         IN  LogTyped(next) /\ next.ledger # <<>> /\ HistoryLed(next) /\ Continues(log, next)
<1> DEFINE n == Len(log.ledger)
           next == [db |-> new, ledger |-> log.ledger \o <<e>>, past |-> log.past \o <<shown>>]
<1>1. /\ log.ledger \in Seq(EventType) /\ log.past \in Seq(ShownType)
      /\ n \in Nat \ {0} /\ Len(log.past) = n
  BY DEF LogTyped
<1>2. /\ log.ledger \o <<e>> \in Seq(EventType)
      /\ Len(log.ledger \o <<e>>) = Len(log.ledger) + 1
      /\ (log.ledger \o <<e>>)[Len(log.ledger) + 1] = e
      /\ \A i \in 1..Len(log.ledger) : (log.ledger \o <<e>>)[i] = log.ledger[i]
  <2>1. log.ledger \in Seq(EventType)
    BY <1>1
  <2> QED BY <2>1, AppendOne
<1>3. /\ log.past \o <<shown>> \in Seq(ShownType)
      /\ Len(log.past \o <<shown>>) = Len(log.past) + 1
      /\ (log.past \o <<shown>>)[Len(log.past) + 1] = shown
      /\ \A i \in 1..Len(log.past) : (log.past \o <<shown>>)[i] = log.past[i]
  <2>1. log.past \in Seq(ShownType)
    BY <1>1
  <2> QED BY <2>1, AppendOne
<1>4. /\ next.ledger \in Seq(EventType) /\ next.past \in Seq(ShownType)
      /\ Len(next.ledger) = n + 1 /\ Len(next.past) = n + 1
      /\ next.ledger[n + 1] = e /\ next.past[n + 1] = shown
      /\ \A i \in 1..n : next.ledger[i] = log.ledger[i]
      /\ \A i \in 1..n : next.past[i] = log.past[i]
  <2> HIDE DEF n
  <2> QED BY <1>1, <1>2, <1>3 DEF n
<1>6. LogTyped(next)
  BY <1>4 DEF LogTyped
<1>7. Continues(log, next)
  BY <1>1, <1>4 DEF Continues
<1>8. next.db = new /\ next.ledger # <<>>
  BY <1>4
<1> HIDE DEF next
<1>9. \A i \in 2..Len(next.ledger) : Leads(next.past[i - 1], next.ledger[i], next.past[i])
  <2> SUFFICES ASSUME NEW i \in 2..n + 1
               PROVE  Leads(next.past[i - 1], next.ledger[i], next.past[i])
    BY <1>4
  <2>1. CASE i = n + 1
    BY <1>1, <1>4, <2>1
  <2>2. CASE i \in 2..n
    <3>1. i - 1 \in 1..n /\ i \in 1..n
      BY <1>1, <2>2
    <3>2. Leads(log.past[i - 1], log.ledger[i], log.past[i])
      BY <2>2 DEF HistoryLed
    <3> QED BY <1>4, <3>1, <3>2
  <2> QED BY <1>1, <2>1, <2>2
<1>10. HistoryLed(next)
  <2>1. 1 \in 1..n
    BY <1>1
  <2>2. O!Agrees(next.past[Len(next.past)], Shown(next.db))
    BY <1>4, <1>8
  <2>3. /\ next.ledger[1].kind = "baseline" /\ next.ledger[1].body.shown = next.past[1]
        /\ {"workflow", "run"} \subseteq next.ledger[1].body.groups
    BY <1>4, <2>1 DEF HistoryLed
  <2> QED BY <1>9, <2>2, <2>3 DEF HistoryLed
<1> QED BY <1>6, <1>7, <1>8, <1>10 DEF next

\* A statement without an event continues the history if nothing that readers have changed.
LEMMA AppendNothing ==
  ASSUME NEW log, LogTyped(log), log.ledger # <<>>, HistoryLed(log), NEW new \in DbType,
         O!Agrees(Shown(log.db), Shown(new))
  PROVE  LET next == [db |-> new, ledger |-> log.ledger, past |-> log.past]
         IN  LogTyped(next) /\ next.ledger # <<>> /\ HistoryLed(next) /\ Continues(log, next)
<1> DEFINE next == [db |-> new, ledger |-> log.ledger, past |-> log.past]
<1>1. LogTyped(next) /\ next.ledger # <<>>
  BY DEF LogTyped
<1>2. O!Agrees(next.past[Len(next.past)], Shown(next.db))
  BY AgreesOnward DEF HistoryLed
<1>3. HistoryLed(next)
  BY <1>2 DEF HistoryLed
<1>4. Continues(log, next)
  BY DEF Continues, LogTyped
<1> QED BY <1>1, <1>3, <1>4

\* The trigger of a row fires for what is followed of it, and then says all of it (NodeEvents).
LEMMA RowTriggers ==
  ASSUME NEW old \in DbType, NEW new, NEW n, NEW body, RowChange(old, new, n, body)
  PROVE  LET kind == IF old.row[n].state = "none" THEN "node_created" ELSE "node_state"
             fires == /\ O!Followed(n)
                      /\ old.row[n].state = "none" \/ O!Watched(old.row[n]) # O!Watched(body)
         IN  O!Triggered(old, new) = IF fires THEN <<O!Event(kind, n, body)>> ELSE <<>>
<1> DEFINE kind == IF old.row[n].state = "none" THEN "node_created" ELSE "node_state"
           fires == /\ O!Followed(n)
                    /\ old.row[n].state = "none" \/ O!Watched(old.row[n]) # O!Watched(body)
           created == {x \in O!Present(new) \ O!Present(old) : O!Followed(x)}
           moved == {x \in O!Present(old) :
                       O!Followed(x) /\ O!Watched(old.row[x]) # O!Watched(new.row[x])}
           events == {O!Event("node_created", x, new.row[x]) : x \in created}
                     \union {O!Event("node_state", x, new.row[x]) : x \in moved}
<1>1. /\ n \in O!Nodes /\ body.state # "none"
      /\ new.row = [old.row EXCEPT ![n] = body] /\ new.row[n] = body
      /\ \A x \in O!Nodes \ {n} : new.row[x] = old.row[x]
      /\ new.edges = old.edges /\ new.usage = old.usage
  BY DEF RowChange, DbType
<1>2. created = IF O!Followed(n) /\ old.row[n].state = "none" THEN {n} ELSE {}
  BY <1>1 DEF O!Present
<1>3. moved = IF /\ O!Followed(n) /\ old.row[n].state # "none"
                 /\ O!Watched(old.row[n]) # O!Watched(body)
              THEN {n} ELSE {}
  BY <1>1 DEF O!Present
<1>4. events = IF fires THEN {O!Event(kind, n, body)} ELSE {}
  <2> HIDE DEF created, moved
  <2>1. CASE created = {n} /\ moved = {}
    BY <1>1, <1>2, <1>3, <2>1
  <2>2. CASE created = {} /\ moved = {n}
    BY <1>1, <1>2, <1>3, <2>2
  <2>3. CASE created = {} /\ moved = {}
    BY <1>1, <1>2, <1>3, <2>3
  <2> QED BY <1>2, <1>3, <2>1, <2>2, <2>3
<1>5. O!NodeEvents(old, new) = IF fires THEN <<O!Event(kind, n, body)>> ELSE <<>>
  <2>1. O!NodeEvents(old, new) = O!SetToSeq(events)
    BY DEF O!NodeEvents
  <2> HIDE DEF events, fires, kind
  <2> QED BY <1>4, <2>1, SeqOfEmpty, SeqOfOne
<1>6. O!EdgeEvents(old, new) = <<>>
  <2>1. {O!Event("edge_created", e, O!Absent) : e \in new.edges \ old.edges} = {}
    BY <1>1
  <2> QED BY <2>1, SeqOfEmpty DEF O!EdgeEvents
<1>7. O!SetToSeq({O!Event("run_telemetry", x, O!Absent) : x \in new.usage \ old.usage}) = <<>>
  <2>1. {O!Event("run_telemetry", x, O!Absent) : x \in new.usage \ old.usage} = {}
    BY <1>1
  <2> QED BY <2>1, SeqOfEmpty
<1>8. O!Triggered(old, new) = O!NodeEvents(old, new) \o <<>> \o <<>>
  BY <1>6, <1>7 DEF O!Triggered
<1> HIDE DEF fires, kind
<1>9. <<O!Event(kind, n, body)>> \o <<>> \o <<>> = <<O!Event(kind, n, body)>>
  OBVIOUS
<1>10. O!Triggered(old, new) = IF fires THEN <<O!Event(kind, n, body)>> ELSE <<>>
  BY <1>5, <1>8, <1>9
<1> QED BY <1>10 DEF fires, kind

\* A new edge or telemetry fires its trigger, once.
LEMMA EdgeTriggers ==
  ASSUME NEW old \in DbType, NEW new, NEW e, EdgeChange(old, new, e)
  PROVE  O!Triggered(old, new) =
           IF e \notin old.edges THEN <<O!Event("edge_created", e, O!Absent)>> ELSE <<>>
<1>1. new.row = old.row /\ new.edges = old.edges \union {e} /\ new.usage = old.usage
  BY DEF EdgeChange, DbType
<1>2. O!NodeEvents(old, new) = <<>>
  <2>1. {O!Event("node_created", n, new.row[n]) :
           n \in {x \in O!Present(new) \ O!Present(old) : O!Followed(x)}}
          \union {O!Event("node_state", n, new.row[n]) :
                    n \in {x \in O!Present(old) :
                             O!Followed(x) /\ O!Watched(old.row[x]) # O!Watched(new.row[x])}} = {}
    BY <1>1 DEF O!Present
  <2> QED BY <2>1, SeqOfEmpty DEF O!NodeEvents
<1>3. O!EdgeEvents(old, new) =
        IF e \notin old.edges THEN <<O!Event("edge_created", e, O!Absent)>> ELSE <<>>
  <2>1. {O!Event("edge_created", x, O!Absent) : x \in new.edges \ old.edges} =
          IF e \notin old.edges THEN {O!Event("edge_created", e, O!Absent)} ELSE {}
    BY <1>1
  <2> QED BY <2>1, SeqOfEmpty, SeqOfOne DEF O!EdgeEvents
<1>4. O!SetToSeq({O!Event("run_telemetry", x, O!Absent) : x \in new.usage \ old.usage}) = <<>>
  <2>1. {O!Event("run_telemetry", x, O!Absent) : x \in new.usage \ old.usage} = {}
    BY <1>1
  <2> QED BY <2>1, SeqOfEmpty
<1>5. O!Triggered(old, new) = <<>> \o O!EdgeEvents(old, new) \o <<>>
  BY <1>2, <1>4 DEF O!Triggered
<1>6. <<>> \o <<O!Event("edge_created", e, O!Absent)>> \o <<>> =
        <<O!Event("edge_created", e, O!Absent)>>
  OBVIOUS
<1> QED BY <1>3, <1>5, <1>6

LEMMA UsageTriggers ==
  ASSUME NEW old \in DbType, NEW new, NEW run, UsageChange(old, new, run)
  PROVE  O!Triggered(old, new) =
           IF run \notin old.usage THEN <<O!Event("run_telemetry", run, O!Absent)>> ELSE <<>>
<1> DEFINE fired == {O!Event("run_telemetry", x, O!Absent) : x \in new.usage \ old.usage}
<1>1. new.row = old.row /\ new.edges = old.edges /\ new.usage = old.usage \union {run}
  BY DEF UsageChange, DbType
<1>2. O!NodeEvents(old, new) = <<>>
  <2>1. {O!Event("node_created", n, new.row[n]) :
           n \in {x \in O!Present(new) \ O!Present(old) : O!Followed(x)}}
          \union {O!Event("node_state", n, new.row[n]) :
                    n \in {x \in O!Present(old) :
                             O!Followed(x) /\ O!Watched(old.row[x]) # O!Watched(new.row[x])}} = {}
    BY <1>1 DEF O!Present
  <2> QED BY <2>1, SeqOfEmpty DEF O!NodeEvents
<1>3. O!EdgeEvents(old, new) = <<>>
  <2>1. {O!Event("edge_created", x, O!Absent) : x \in new.edges \ old.edges} = {}
    BY <1>1
  <2> QED BY <2>1, SeqOfEmpty DEF O!EdgeEvents
<1>4. O!SetToSeq(fired) =
        IF run \notin old.usage THEN <<O!Event("run_telemetry", run, O!Absent)>> ELSE <<>>
  <2>1. fired = IF run \notin old.usage THEN {O!Event("run_telemetry", run, O!Absent)} ELSE {}
    BY <1>1
  <2> HIDE DEF fired
  <2> QED BY <2>1, SeqOfEmpty, SeqOfOne
<1>5. O!Triggered(old, new) = <<>> \o <<>> \o O!SetToSeq(fired)
  BY <1>2, <1>3 DEF O!Triggered
<1> HIDE DEF fired
<1>6. <<>> \o <<>> \o <<O!Event("run_telemetry", run, O!Absent)>> =
        <<O!Event("run_telemetry", run, O!Absent)>>
  OBVIOUS
<1> QED BY <1>4, <1>5, <1>6

\* A statement keeps the types of the log, and only appends to it.  From schema 14 on the
\* ledger leads from the baseline to what is shown of the tables (_observation_ddl).
LEMMA StatementKeeps ==
  ASSUME NEW log, LogTyped(log), LogKnown(log), schema \in 13..15,
         NEW new \in DbType, Change(log.db, new)
  PROVE  /\ LogTyped(O!Statement(log, new)) /\ LogKnown(O!Statement(log, new))
         /\ O!Statement(log, new).db = new
         /\ Continues(log, O!Statement(log, new))
<1> DEFINE next == O!Statement(log, new)
           fired == O!Triggered(log.db, new)
           before == log.past[Len(log.past)]
           Goal == LogTyped(next) /\ LogKnown(next) /\ next.db = new /\ Continues(log, next)
<1>1. /\ log.db \in DbType /\ log.ledger \in Seq(EventType) /\ log.past \in Seq(ShownType)
      /\ Len(log.past) = Len(log.ledger)
  BY DEF LogTyped
<1>2. /\ log.ledger \o <<>> = log.ledger /\ log.past \o <<>> = log.past
      /\ [i \in DOMAIN <<>> |-> Shown(new)] = <<>>
  BY <1>1, ConcatEmptySeq
<1>3. CASE schema = 13
  <2>1. next = [db |-> new, ledger |-> log.ledger, past |-> log.past]
    <3>1. next = [db |-> new, ledger |-> log.ledger \o <<>>,
                  past |-> log.past \o [i \in DOMAIN <<>> |-> Shown(new)]]
      BY <1>3 DEF O!Statement, Shown
    <3> QED BY <1>2, <3>1
  <2>2. LogTyped(next) /\ LogKnown(next) /\ next.db = new
    BY <1>1, <1>3, <2>1 DEF LogTyped, LogKnown
  <2>3. Continues(log, next)
    BY <1>1, <2>1 DEF Continues
  <2> QED BY <2>2, <2>3
<1>4. CASE schema \in 14..15
  <2>1. log.ledger # <<>> /\ HistoryLed(log)
    BY <1>4 DEF LogKnown
  <2>2. next = [db |-> new, ledger |-> log.ledger \o fired,
                past |-> log.past \o [i \in DOMAIN fired |-> Shown(new)]]
    <3>1. ~(schema < 14)
      BY <1>4
    <3>2. (IF schema < 14 THEN <<>> ELSE fired) = fired
      BY <3>1, Zenon
    <3>3. next = LET events == IF schema < 14 THEN <<>> ELSE fired
                 IN  [db |-> new, ledger |-> log.ledger \o events,
                      past |-> log.past \o [i \in DOMAIN events |-> Shown(new)]]
      BY Zenon DEF O!Statement, Shown
    <3> HIDE DEF fired, next
    <3> QED BY <3>2, <3>3
  <2>3. Shown(new) \in ShownType
    BY ProjectionTyped DEF Shown
  <2>4. O!Agrees(before, Shown(log.db))
    BY <2>1 DEF HistoryLed
  <2>5. ASSUME fired = <<>>, O!Agrees(Shown(log.db), Shown(new)) PROVE Goal
    <3>1. next = [db |-> new, ledger |-> log.ledger, past |-> log.past]
      BY <1>2, <2>2, <2>5
    <3>2. next.db = new
      BY <3>1
    <3>3. LogTyped(next) /\ next.ledger # <<>> /\ HistoryLed(next) /\ Continues(log, next)
      BY <2>1, <2>5, <3>1, AppendNothing
    <3> QED BY <1>4, <3>2, <3>3 DEF LogKnown
  <2>6. ASSUME NEW e \in EventType, fired = <<e>>, Leads(before, e, Shown(new)) PROVE Goal
    <3>1. [i \in DOMAIN <<e>> |-> Shown(new)] = <<Shown(new)>>
      OBVIOUS
    <3>2. next = [db |-> new, ledger |-> log.ledger \o <<e>>, past |-> log.past \o <<Shown(new)>>]
      BY <2>2, <2>6, <3>1
    <3>3. next.db = new
      BY <3>2
    <3>4. LogTyped(next) /\ next.ledger # <<>> /\ HistoryLed(next) /\ Continues(log, next)
      BY <2>1, <2>3, <2>6, <3>2, AppendLeads, AgreesWithItself
    <3> QED BY <1>4, <3>3, <3>4 DEF LogKnown
  <2> HIDE DEF next
  <2>7. ASSUME NEW n \in O!Nodes, NEW body \in RowType, RowChange(log.db, new, n, body)
        PROVE  Goal
    <3> DEFINE old == log.db
               kind == IF old.row[n].state = "none" THEN "node_created" ELSE "node_state"
               fires == /\ O!Followed(n)
                        /\ old.row[n].state = "none" \/ O!Watched(old.row[n]) # O!Watched(body)
    <3>1. fired = IF fires THEN <<O!Event(kind, n, body)>> ELSE <<>>
      BY <1>1, <2>7, RowTriggers
    <3>2. /\ body.state # "none" /\ (old.row[n].reserved => body.reserved)
          /\ new.row = [old.row EXCEPT ![n] = body] /\ new.row[n] = body
          /\ \A x \in O!Nodes \ {n} : new.row[x] = old.row[x]
          /\ new.edges = old.edges /\ new.usage = old.usage
      BY <1>1, <2>7 DEF RowChange, DbType
    <3>3. CASE fires
      <4> DEFINE e == O!Event(kind, n, body)
      <4>1. e.kind = kind /\ e.id = n /\ e.body = body
        BY DEF O!Event
      <4>2. e \in EventType
        BY DEF O!Event, EventType
      <4>3. n \in DOMAIN Shown(old).nodes <=> old.row[n].state # "none"
        BY <1>4, <3>3 DEF Shown, O!Projection, O!Present, O!Followed
      <4>4. Shown(new).nodes = O!Put(Shown(old).nodes, n, body)
        BY <1>4, <3>2, <3>3 DEF Shown, O!Projection, O!Present, O!Followed, O!Put
      <4>5. Shown(new).edges = Shown(old).edges /\ Shown(new).usage = Shown(old).usage
        BY <3>2 DEF Shown, O!Projection
      <4>6. O!Agrees([nodes |-> O!Put(before.nodes, n, body), edges |-> before.edges,
                      usage |-> before.usage], Shown(new))
        BY <2>4, <4>4, <4>5 DEF O!Agrees, O!Put
      <4>7. (e.kind = "node_created") <=> e.id \notin DOMAIN before.nodes
        BY <2>4, <4>1, <4>3 DEF O!Agrees
      <4>8. Leads(before, e, Shown(new))
        BY <4>1, <4>6, <4>7 DEF Leads
      <4> QED BY <2>6, <3>1, <3>3, <4>2, <4>8
    <3>4. CASE ~fires
      <4>1. old.row[n].state \in O!States /\ body.state \in O!States
        BY <1>1 DEF DbType, RowType
      <4>2. O!Followed(n) => /\ old.row[n].state # "none" /\ old.row[n].state = body.state
                             /\ old.row[n].phase = body.phase
        BY <3>4 DEF O!Watched
      <4>3. O!Agrees(Shown(old), Shown(new))
        BY <1>4, <3>2, <4>2 DEF O!Agrees, Shown, O!Projection, O!Present, O!Followed
      <4> QED BY <2>5, <3>1, <3>4, <4>3
    <3> QED BY <3>3, <3>4
  <2>8. ASSUME NEW x \in Flows \X Runs, EdgeChange(log.db, new, x) PROVE Goal
    <3> DEFINE e == O!Event("edge_created", x, O!Absent)
    <3>1. fired = IF x \notin log.db.edges THEN <<e>> ELSE <<>>
      BY <1>1, <2>8, EdgeTriggers
    <3>2. /\ new.row = log.db.row /\ new.edges = log.db.edges \union {x}
          /\ new.usage = log.db.usage
      BY <1>1, <2>8 DEF EdgeChange, DbType
    <3>3. /\ Shown(new).nodes = Shown(log.db).nodes /\ Shown(new).usage = Shown(log.db).usage
          /\ Shown(new).edges = Shown(log.db).edges \union {x}
          /\ Shown(log.db).edges = log.db.edges
      BY <3>2 DEF Shown, O!Projection, O!Present
    <3>4. CASE x \notin log.db.edges
      <4>1. e \in EventType /\ e.kind = "edge_created" /\ e.id = x
        BY DEF O!Event, EventType, O!Absent, RowType, O!States
      <4>2. x \notin before.edges
        BY <2>4, <3>3, <3>4 DEF O!Agrees
      <4>3. O!Agrees([nodes |-> before.nodes, edges |-> before.edges \union {x},
                      usage |-> before.usage], Shown(new))
        BY <2>4, <3>3 DEF O!Agrees
      <4>4. Leads(before, e, Shown(new))
        BY <4>1, <4>2, <4>3 DEF Leads
      <4> QED BY <2>6, <3>1, <3>4, <4>1, <4>4
    <3>5. CASE x \in log.db.edges
      <4>1. O!Agrees(Shown(log.db), Shown(new))
        BY <3>3, <3>5 DEF O!Agrees
      <4> QED BY <2>5, <3>1, <3>5, <4>1
    <3> QED BY <3>4, <3>5
  <2>9. ASSUME NEW run \in Runs, UsageChange(log.db, new, run) PROVE Goal
    <3> DEFINE e == O!Event("run_telemetry", run, O!Absent)
    <3>1. fired = IF run \notin log.db.usage THEN <<e>> ELSE <<>>
      BY <1>1, <2>9, UsageTriggers
    <3>2. /\ new.row = log.db.row /\ new.edges = log.db.edges
          /\ new.usage = log.db.usage \union {run}
      BY <1>1, <2>9 DEF UsageChange, DbType
    <3>3. /\ Shown(new).nodes = Shown(log.db).nodes /\ Shown(new).edges = Shown(log.db).edges
          /\ Shown(new).usage = Shown(log.db).usage \union {run}
          /\ Shown(log.db).usage = log.db.usage
      BY <3>2 DEF Shown, O!Projection, O!Present
    <3>4. CASE run \notin log.db.usage
      <4>1. e \in EventType /\ e.kind = "run_telemetry" /\ e.id = run
        BY DEF O!Event, EventType, O!Absent, RowType, O!States
      <4>2. run \notin before.usage
        BY <2>4, <3>3, <3>4 DEF O!Agrees
      <4>3. O!Agrees([nodes |-> before.nodes, edges |-> before.edges,
                      usage |-> before.usage \union {run}], Shown(new))
        BY <2>4, <3>3 DEF O!Agrees
      <4>4. Leads(before, e, Shown(new))
        BY <4>1, <4>2, <4>3 DEF Leads
      <4> QED BY <2>6, <3>1, <3>4, <4>1, <4>4
    <3>5. CASE run \in log.db.usage
      <4>1. O!Agrees(Shown(log.db), Shown(new))
        BY <3>3, <3>5 DEF O!Agrees
      <4> QED BY <2>5, <3>1, <3>5, <4>1
    <3> QED BY <3>4, <3>5
  <2>10. Goal
    <3> HIDE DEF Goal
    <3> QED BY <2>7, <2>8, <2>9 DEF Change
  <2> QED BY <2>10 DEF next
<1> QED BY <1>3, <1>4

-----------------------------------------------------------------------------
(* Transactions.                                                             *)

Good(log) ==
  /\ LogTyped(log) /\ LogKnown(log)
  /\ IsFiniteSet(Operations \intersect O!Present(log.db))

\* Nothing is undone by what continues it.
LEMMA ContinuesOnward ==
  ASSUME NEW a, NEW b, NEW c, LogTyped(a), LogTyped(b), LogTyped(c),
         Continues(a, b), Continues(b, c)
  PROVE  Continues(a, c)
<1>1. Len(a.ledger) \in Nat /\ Len(b.ledger) \in Nat /\ Len(c.ledger) \in Nat
  BY DEF LogTyped
<1>2. Len(a.ledger) <= Len(c.ledger) /\ 1..Len(a.ledger) \subseteq 1..Len(b.ledger)
  BY <1>1 DEF Continues
<1> QED BY <1>2 DEF Continues

\* A statement of a transaction keeps all that is known of the log (Statement).
LEMMA StatementGood ==
  ASSUME NEW log, Good(log), schema \in 13..15, NEW new, Change(log.db, new)
  PROVE  /\ Good(O!Statement(log, new)) /\ O!Statement(log, new).db = new
         /\ Continues(log, O!Statement(log, new))
<1>1. log.db \in DbType
  BY DEF Good, LogTyped
<1>2. new \in DbType
  BY <1>1 DEF Change, RowChange, EdgeChange, UsageChange, DbType
<1>3. /\ LogTyped(O!Statement(log, new)) /\ LogKnown(O!Statement(log, new))
      /\ O!Statement(log, new).db = new /\ Continues(log, O!Statement(log, new))
  BY <1>2, StatementKeeps DEF Good
<1>4. PICK n : O!Present(new) \subseteq O!Present(log.db) \union {n}
  <2>1. ASSUME NEW n \in O!Nodes, NEW body \in RowType, RowChange(log.db, new, n, body)
        PROVE  O!Present(new) \subseteq O!Present(log.db) \union {n}
    BY <1>1, <2>1 DEF RowChange, DbType, O!Present
  <2>2. ASSUME new.row = log.db.row PROVE O!Present(new) = O!Present(log.db)
    BY <2>2 DEF O!Present
  <2> QED BY <1>1, <2>1, <2>2 DEF Change, EdgeChange, UsageChange, DbType
<1>5. IsFiniteSet(Operations \intersect O!Present(new))
  <2>1. IsFiniteSet((Operations \intersect O!Present(log.db)) \union {n})
    BY FS_AddElement DEF Good
  <2>2. Operations \intersect O!Present(new) \in
          SUBSET ((Operations \intersect O!Present(log.db)) \union {n})
    BY <1>4
  <2> QED BY <2>1, <2>2, FS_Subset
<1> QED BY <1>3, <1>5 DEF Good

\* What readers hold of a ledger stays true when more is appended to it (Commit).
LEMMA AppendKeepsReaders ==
  ASSUME LedgerTyped, PageKnown, ViewKnown, Continues(O!Begun, O!Begun'),
         LogTyped(O!Begun)', schema' \in 13..15, schema <= schema', UNCHANGED reader
  PROVE  PageKnown' /\ ViewKnown'
<1>1. /\ reader \in ReaderType /\ Len(ledger) \in Nat /\ Len(ledger') \in Nat
      /\ schema \in 13..15
  BY DEF LedgerTyped, LogTyped, O!Begun
<1>2. /\ Len(ledger) <= Len(ledger')
      /\ \A i \in 1..Len(ledger) : ledger'[i] = ledger[i] /\ past'[i] = past[i]
  BY DEF Continues, O!Begun
<1>3. /\ reader.cursor \in Nat /\ Len(reader.rows) \in Nat /\ reader.bound \in Nat
      /\ reader.cursor + Len(reader.rows) <= Len(ledger)
  BY <1>1 DEF ReaderType, PageKnown
<1>4. \A i \in 1..Len(reader.rows) : reader.rows[i] = ledger'[reader.cursor + i]
  <2> SUFFICES ASSUME NEW i \in 1..Len(reader.rows)
               PROVE  reader.rows[i] = ledger'[reader.cursor + i]
    OBVIOUS
  <2>1. reader.cursor + i \in 1..Len(ledger)
    BY <1>1, <1>3
  <2> QED BY <1>2, <2>1 DEF PageKnown
<1>5. PageKnown'
  <2>1. reader.bound <= Len(ledger') /\ reader.cursor + Len(reader.rows) <= Len(ledger')
    BY <1>1, <1>2, <1>3 DEF PageKnown
  <2>2. schema # 13 => schema' # 13
    BY <1>1
  <2> QED BY <1>4, <2>1, <2>2 DEF PageKnown
<1>6. ViewKnown'
  <2>1. CASE reader.cursor = 0
    BY <2>1 DEF ViewKnown
  <2>2. CASE reader.cursor # 0
    <3>1. reader.cursor \in 1..Len(ledger) /\ 1 \in 1..Len(ledger)
      BY <1>1, <1>3, <2>2
    <3>2. past'[reader.cursor] = past[reader.cursor] /\ past'[1] = past[1]
      BY <1>2, <3>1
    <3> QED BY <2>2, <3>2 DEF ViewKnown
  <2> QED BY <2>1, <2>2
<1> QED BY <1>5, <1>6

\* A transaction whose statements keep what is known of the log keeps all (Commit).
LEMMA CommitSafe ==
  ASSUME ObservationInvariant, NEW log, Good(log), Continues(O!Begun, log), O!Commit(log)
  PROVE  ObservationInvariant'
<1>1. O!Begun' = log /\ db' = log.db
  <2>1. log = [db |-> log.db, ledger |-> log.ledger, past |-> log.past]
    BY DEF Good, LogTyped
  <2> QED BY <2>1 DEF O!Commit, O!Begun
<1>2. UNCHANGED <<schema, reader>> /\ schema \in 13..15 /\ reader \in ReaderType
  BY DEF O!Commit, ObservationInvariant, LedgerTyped
<1>3. LogTyped(O!Begun)'
  BY <1>1 DEF Good, LogTyped
<1>4. LedgerTyped'
  BY <1>2, <1>3 DEF LedgerTyped
<1>5. LogKnown(O!Begun)'
  BY <1>1, <1>2 DEF Good, LogKnown, HistoryLed, Shown
<1>6. LedgerKnown'
  BY <1>1, <1>5 DEF Good, LedgerKnown, O!Present
<1>7. PageKnown' /\ ViewKnown'
  BY <1>1, <1>2, <1>3, AppendKeepsReaders DEF ObservationInvariant
<1> QED BY <1>4, <1>6, <1>7 DEF ObservationInvariant

\* The invariant is about what a transaction begins with.
LEMMA BeginsGood ==
  ASSUME ObservationInvariant
  PROVE  Good(O!Begun) /\ schema \in 13..15 /\ db \in DbType /\ O!Begun.db = db
  BY DEF ObservationInvariant, LedgerTyped, LedgerKnown, Good, LogTyped, O!Begun

\* A transaction of one statement.
LEMMA OneStatementSafe ==
  ASSUME ObservationInvariant, NEW new, Change(db, new), O!Commit(O!Statement(O!Begun, new))
  PROVE  ObservationInvariant'
<1>1. Good(O!Statement(O!Begun, new)) /\ Continues(O!Begun, O!Statement(O!Begun, new))
  BY BeginsGood, StatementGood
<1> QED BY <1>1, CommitSafe

\* The state of a row is written, and the row is there (With).
LEMMA WithChanges ==
  ASSUME NEW d \in DbType, NEW n \in O!Nodes, NEW state \in {"open", "closed"}
  PROVE  /\ Change(d, O!With(d, n, state)) /\ O!With(d, n, state) \in DbType
         /\ O!With(d, n, state).row = [d.row EXCEPT ![n].state = state]
         /\ O!With(d, n, state).edges = d.edges /\ O!With(d, n, state).usage = d.usage
<1> DEFINE body == [d.row[n] EXCEPT !.state = state]
<1>1. d.row[n] \in RowType
  BY DEF DbType
<1>2. body \in RowType /\ body.state # "none" /\ body.reserved = d.row[n].reserved
  BY <1>1 DEF RowType, O!States
<1>3. O!With(d, n, state) = [d EXCEPT !.row[n] = body]
  BY DEF O!With, DbType
<1>4. RowChange(d, O!With(d, n, state), n, body)
  BY <1>2, <1>3 DEF RowChange
<1>5. Change(d, O!With(d, n, state))
  BY <1>2, <1>4 DEF Change
<1> QED BY <1>2, <1>3, <1>5 DEF DbType

\* A node is created (workflow create and the others).
LEMMA CreateNodeSafe ==
  ASSUME ObservationInvariant, NEW n \in O!Nodes, O!CreateNode(n)
  PROVE  ObservationInvariant'
  BY BeginsGood, WithChanges, OneStatementSafe DEF O!CreateNode

\* An operation ends (workspace _operation).
LEMMA SettleSafe ==
  ASSUME ObservationInvariant, NEW op \in Operations, O!Settle(op)
  PROVE  ObservationInvariant'
<1>1. op \in O!Nodes
  BY DEF O!Nodes
<1> QED BY <1>1, BeginsGood, WithChanges, OneStatementSafe DEF O!Settle

\* A workflow moves on or ends (workflow _advance_to).
LEMMA MoveFlowSafe ==
  ASSUME ObservationInvariant, NEW flow \in Flows, O!MoveFlow(flow)
  PROVE  ObservationInvariant'
<1>1. flow \in O!Nodes /\ db \in DbType
  BY BeginsGood DEF O!Nodes
<1>2. CASE O!Commit(O!Statement(O!Begun, O!With(db, flow, "closed")))
  BY <1>1, <1>2, WithChanges, OneStatementSafe
<1>3. CASE O!Commit(O!Statement(O!Begun, [db EXCEPT !.row[flow].phase = 3 - @]))
  <2> DEFINE new == [db EXCEPT !.row[flow].phase = 3 - @]
             body == [db.row[flow] EXCEPT !.phase = 3 - @]
  <2>1. db.row[flow] \in RowType /\ db.row[flow].state # "none"
    BY <1>1 DEF DbType, O!MoveFlow, O!State
  <2>2. body \in RowType /\ body.state # "none" /\ body.reserved = db.row[flow].reserved
    BY <2>1 DEF RowType
  <2>3. new = [db EXCEPT !.row[flow] = body]
    BY <1>1 DEF DbType
  <2>4. Change(db, new)
    BY <1>1, <2>2, <2>3 DEF Change, RowChange
  <2> QED BY <1>3, <2>4, OneStatementSafe
<1> QED BY <1>2, <1>3 DEF O!MoveFlow

\* A run ends, with its telemetry (execute).
LEMMA FinishRunSafe ==
  ASSUME ObservationInvariant, NEW run \in Runs, O!FinishRun(run)
  PROVE  ObservationInvariant'
<1> DEFINE ended == O!With(db, run, "closed")
           metered == [ended EXCEPT !.usage = @ \union {run}]
           one == O!Statement(O!Begun, ended)
           two == O!Statement(one, metered)
<1>1. Good(O!Begun) /\ schema \in 13..15 /\ db \in DbType /\ O!Begun.db = db
  BY BeginsGood
<1>2. Change(db, ended)
  BY <1>1, WithChanges DEF O!Nodes
<1>3. Good(one) /\ one.db = ended /\ Continues(O!Begun, one)
  BY <1>1, <1>2, StatementGood
<1>4. Change(ended, metered)
  BY DEF Change, UsageChange
<1>5. Good(two) /\ Continues(one, two)
  <2> HIDE DEF one, ended, metered
  <2> QED BY <1>1, <1>3, <1>4, StatementGood
<1>6. Continues(O!Begun, two)
  <2> HIDE DEF one, two
  <2> QED BY <1>1, <1>3, <1>5, ContinuesOnward DEF Good
<1>7. O!Commit(two)
  BY DEF O!FinishRun
<1> HIDE DEF two
<1> QED BY <1>5, <1>6, <1>7, CommitSafe

\* A run is reserved for a workflow (workflow record_in).
LEMMA ReserveRunSafe ==
  ASSUME ObservationInvariant, NEW flow \in Flows, NEW run \in Runs, O!ReserveRun(flow, run)
  PROVE  ObservationInvariant'
<1> DEFINE made == O!With(db, run, "open")
           edge == [made EXCEPT !.edges = @ \union {<<flow, run>>}]
           window == [edge EXCEPT !.row[flow].reserved = TRUE]
           one == O!Statement(O!Begun, made)
           two == O!Statement(one, edge)
           three == O!Statement(two, window)
<1>1. /\ Good(O!Begun) /\ schema \in 13..15 /\ db \in DbType /\ O!Begun.db = db
      /\ flow \in O!Nodes /\ run \in O!Nodes
  BY BeginsGood DEF O!Nodes
<1>2. /\ Change(db, made) /\ made \in DbType
      /\ made.row = [db.row EXCEPT ![run].state = "open"]
  BY <1>1, WithChanges
<1>3. Good(one) /\ one.db = made /\ Continues(O!Begun, one)
  BY <1>1, <1>2, StatementGood
<1> HIDE DEF made, one
<1>4. Change(made, edge) /\ edge \in DbType /\ edge.row = made.row
  <2>1. <<flow, run>> \in Flows \X Runs
    OBVIOUS
  <2>2. Change(made, edge)
    BY <2>1 DEF Change, EdgeChange
  <2> QED BY <1>2, <2>1, <2>2 DEF DbType
<1> HIDE DEF edge
<1>5. Good(two) /\ two.db = edge /\ Continues(one, two)
  BY <1>1, <1>3, <1>4, StatementGood
<1> HIDE DEF two
<1>6. Change(edge, window)
  <2> DEFINE body == [edge.row[flow] EXCEPT !.reserved = TRUE]
  <2>1. flow # run /\ db.row[flow].state = "open"
    BY DEF O!ReserveRun, O!State
  <2>2. edge.row[flow] = db.row[flow] /\ edge.row[flow] \in RowType
    BY <1>1, <1>2, <1>4, <2>1 DEF DbType
  <2>3. body \in RowType /\ body.state # "none" /\ body.reserved
    BY <2>1, <2>2 DEF RowType
  <2>4. window = [edge EXCEPT !.row[flow] = body]
    BY <1>1, <1>4 DEF DbType
  <2> QED BY <1>1, <2>3, <2>4 DEF Change, RowChange
<1>7. Good(three) /\ Continues(two, three)
  <2> HIDE DEF window
  <2> QED BY <1>1, <1>5, <1>6, StatementGood
<1>8. Continues(O!Begun, three)
  <2> HIDE DEF three
  <2>1. Continues(O!Begun, two)
    BY <1>1, <1>3, <1>5, ContinuesOnward DEF Good
  <2> QED BY <1>1, <1>5, <1>7, <2>1, ContinuesOnward DEF Good
<1>9. O!Commit(three)
  BY DEF O!ReserveRun, made, edge, one, two
<1> HIDE DEF three
<1> QED BY <1>7, <1>8, <1>9, CommitSafe

-----------------------------------------------------------------------------
(* Migrations.                                                               *)

\* The ledger begins with what is shown of the store (add_observation_schema).
LEMMA AddObservationSafe ==
  ASSUME ObservationInvariant, O!AddObservation
  PROVE  ObservationInvariant'
<1> DEFINE shown == O!Projection(db, {})
<1>1. /\ schema = 13 /\ schema' = 14 /\ db' = db /\ reader' = reader
      /\ past' = <<shown>>
  BY DEF O!AddObservation
<1>2. PICK groups \in {{"workflow", "run"}, {"workflow", "run", "operation"}} :
        ledger' = <<O!Event("baseline", "store", [groups |-> groups, shown |-> shown])>>
  BY DEF O!AddObservation
<1>3. Good(O!Begun) /\ db \in DbType /\ ledger = <<>> /\ reader \in ReaderType
  BY <1>1, BeginsGood
     DEF ObservationInvariant, LedgerKnown, LedgerTyped, LogKnown, O!Begun
<1>4. shown \in ShownType
  BY <1>3, ProjectionTyped
<1> HIDE DEF shown
<1> DEFINE e == O!Event("baseline", "store", [groups |-> groups, shown |-> shown])
<1>5. /\ e \in EventType /\ e.kind = "baseline" /\ e.body.shown = shown
      /\ {"workflow", "run"} \subseteq e.body.groups
  BY <1>4 DEF O!Event, EventType, BaselineType
<1> HIDE DEF e
<1>6. /\ ledger' = <<e>> /\ ledger' \in Seq(EventType) /\ Len(ledger') = 1 /\ ledger'[1] = e
      /\ past' \in Seq(ShownType) /\ Len(past') = 1 /\ past'[1] = shown
  BY <1>1, <1>2, <1>4, <1>5 DEF e
<1>7. LogTyped(O!Begun)'
  BY <1>1, <1>3, <1>6 DEF LogTyped, O!Begun
<1>8. Shown(db)' = shown
  BY <1>1 DEF Shown, shown
<1>9. LedgerKnown'
  <2>1. (\A i \in 2..Len(ledger) : Leads(past[i - 1], ledger[i], past[i]))'
    BY <1>6
  <2>2. O!Agrees(past[Len(past)], Shown(db))'
    BY <1>1, <1>6, <1>8, AgreesWithItself
  <2>3. HistoryLed(O!Begun)'
    BY <1>5, <1>6, <2>1, <2>2 DEF HistoryLed, O!Begun
  <2>4. LogKnown(O!Begun)'
    BY <1>1, <1>6, <2>3 DEF LogKnown, O!Begun
  <2> QED BY <1>1, <1>3, <2>4 DEF LedgerKnown, Good, O!Begun, O!Present
<1>10. Continues(O!Begun, O!Begun')
  BY <1>3, <1>6 DEF Continues, O!Begun
<1>11. PageKnown' /\ ViewKnown'
  BY <1>1, <1>7, <1>10, AppendKeepsReaders DEF ObservationInvariant
<1> QED BY <1>1, <1>3, <1>7, <1>9, <1>11 DEF ObservationInvariant, LedgerTyped

\* The operations there have been are added one by one (add_observer_v2_schema).
LEMMA AddOperationsSafe ==
  ASSUME ObservationInvariant, O!AddOperations
  PROVE  ObservationInvariant'
<1> DEFINE new == Operations \intersect O!Present(db)
           ops == O!SetToSeq(new)
           n == Len(ledger)
           k == Len(ops)
           Upto(i) == O!Projection(db, {ops[j] : j \in 1..i})
           events == [i \in DOMAIN ops |-> O!Event("node_created", ops[i], db.row[ops[i]])]
           shown == [i \in DOMAIN ops |-> Upto(i)]
<1>1. /\ schema = 14 /\ schema' = 15 /\ db' = db /\ reader' = reader
      /\ ledger' = ledger \o events /\ past' = past \o shown
  BY DEF O!AddOperations
<1>2. /\ Good(O!Begun) /\ LogTyped(O!Begun) /\ db \in DbType /\ reader \in ReaderType
      /\ ledger # <<>> /\ HistoryLed(O!Begun)
  BY <1>1, BeginsGood
     DEF ObservationInvariant, LedgerKnown, LedgerTyped, LogKnown, O!Begun, Good
<1>3. /\ ledger \in Seq(EventType) /\ past \in Seq(ShownType) /\ n \in Nat \ {0}
      /\ Len(past) = n
  BY <1>2 DEF LogTyped, O!Begun
<1>4. /\ ops \in Seq(new) /\ DOMAIN ops = 1..k /\ k \in Nat
      /\ \A i, j \in 1..k : ops[i] = ops[j] => i = j
      /\ new = {ops[i] : i \in 1..k}
  <2>1. IsFiniteSet(new)
    BY <1>2 DEF Good, O!Begun
  <2> HIDE DEF new
  <2>2. /\ O!SetToSeq(new) \in Seq(new)
        /\ DOMAIN O!SetToSeq(new) = 1..Len(O!SetToSeq(new))
        /\ \A i, j \in 1..Len(O!SetToSeq(new)) :
             O!SetToSeq(new)[i] = O!SetToSeq(new)[j] => i = j
        /\ new = {O!SetToSeq(new)[i] : i \in 1..Len(O!SetToSeq(new))}
    BY <2>1, SeqOfSet
  <2>3. Len(ops) \in Nat
    BY <2>2
  <2> QED BY <2>2, <2>3
<1> HIDE DEF ops
<1>5. \A i \in 1..k : ops[i] \in new /\ ops[i] \in O!Nodes /\ db.row[ops[i]] \in RowType
  BY <1>2, <1>4 DEF O!Nodes, DbType
<1>6. \A i \in 1..k : events[i] \in EventType
  BY <1>4, <1>5 DEF O!Event, EventType
<1>7. \A i \in 0..k : Upto(i) \in ShownType
  BY <1>2, ProjectionTyped
<1>8. events \in Seq(EventType) /\ Len(events) = k
  <2> HIDE DEF events
  <2>1. events \in [1..k -> EventType]
    BY <1>4, <1>6 DEF events
  <2> QED BY <1>4, <2>1
<1>9. shown \in Seq(ShownType) /\ Len(shown) = k
  <2> HIDE DEF shown, Upto
  <2>1. shown \in [1..k -> ShownType]
    BY <1>4, <1>7 DEF shown
  <2> QED BY <1>4, <2>1
<1>10. \A i \in 1..k : /\ events[i] = O!Event("node_created", ops[i], db.row[ops[i]])
                       /\ shown[i] = Upto(i)
  BY <1>4
<1> HIDE DEF events, shown
<1>11. /\ ledger' \in Seq(EventType) /\ Len(ledger') = n + k
       /\ \A i \in 1..n + k : ledger'[i] = IF i <= n THEN ledger[i] ELSE events[i - n]
  <2>1. /\ ledger \o events \in Seq(EventType) /\ Len(ledger \o events) = Len(ledger) + Len(events)
        /\ \A i \in 1..Len(ledger) + Len(events) :
             (ledger \o events)[i] = IF i <= Len(ledger) THEN ledger[i] ELSE events[i - Len(ledger)]
    <3>1. ledger \in Seq(EventType) /\ events \in Seq(EventType)
      BY <1>3, <1>8
    <3> QED BY <3>1, ConcatProperties, Zenon
  <2> QED BY <1>1, <1>8, <2>1
<1>12. /\ past' \in Seq(ShownType) /\ Len(past') = n + k
       /\ \A i \in 1..n + k : past'[i] = IF i <= n THEN past[i] ELSE shown[i - n]
  <2>1. /\ past \o shown \in Seq(ShownType) /\ Len(past \o shown) = Len(past) + Len(shown)
        /\ \A i \in 1..Len(past) + Len(shown) :
             (past \o shown)[i] = IF i <= Len(past) THEN past[i] ELSE shown[i - Len(past)]
    <3>1. past \in Seq(ShownType) /\ shown \in Seq(ShownType)
      BY <1>3, <1>9
    <3> QED BY <3>1, ConcatProperties, Zenon
  <2> QED BY <1>1, <1>3, <1>9, <2>1
<1>13. O!Agrees(past[n], Upto(0))
  <2>1. {ops[j] : j \in 1..0} = {}
    OBVIOUS
  <2>2. O!Agrees(past[n], O!Projection(db, {}))
    BY <1>1, <1>2, <1>3 DEF HistoryLed, O!Begun, Shown
  <2> QED BY <2>1, <2>2
<1>14. ASSUME NEW a, NEW i \in 1..k, O!Agrees(a, Upto(i - 1))
       PROVE  Leads(a, events[i], Upto(i))
  <2> DEFINE body == db.row[ops[i]]
             before == {ops[j] : j \in 1..i - 1}
             after == {ops[j] : j \in 1..i}
  <2>1. after = before \union {ops[i]} /\ ops[i] \notin before
    <3>1. 1..i = (1..i - 1) \union {i} /\ i \notin 1..i - 1 /\ 1..i \subseteq 1..k
      BY <1>4
    <3> QED BY <1>4, <3>1
  <2>2. /\ events[i].kind = "node_created" /\ events[i].id = ops[i] /\ events[i].body = body
        /\ ops[i] \in Operations /\ ops[i] \in O!Present(db) /\ ops[i] \in O!Nodes
    <3>1. events[i] = O!Event("node_created", ops[i], body)
      BY <1>10
    <3>2. ops[i] \in new /\ ops[i] \in O!Nodes
      BY <1>5
    <3> QED BY <3>1, <3>2 DEF O!Event
  <2>3. /\ Upto(i) = O!Projection(db, after) /\ Upto(i - 1) = O!Projection(db, before)
    OBVIOUS
  <2> HIDE DEF before, after, Upto
  <2>4. /\ ops[i] \notin DOMAIN Upto(i - 1).nodes
        /\ Upto(i).nodes = O!Put(Upto(i - 1).nodes, ops[i], body)
        /\ Upto(i).edges = Upto(i - 1).edges /\ Upto(i).usage = Upto(i - 1).usage
    BY <2>1, <2>2, <2>3 DEF O!Projection, O!Put
  <2> HIDE DEF body
  <2>5. ops[i] \notin DOMAIN a.nodes
    BY <1>14, <2>4 DEF O!Agrees
  <2>6. O!Agrees([nodes |-> O!Put(a.nodes, ops[i], body), edges |-> a.edges, usage |-> a.usage],
                 Upto(i))
    BY <1>14, <2>4 DEF O!Agrees, O!Put
  <2> QED BY <2>2, <2>5, <2>6 DEF Leads
<1>15. /\ \A i \in 1..n : ledger'[i] = ledger[i] /\ past'[i] = past[i]
       /\ \A i \in 1..k : ledger'[n + i] = events[i] /\ past'[n + i] = Upto(i)
  <2> HIDE DEF Upto
  <2>1. \A i \in 1..n : ledger'[i] = ledger[i] /\ past'[i] = past[i]
    BY <1>3, <1>4, <1>11, <1>12
  <2>2. ASSUME NEW i \in 1..k PROVE ledger'[n + i] = events[i] /\ past'[n + i] = Upto(i)
    <3>1. n + i \in 1..n + k /\ ~(n + i <= n) /\ n + i - n = i
      BY <1>3, <1>4
    <3> QED BY <1>10, <1>11, <1>12, <3>1
  <2> QED BY <2>1, <2>2
<1>16. \A i \in 0..k : O!Agrees(past'[n + i], Upto(i))
  <2> SUFFICES ASSUME NEW i \in 0..k PROVE O!Agrees(past'[n + i], Upto(i))
    OBVIOUS
  <2> HIDE DEF Upto
  <2>1. CASE i = 0
    BY <1>3, <1>13, <1>15, <2>1
  <2>2. CASE i \in 1..k
    BY <1>15, <2>2, AgreesWithItself
  <2> QED BY <1>4, <2>1, <2>2
<1>17. \A i \in 2..n + k : Leads(past'[i - 1], ledger'[i], past'[i])
  <2> SUFFICES ASSUME NEW i \in 2..n + k PROVE Leads(past'[i - 1], ledger'[i], past'[i])
    OBVIOUS
  <2> HIDE DEF Upto
  <2>1. CASE i <= n
    <3>1. i - 1 \in 1..n /\ i \in 1..n /\ i \in 2..n
      BY <1>3, <1>4, <2>1
    <3>2. Leads(past[i - 1], ledger[i], past[i])
      BY <1>2, <3>1 DEF HistoryLed, O!Begun
    <3> QED BY <1>15, <3>1, <3>2
  <2>2. CASE i > n
    <3> DEFINE m == i - n
    <3>1. m \in 1..k /\ m - 1 \in 0..k /\ i = n + m /\ i - 1 = n + (m - 1)
      BY <1>3, <1>4, <2>2
    <3> HIDE DEF m
    <3>2. O!Agrees(past'[n + (m - 1)], Upto(m - 1))
      BY <1>16, <3>1
    <3>3. Leads(past'[n + (m - 1)], events[m], Upto(m))
      BY <1>14, <3>1, <3>2
    <3> QED BY <1>15, <3>1, <3>3
  <2> QED BY <1>3, <1>4, <2>1, <2>2
<1>18. Shown(db)' = Upto(k)
  <2>1. {x \in O!Present(db) : x \in Operations => x \in Operations} =
          {x \in O!Present(db) : x \in Operations => x \in {ops[j] : j \in 1..k}}
    BY <1>4
  <2>2. Shown(db)' = O!Projection(db, Operations)
    BY <1>1 DEF Shown
  <2> QED BY <2>1, <2>2 DEF O!Projection
<1>19. O!Agrees(past[Len(past)], Shown(db))'
  <2>1. k \in 0..k
    BY <1>4
  <2>2. O!Agrees(past'[n + k], Upto(k))
    BY <1>16, <2>1
  <2> QED BY <1>12, <1>18, <2>2
<1> HIDE DEF Upto
<1>20. LogTyped(O!Begun)'
  BY <1>1, <1>2, <1>11, <1>12 DEF LogTyped, O!Begun
<1>21. Continues(O!Begun, O!Begun')
  BY <1>3, <1>4, <1>11, <1>15 DEF Continues, O!Begun
<1>22. LedgerKnown'
  <2>1. 1 \in 1..n /\ ledger' # <<>>
    BY <1>3, <1>4, <1>11
  <2>2. /\ ledger'[1].kind = "baseline" /\ ledger'[1].body.shown = past'[1]
        /\ {"workflow", "run"} \subseteq ledger'[1].body.groups
    BY <1>2, <1>15, <2>1 DEF HistoryLed, O!Begun
  <2>3. HistoryLed(O!Begun)'
    BY <1>11, <1>17, <1>19, <2>2 DEF HistoryLed, O!Begun
  <2>4. LogKnown(O!Begun)'
    BY <1>1, <2>1, <2>3 DEF LogKnown, O!Begun
  <2> QED BY <1>1, <1>2, <2>4 DEF LedgerKnown, Good, O!Begun, O!Present
<1>23. PageKnown' /\ ViewKnown'
  BY <1>1, <1>20, <1>21, AppendKeepsReaders DEF ObservationInvariant
<1> QED BY <1>1, <1>2, <1>20, <1>22, <1>23 DEF ObservationInvariant, LedgerTyped

-----------------------------------------------------------------------------
(* Readers.                                                                  *)

\* What an exclusive cursor, an inclusive one and a limit select (_select).
LEMMA SelectsNext ==
  ASSUME ledger \in Seq(EventType), NEW after \in 0..Len(ledger), NEW through \in Nat,
         NEW limit \in Nat \ {0}
  PROVE  LET rows == O!Select(after, through, limit)
         IN  /\ rows \in Seq(EventType) /\ Len(rows) <= limit
             /\ after + Len(rows) <= Len(ledger)
             /\ \A i \in 1..Len(rows) : rows[i] = ledger[after + i]
             /\ after <= through => after + Len(rows) <= through
             /\ after <= through /\ through <= Len(ledger) /\ Len(rows) < limit =>
                  after + Len(rows) = through
<1> DEFINE rows == O!Select(after, through, limit)
           Least(n) == n <= through /\ n <= after + limit /\ n <= Len(ledger)
           last == CHOOSE n \in {through, after + limit, Len(ledger)} : Least(n)
<1>1. Len(ledger) \in Nat /\ after \in Nat /\ after <= Len(ledger)
  OBVIOUS
<1>2. \E n \in {through, after + limit, Len(ledger)} : Least(n)
  BY <1>1
<1>3. last \in {through, after + limit, Len(ledger)} /\ Least(last)
  BY <1>2
<1>4. rows = SubSeq(ledger, after + 1, last)
  BY DEF O!Select
<1> HIDE DEF last
<1>5. last \in Nat /\ last <= through /\ last <= after + limit /\ last <= Len(ledger)
  BY <1>1, <1>3
<1>6. \A i \in after + 1..last : ledger[i] \in EventType
  BY <1>1, <1>5
<1>7. /\ SubSeq(ledger, after + 1, last) \in Seq(EventType)
      /\ Len(SubSeq(ledger, after + 1, last)) =
           IF after + 1 <= last THEN last - (after + 1) + 1 ELSE 0
      /\ \A i \in 1..last - (after + 1) + 1 :
           SubSeq(ledger, after + 1, last)[i] = ledger[after + 1 + i - 1]
  <2>1. after + 1 \in Int /\ last \in Int
    BY <1>1, <1>5
  <2> QED BY <1>6, <2>1, SubSeqProperties
<1> HIDE DEF rows
<1>8. /\ rows \in Seq(EventType)
      /\ Len(rows) = IF after < last THEN last - after ELSE 0
  BY <1>1, <1>4, <1>5, <1>7
<1>9. \A i \in 1..Len(rows) : rows[i] = ledger[after + i]
  <2> SUFFICES ASSUME NEW i \in 1..Len(rows) PROVE rows[i] = ledger[after + i]
    OBVIOUS
  <2>1. i \in 1..last - (after + 1) + 1 /\ after + 1 + i - 1 = after + i
    BY <1>1, <1>5, <1>8
  <2> QED BY <1>4, <1>7, <2>1
<1>10. /\ Len(rows) <= limit /\ after + Len(rows) <= Len(ledger)
       /\ after <= through => after + Len(rows) <= through
       /\ after <= through /\ through <= Len(ledger) /\ Len(rows) < limit =>
            after + Len(rows) = through
  BY <1>1, <1>3, <1>5, <1>8
<1> QED BY <1>8, <1>9, <1>10 DEF rows

\* A reader's step that leaves the ledger alone has only itself to answer for.
LEMMA ReaderMoves ==
  ASSUME ObservationInvariant, UNCHANGED <<schema, db, ledger, past>>, reader' \in ReaderType,
         PageKnown', ViewKnown'
  PROVE  ObservationInvariant'
<1>1. O!Begun' = O!Begun
  BY DEF O!Begun
<1>2. LedgerTyped'
  BY <1>1 DEF ObservationInvariant, LedgerTyped, LogTyped
<1>3. LedgerKnown'
  BY <1>1 DEF ObservationInvariant, LedgerKnown, LogKnown, HistoryLed, Shown, O!Present
<1> QED BY <1>2, <1>3 DEF ObservationInvariant

\* What every step of a reader begins with.
LEMMA ReaderTyped ==
  ASSUME ObservationInvariant
  PROVE  /\ reader \in ReaderType /\ ledger \in Seq(EventType) /\ past \in Seq(ShownType)
         /\ Len(ledger) \in Nat /\ Len(past) = Len(ledger)
         /\ reader.cursor \in Nat /\ reader.bound \in Nat /\ reader.rows \in Seq(EventType)
         /\ Len(reader.rows) \in Nat /\ reader.cursor + Len(reader.rows) <= Len(ledger)
         /\ reader.cursor \in 0..Len(ledger) /\ reader.view \in ViewType
         /\ reader.pc # "idle" => schema # 13 /\ Len(ledger) > 0
<1>1. /\ reader \in ReaderType /\ ledger \in Seq(EventType) /\ past \in Seq(ShownType)
      /\ Len(past) = Len(ledger)
  BY DEF ObservationInvariant, LedgerTyped, LogTyped, O!Begun
<1>2. Len(ledger) \in Nat
  BY <1>1
<1>3. /\ reader.cursor \in Nat /\ reader.bound \in Nat /\ reader.rows \in Seq(EventType)
      /\ Len(reader.rows) \in Nat /\ reader.view \in ViewType
  BY <1>1 DEF ReaderType
<1>4. reader.cursor + Len(reader.rows) <= Len(ledger)
  BY DEF ObservationInvariant, PageKnown
<1>5. schema # 13 => Len(ledger) > 0
  BY <1>1, <1>2 DEF ObservationInvariant, LedgerKnown, LogKnown, O!Begun
<1>6. reader.pc # "idle" => schema # 13
  BY DEF ObservationInvariant, PageKnown
<1> QED BY <1>1, <1>2, <1>3, <1>4, <1>5, <1>6

\* A replay begins anew (replay).
LEMMA StartReplaySafe ==
  ASSUME ObservationInvariant, NEW through \in 0..Len(ledger), O!StartReplay(through)
  PROVE  ObservationInvariant'
<1>1. reader' = [O!Idle EXCEPT !.pc = "replay", !.bound = through]
  BY DEF O!StartReplay
<1>2. O!Unread \in ViewType
  <2>1. O!Empty \in [{} -> RowType]
    BY DEF O!Empty
  <2>2. O!Empty \in NodeMaps
    BY <2>1 DEF NodeMaps
  <2> QED BY <2>2 DEF O!Unread, ViewType
<1>3. /\ reader'.pc = "replay" /\ reader'.bound = through /\ reader'.cursor = 0
      /\ reader'.rows = <<>> /\ reader'.view = O!Unread /\ reader' \in ReaderType
  <2>1. reader' = [pc |-> "replay", bound |-> through, cursor |-> 0, rows |-> <<>>,
                   next |-> "idle", view |-> O!Unread]
    BY <1>1 DEF O!Idle
  <2>2. through \in Nat /\ <<>> \in Seq(EventType)
    BY ReaderTyped
  <2> QED BY <1>2, <2>1, <2>2 DEF ReaderType
<1>4. UNCHANGED <<schema, db, ledger, past>> /\ schema # 13
  BY DEF O!StartReplay
<1>5. PageKnown' /\ ViewKnown'
  BY <1>3, <1>4, ReaderTyped DEF PageKnown, ViewKnown
<1> QED BY <1>3, <1>4, <1>5, ReaderMoves

\* A page is selected (replay).
LEMMA ReadPageSafe ==
  ASSUME ObservationInvariant, O!ReadPage
  PROVE  ObservationInvariant'
<1> DEFINE rows == O!Select(reader.cursor, reader.bound, PageSize)
           next == IF Len(rows) < PageSize THEN "done" ELSE "replay"
<1>1. /\ reader.pc = "replay" /\ UNCHANGED <<schema, db, ledger, past>>
      /\ reader' = [reader EXCEPT !.pc = "fold", !.rows = rows, !.bound = reader.bound,
                      !.next = next]
  BY DEF O!ReadPage, O!Selected
<1>2. /\ reader.rows = <<>> /\ reader.cursor <= reader.bound /\ reader.bound <= Len(ledger)
      /\ schema # 13
  BY <1>1, ReaderTyped DEF ObservationInvariant, PageKnown
<1>3. PageSize \in Nat \ {0}
  BY LedgerAssumption DEF O!ObservationAssumption
<1>4. /\ rows \in Seq(EventType) /\ Len(rows) \in Nat /\ Len(rows) <= PageSize
      /\ reader.cursor + Len(rows) <= Len(ledger)
      /\ \A i \in 1..Len(rows) : rows[i] = ledger[reader.cursor + i]
      /\ reader.cursor + Len(rows) <= reader.bound
      /\ Len(rows) < PageSize => reader.cursor + Len(rows) = reader.bound
  <2>1. /\ ledger \in Seq(EventType) /\ reader.cursor \in 0..Len(ledger)
        /\ reader.bound \in Nat
    BY ReaderTyped
  <2>2. /\ rows \in Seq(EventType) /\ Len(rows) <= PageSize
        /\ reader.cursor + Len(rows) <= Len(ledger)
        /\ \A i \in 1..Len(rows) : rows[i] = ledger[reader.cursor + i]
        /\ reader.cursor <= reader.bound => reader.cursor + Len(rows) <= reader.bound
        /\ /\ reader.cursor <= reader.bound /\ reader.bound <= Len(ledger)
           /\ Len(rows) < PageSize
           => reader.cursor + Len(rows) = reader.bound
    BY <1>3, <2>1, SelectsNext, Zenon
  <2> HIDE DEF rows
  <2> QED BY <1>2, <2>2
<1> HIDE DEF rows
<1>5. /\ reader'.pc = "fold" /\ reader'.rows = rows /\ reader'.bound = reader.bound
      /\ reader'.next = next /\ reader'.cursor = reader.cursor /\ reader'.view = reader.view
      /\ reader' \in ReaderType
  BY <1>1, <1>4, ReaderTyped DEF ReaderType
<1>6. PageKnown'
  BY <1>1, <1>2, <1>4, <1>5 DEF PageKnown
<1>7. ViewKnown'
  BY <1>1, <1>5 DEF ObservationInvariant, ViewKnown
<1> QED BY <1>1, <1>5, <1>6, <1>7, ReaderMoves

\* A page after the cursor is asked for (events).
LEMMA FollowPageSafe ==
  ASSUME ObservationInvariant, O!FollowPage
  PROVE  ObservationInvariant'
<1> DEFINE rows == O!Select(reader.cursor, MaxEvents, PageSize + 1)
           more == Len(rows) > PageSize
           page == IF more THEN SubSeq(rows, 1, PageSize) ELSE rows
           next == IF more THEN "follow" ELSE "done"
<1>1. /\ reader.pc \in {"done", "follow"} /\ UNCHANGED <<schema, db, ledger, past>>
      /\ reader' = [reader EXCEPT !.pc = "fold", !.rows = page,
                      !.bound = reader.cursor + Len(page), !.next = next]
  BY DEF O!FollowPage, O!Selected
<1>2. reader.cursor > 0 /\ schema # 13
  BY <1>1 DEF ObservationInvariant, PageKnown
<1>3. PageSize \in Nat \ {0} /\ MaxEvents \in Nat
  BY LedgerAssumption DEF O!ObservationAssumption
<1>4. /\ rows \in Seq(EventType) /\ Len(rows) \in Nat
      /\ reader.cursor + Len(rows) <= Len(ledger)
      /\ \A i \in 1..Len(rows) : rows[i] = ledger[reader.cursor + i]
  <2>1. PageSize + 1 \in Nat \ {0}
    BY <1>3
  <2>2. ledger \in Seq(EventType) /\ reader.cursor \in 0..Len(ledger)
    BY ReaderTyped
  <2>3. /\ rows \in Seq(EventType) /\ Len(rows) <= PageSize + 1
        /\ reader.cursor + Len(rows) <= Len(ledger)
        /\ \A i \in 1..Len(rows) : rows[i] = ledger[reader.cursor + i]
        /\ reader.cursor <= MaxEvents => reader.cursor + Len(rows) <= MaxEvents
        /\ /\ reader.cursor <= MaxEvents /\ MaxEvents <= Len(ledger)
           /\ Len(rows) < PageSize + 1
           => reader.cursor + Len(rows) = MaxEvents
    BY <1>3, <2>1, <2>2, SelectsNext, Zenon
  <2> HIDE DEF rows
  <2> QED BY <2>3
<1> HIDE DEF rows
<1>5. /\ page \in Seq(EventType) /\ Len(page) \in Nat /\ Len(page) <= Len(rows)
      /\ \A i \in 1..Len(page) : page[i] = ledger[reader.cursor + i]
  <2>1. CASE more
    <3>1. \A i \in 1..PageSize : rows[i] \in EventType
      BY <1>3, <1>4, <2>1
    <3>2. /\ SubSeq(rows, 1, PageSize) \in Seq(EventType)
          /\ Len(SubSeq(rows, 1, PageSize)) = IF 1 <= PageSize THEN PageSize - 1 + 1 ELSE 0
          /\ \A i \in 1..PageSize - 1 + 1 : SubSeq(rows, 1, PageSize)[i] = rows[1 + i - 1]
      <4>1. 1 \in Int /\ PageSize \in Int
        BY <1>3
      <4> QED BY <3>1, <4>1, SubSeqProperties
    <3>3. /\ Len(page) = PageSize /\ page \in Seq(EventType)
          /\ \A i \in 1..PageSize : page[i] = rows[i]
      BY <1>3, <2>1, <3>2
    <3> HIDE DEF page
    <3> QED BY <1>3, <1>4, <2>1, <3>3
  <2>2. CASE ~more
    BY <1>4, <2>2
  <2> QED BY <2>1, <2>2
<1> HIDE DEF page, more
<1>6. /\ reader'.pc = "fold" /\ reader'.rows = page
      /\ reader'.bound = reader.cursor + Len(page)
      /\ reader'.next = next /\ reader'.cursor = reader.cursor /\ reader'.view = reader.view
      /\ reader' \in ReaderType
  <2>1. reader.cursor + Len(page) \in Nat /\ next \in {"follow", "done"}
    BY <1>5, ReaderTyped
  <2> HIDE DEF next
  <2> QED BY <1>1, <1>5, <2>1, ReaderTyped DEF ReaderType
<1>7. PageKnown'
  BY <1>1, <1>2, <1>4, <1>5, <1>6, ReaderTyped DEF PageKnown
<1>8. ViewKnown'
  BY <1>1, <1>6 DEF ObservationInvariant, ViewKnown
<1> QED BY <1>1, <1>6, <1>7, <1>8, ReaderMoves

\* One row of the page is folded: the baseline first, then what leads on (_seed, _fold).
LEMMA FoldRowSafe ==
  ASSUME ObservationInvariant, O!FoldRow
  PROVE  ObservationInvariant'
<1> DEFINE e == Head(reader.rows)
           view == O!Fold(reader.view, e)
           n == reader.cursor + 1
<1>1. /\ reader.pc = "fold" /\ reader.rows # <<>> /\ UNCHANGED <<schema, db, ledger, past>>
      /\ reader' = [reader EXCEPT !.view = view, !.cursor = @ + 1, !.rows = Tail(@),
                      !.pc = IF view.error THEN "failed" ELSE "fold"]
  BY DEF O!FoldRow
<1>2. /\ Tail(reader.rows) \in Seq(EventType) /\ Len(Tail(reader.rows)) = Len(reader.rows) - 1
      /\ \A i \in 1..Len(Tail(reader.rows)) : Tail(reader.rows)[i] = reader.rows[i + 1]
  BY <1>1, ReaderTyped, HeadTailProperties
<1>3. e = reader.rows[1] /\ Len(reader.rows) \in Nat \ {0}
  BY <1>1, ReaderTyped
<1>4. e = ledger[n] /\ n \in 1..Len(ledger) /\ e \in EventType
  <2>1. 1 \in 1..Len(reader.rows)
    BY <1>3
  <2>2. reader.rows[1] = ledger[reader.cursor + 1]
    BY <2>1 DEF ObservationInvariant, PageKnown
  <2>3. n \in 1..Len(ledger)
    BY <1>3, ReaderTyped
  <2> QED BY <1>3, <2>2, <2>3, ReaderTyped
<1>5. schema # 13 /\ HistoryLed(O!Begun)
  BY <1>1, ReaderTyped DEF ObservationInvariant, LedgerKnown, LogKnown
<1>6. /\ view \in ViewType /\ view.seen /\ ~view.error
      /\ {"workflow", "run"} \subseteq view.groups
      /\ O!Agrees(view, past[n])
      /\ view.fidelity = "complete" => past[1] = [nodes |-> O!Empty, edges |-> {}, usage |-> {}]
  <2>1. CASE reader.cursor = 0
    <3>1. reader.view = O!Unread /\ n = 1
      BY <2>1 DEF ObservationInvariant, ViewKnown
    <3>2. /\ e.kind = "baseline" /\ e.body.shown = past[1]
          /\ {"workflow", "run"} \subseteq e.body.groups
      BY <1>4, <1>5, <3>1 DEF HistoryLed, O!Begun
    <3> HIDE DEF e
    <3> QED BY <1>4, <3>1, <3>2, FoldBegins
  <2>2. CASE reader.cursor # 0
    <3>1. /\ reader.view.seen /\ ~reader.view.error
          /\ {"workflow", "run"} \subseteq reader.view.groups
          /\ O!Agrees(reader.view, past[reader.cursor])
          /\ reader.view.fidelity = "complete" =>
               past[1] = [nodes |-> O!Empty, edges |-> {}, usage |-> {}]
      BY <2>2 DEF ObservationInvariant, ViewKnown
    <3>2. n \in 2..Len(ledger) /\ n - 1 = reader.cursor /\ reader.cursor \in 1..Len(ledger)
      BY <1>4, <2>2, ReaderTyped
    <3>3. Leads(past[n - 1], ledger[n], past[n])
      BY <1>5, <3>2 DEF HistoryLed, O!Begun
    <3>4. past[n] \in ShownType /\ past[reader.cursor] \in ShownType
      BY <1>4, <3>2, ReaderTyped
    <3>5. Leads(past[reader.cursor], e, past[n])
      BY <1>4, <3>2, <3>3
    <3> HIDE DEF e, n
    <3> QED BY <1>4, <3>1, <3>4, <3>5, ReaderTyped, FoldFollows
  <2> QED BY <2>1, <2>2
<1> HIDE DEF view
<1>7. /\ reader'.pc = "fold" /\ reader'.rows = Tail(reader.rows)
      /\ reader'.bound = reader.bound /\ reader'.next = reader.next
      /\ reader'.cursor = n /\ reader'.view = view /\ reader' \in ReaderType
  <2>1. n \in Nat
    BY ReaderTyped
  <2>2. reader' = [reader EXCEPT !.pc = "fold", !.rows = Tail(reader.rows), !.cursor = n,
                     !.view = view]
    BY <1>1, <1>6, ReaderTyped DEF ReaderType
  <2> HIDE DEF n
  <2> QED BY <1>1, <1>2, <1>6, <2>1, <2>2, ReaderTyped DEF ReaderType
<1>8. \A i \in 1..Len(Tail(reader.rows)) : Tail(reader.rows)[i] = ledger[n + i]
  <2> SUFFICES ASSUME NEW i \in 1..Len(Tail(reader.rows))
               PROVE  Tail(reader.rows)[i] = ledger[n + i]
    OBVIOUS
  <2>1. i + 1 \in 1..Len(reader.rows) /\ reader.cursor + (i + 1) = n + i
    BY <1>2, <1>3, ReaderTyped
  <2>2. reader.rows[i + 1] = ledger[reader.cursor + (i + 1)]
    BY <2>1 DEF ObservationInvariant, PageKnown
  <2> QED BY <1>2, <2>1, <2>2
<1>9. n + Len(Tail(reader.rows)) = reader.cursor + Len(reader.rows)
  BY <1>2, <1>3, ReaderTyped
<1>10. PageKnown'
  BY <1>1, <1>7, <1>8, <1>9 DEF ObservationInvariant, PageKnown
<1>11. ViewKnown'
  BY <1>1, <1>4, <1>6, <1>7 DEF ViewKnown
<1> QED BY <1>1, <1>7, <1>10, <1>11, ReaderMoves

\* After the last row the next page is read, or the reader has what it asked for (replay).
LEMMA EndPageSafe ==
  ASSUME ObservationInvariant, O!EndPage
  PROVE  ObservationInvariant'
<1>1. /\ reader.pc = "fold" /\ reader.rows = <<>> /\ UNCHANGED <<schema, db, ledger, past>>
      /\ reader' = [reader EXCEPT !.pc = IF reader.next = "done" /\ ~reader.view.seen
                                         THEN "failed" ELSE reader.next]
  BY DEF O!EndPage
<1>2. /\ reader'.rows = <<>> /\ reader'.bound = reader.bound /\ reader'.next = reader.next
      /\ reader'.cursor = reader.cursor /\ reader'.view = reader.view /\ reader' \in ReaderType
      /\ reader'.pc = IF reader.next = "done" /\ ~reader.view.seen THEN "failed"
                      ELSE reader.next
  BY <1>1, ReaderTyped DEF ReaderType
<1>3. /\ reader.cursor <= reader.bound /\ reader.next \in {"replay", "follow", "done"}
      /\ reader.next # "replay" => reader.cursor = reader.bound
      /\ reader.next = "follow" => reader.cursor > 0
  BY <1>1, ReaderTyped DEF ObservationInvariant, PageKnown, ReaderType
<1>4. reader.view.seen <=> reader.cursor # 0
  BY DEF ObservationInvariant, ViewKnown, O!Unread
<1>5. PageKnown'
  <2>1. /\ schema # 13 /\ Len(reader.rows) = 0 /\ Len(<<>>) = 0
        /\ reader.bound <= Len(ledger) /\ reader.cursor <= Len(ledger)
        /\ reader.cursor + 0 = reader.cursor
    BY <1>1, ReaderTyped DEF ObservationInvariant, PageKnown
  <2>2. /\ reader'.pc \in {"replay", "follow", "done", "failed"}
        /\ reader'.pc = "failed" => reader.bound = 0
        /\ reader'.pc \in {"done", "follow"} =>
             reader.cursor = reader.bound /\ reader.cursor > 0
    BY <1>2, <1>3, <1>4, ReaderTyped
  <2> QED BY <1>1, <1>2, <1>3, <2>1, <2>2 DEF PageKnown
<1>6. ViewKnown'
  BY <1>1, <1>2 DEF ObservationInvariant, ViewKnown
<1> QED BY <1>1, <1>2, <1>5, <1>6, ReaderMoves

-----------------------------------------------------------------------------
(* All behaviours.                                                           *)

\* Before the ledger nothing is known and nothing is shown (OBSERVATION_LEDGER).
LEMMA ObservationStarts == O!Init => ObservationInvariant
<1> SUFFICES ASSUME O!Init PROVE ObservationInvariant
  OBVIOUS
<1>1. /\ schema = 13 /\ db = [row |-> [n \in O!Nodes |-> O!Absent], edges |-> {}, usage |-> {}]
      /\ ledger = <<>> /\ past = <<>> /\ reader = O!Idle
  BY DEF O!Init
<1>2. db \in DbType
  BY <1>1 DEF DbType, RowType, O!Absent, O!States
<1>3. LogTyped(O!Begun)
  BY <1>1, <1>2 DEF LogTyped, O!Begun
<1>4. O!Idle \in ReaderType
  <2>1. O!Empty \in [{} -> RowType]
    BY DEF O!Empty
  <2>2. O!Empty \in NodeMaps
    BY <2>1 DEF NodeMaps
  <2>3. O!Unread \in ViewType
    BY <2>2 DEF O!Unread, ViewType
  <2> QED BY <2>3 DEF O!Idle, ReaderType
<1>5. LedgerKnown
  <2>1. O!Present(db) = {}
    BY <1>1 DEF O!Present, O!Absent
  <2>2. IsFiniteSet(Operations \intersect O!Present(db))
    BY <2>1, FS_EmptySet
  <2> QED BY <1>1, <2>2 DEF LedgerKnown, LogKnown, O!Begun
<1>6. PageKnown /\ ViewKnown
  BY <1>1 DEF PageKnown, ViewKnown, O!Idle
<1> QED BY <1>1, <1>3, <1>4, <1>5, <1>6 DEF ObservationInvariant, LedgerTyped

\* Every step of the ledger and its readers keeps the invariant.
LEMMA ObservationSteps ==
  ASSUME ObservationInvariant, [O!Next]_(O!vars)
  PROVE  ObservationInvariant'
<1>1. CASE O!Next
  BY <1>1, CreateNodeSafe, MoveFlowSafe, ReserveRunSafe, FinishRunSafe, SettleSafe,
     AddObservationSafe, AddOperationsSafe, StartReplaySafe, ReadPageSafe, FollowPageSafe,
     FoldRowSafe, EndPageSafe DEF O!Next
<1>2. CASE UNCHANGED O!vars
  <2>1. UNCHANGED <<schema, db, ledger, past, reader>>
    BY <1>2 DEF O!vars
  <2>2. PageKnown' /\ ViewKnown' /\ reader' \in ReaderType
    BY <2>1 DEF ObservationInvariant, LedgerTyped, PageKnown, ViewKnown
  <2> QED BY <2>1, <2>2, ReaderMoves
<1> QED BY <1>1, <1>2

\* The ledger leads from its baseline to the present tables, a page is a piece of it, and a
\* view is what was projected at its cursor (observation.py, schema.py).
THEOREM ObservationInvariantHolds == O!Spec => []ObservationInvariant
BY ObservationStarts, ObservationSteps, PTL DEF O!Spec

\* Whatever commits between and inside the pages of a reader, what it has folded is at every
\* cursor what was projected there, and no history that the triggers wrote is refused
\* (replay, events).
THEOREM ReplayStaysExact == O!Spec => []ReplayExact
<1>1. ObservationInvariant => ReplayExact
  <2> SUFFICES ASSUME ObservationInvariant PROVE ReplayExact
    OBVIOUS
  <2>1. reader.cursor > 0 => O!Agrees(reader.view, past[reader.cursor])
    BY ReaderTyped DEF ObservationInvariant, ViewKnown
  <2>2. /\ reader.pc = "failed" => reader.bound = 0
        /\ reader.pc = "done" => reader.cursor = reader.bound
    BY DEF ObservationInvariant, PageKnown
  <2>3. reader.view.fidelity = "complete" =>
          past[1] = [nodes |-> O!Empty, edges |-> {}, usage |-> {}]
    BY DEF ObservationInvariant, ViewKnown, O!Unread
  <2> QED BY <2>1, <2>2, <2>3 DEF ReplayExact, O!ReplayExact
<1> QED BY <1>1, ObservationInvariantHolds, PTL

\* So does every behaviour that the run MigrationSteps explores.
THEOREM ScenariosReplayExactly == ScenarioSpec => []ReplayExact
<1> DEFINE Known == scenario \in {"present", "mixed", "observed"}
<1>1. ScenarioInit => O!Init /\ Known
  BY DEF ScenarioInit
<1>2. Known /\ [ScenarioNext]_<<vars, scenario, observation>> => Known' /\ [O!Next]_(O!vars)
  <2> SUFFICES ASSUME Known, [ScenarioNext]_<<vars, scenario, observation>>
               PROVE  Known' /\ [O!Next]_(O!vars)
    OBVIOUS
  <2>1. Known'
    BY DEF ScenarioNext
  <2>2. UNCHANGED observation => UNCHANGED O!vars
    BY DEF observation, O!vars
  <2>3. ScenarioNext => O!Next \/ UNCHANGED observation
    BY DEF ScenarioNext
  <2> QED BY <2>1, <2>2, <2>3
<1>3. ScenarioSpec => O!Spec
  BY <1>1, <1>2, PTL DEF ScenarioSpec, O!Spec
<1> QED BY <1>3, ReplayStaysExact, PTL
=============================================================================
