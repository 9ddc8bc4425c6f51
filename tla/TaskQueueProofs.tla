--------------------------- MODULE TaskQueueProofs ---------------------------
(***************************************************************************)
(* The safety of TaskQueue for every set of tasks and every bound.         *)
(***************************************************************************)
EXTENDS TaskQueue, TLAPS

\* Runs are numbered in the order they are inserted; a conversation has the number
\* of its first run, and so has a session.
RunsNumbered ==
  \A r \in Runs :
    IF r <= nrun
    THEN /\ Status(r) # "absent"
         /\ run[r].session \in 1..r /\ run[r].backend \in 1..r
         /\ run[run[r].backend].session = run[r].session
    ELSE run[r] = NoRun

EntriesNumbered ==
  \A e \in Entries :
    IF e <= nentry
    THEN entry[e].task \in Tasks /\ entry[e].rev \in 1..task[entry[e].task].current
    ELSE entry[e] = NoEntry

\* What a task, a revision or a dependency names is there already.
TasksNumbered ==
  /\ \A t \in Tasks :
       /\ task[t].session <= nrun
       /\ task[t].current = 0 => task[t].session = 0 /\ task[t].active = 0
  /\ \A v \in Nodes : version[v].parent <= nrun /\ version[v].backend <= nrun
  /\ \A d \in edges : d[2][2] <= task[d[2][1]].current

\* The runs of a task are of its revisions, in its session.
RunsOfTasks ==
  \A r \in Runs : run[r].task # NoTask =>
    /\ run[r].rev \in 1..task[run[r].task].current
    /\ run[r].session = task[run[r].task].session

\* A session is in the conversation of its latest turn, ...
SessionsPlaced ==
  /\ \A s \in Runs : backend[s] <= nrun
  /\ \A r \in Runs : r <= nrun =>
       backend[run[r].session] # 0 /\ run[backend[run[r].session]].session = run[r].session
  /\ \A r, s \in Runs : Latest(r, s) => run[r].backend = backend[s]

\* ... and the turns before that one are over.
TurnsSettled ==
  \A q, r \in Runs : q < r /\ r <= nrun /\ run[q].session = run[r].session =>
    Status(q) \notin ActiveStatuses

\* What an entry was given up for does not go away: the context that moved on and
\* the dependency that was revised.
GivenUpWithCause ==
  \A e \in WaitingEntries : entry[e].terminal =>
    \/ ContextChanged(entry[e].task, entry[e].rev)
    \/ \E p \in Parents(entry[e].task, entry[e].rev) : DependencyChanged(p)

QueueInvariant ==
  /\ TypeOK
  /\ RunsNumbered /\ EntriesNumbered /\ TasksNumbered
  /\ RunsOfTasks
  /\ SessionsPlaced /\ TurnsSettled
  /\ GivenUpWithCause
  /\ QueueConsistent
  /\ RevisionExecutesOnce
  /\ ContextExact
  /\ ConversationMatches
  /\ InputsAccepted

-----------------------------------------------------------------------------
(* Facts about what the code reads.                                          *)

\* Runs, revisions and entries are numbers from 1 (INTEGER PRIMARY KEY).
LEMMA Numbers ==
  /\ \A r \in Runs : r \in Nat /\ r >= 1 /\ r <= MaxRuns
  /\ \A r \in Nat : r >= 1 /\ r <= MaxRuns => r \in Runs
  /\ \A n \in Revisions : n \in Nat /\ n >= 1 /\ n <= MaxRevisions
  /\ \A n \in Nat : n >= 1 /\ n <= MaxRevisions => n \in Revisions
  /\ \A e \in Entries : e \in Nat /\ e >= 1 /\ e <= MaxEntries
  /\ \A e \in Nat : e >= 1 /\ e <= MaxEntries => e \in Entries
  /\ MaxRuns \in Nat /\ MaxRevisions \in Nat /\ MaxEntries \in Nat
  BY QueueAssumption DEF Runs, Revisions, Entries

\* The columns of the rows.
LEMMA Rows ==
  ASSUME TypeOK
  PROVE  /\ \A t \in Tasks : /\ task[t].current \in 0..MaxRevisions
                             /\ task[t].session \in 0..MaxRuns /\ task[t].active \in 0..MaxRuns
         /\ \A r \in Runs : /\ run[r].status \in RunStatuses
                            /\ run[r].task \in Tasks \union {NoTask}
                            /\ run[r].rev \in 0..MaxRevisions
                            /\ run[r].session \in 0..MaxRuns /\ run[r].backend \in 0..MaxRuns
                            /\ run[r].input \subseteq Runs
         /\ \A e \in Entries : /\ entry[e].task \in Tasks \union {NoTask}
                               /\ entry[e].rev \in 0..MaxRevisions
                               /\ entry[e].run \in 0..MaxRuns
                               /\ entry[e].state \in EntryStates
         /\ \A v \in Nodes : version[v].parent \in 0..MaxRuns /\ version[v].backend \in 0..MaxRuns
         /\ nrun \in 0..MaxRuns /\ nentry \in 0..MaxEntries
         /\ \A s \in Runs : backend[s] \in 0..MaxRuns
  BY DEF TypeOK, RunType, EntryType, VersionType

\* A run that is there has all its columns; one that is not is in no session and of
\* no task.
LEMMA Inserted ==
  ASSUME TypeOK, RunsNumbered, NEW r \in Runs
  PROVE  /\ r <= nrun <=> run[r].session # 0
         /\ run[r].task # NoTask => r <= nrun
         /\ Status(r) # "absent" <=> r <= nrun
         /\ r <= nrun => /\ run[r].session \in Runs /\ run[r].session <= r
                         /\ run[r].backend \in Runs /\ run[r].backend <= r
<1>1. CASE r <= nrun
  BY <1>1, Numbers, Rows DEF RunsNumbered, Status
<1>2. CASE ~(r <= nrun)
  <2>1. run[r] = NoRun
    BY <1>2 DEF RunsNumbered
  <2> QED BY <1>2, <2>1 DEF NoRun, Status
<1> QED BY <1>1, <1>2

\* Two runs of one conversation are of one session (sessions.backend_id).
LEMMA ConversationsApart ==
  ASSUME TypeOK, RunsNumbered, NEW q \in Runs, NEW r \in Runs, q <= nrun, r <= nrun,
         run[q].backend = run[r].backend
  PROVE  run[q].session = run[r].session
  BY DEF RunsNumbered

\* In a session that is not busy every turn is over.
LEMMA IdleSession ==
  ASSUME TypeOK, RunsNumbered, TurnsSettled, NEW s \in Runs, ~SessionBusy(s), NEW q \in Turns(s)
  PROVE  q <= nrun /\ Status(q) \notin ActiveStatuses
<1>1. q \in Runs /\ run[q].session = s /\ s # 0
  BY DEF Turns
<1>2. q <= nrun
  BY <1>1, Inserted
<1>3. CASE Latest(q, s)
  BY <1>1, <1>2, <1>3 DEF SessionBusy
<1>4. CASE ~Latest(q, s)
  <2>1. PICK r \in Turns(s) : ~(r <= q)
    BY <1>4 DEF Latest
  <2>2. r \in Runs /\ run[r].session = s /\ r <= nrun /\ q < r
    BY <1>1, <2>1, Inserted, Numbers DEF Turns
  <2> QED BY <1>1, <1>2, <2>2 DEF TurnsSettled
<1> QED BY <1>2, <1>3, <1>4

-----------------------------------------------------------------------------
(* A turn is added: by a reservation or by a foreign turn.                   *)

NewTurn(row, s, b) ==
  /\ nrun < MaxRuns /\ nrun' = nrun + 1
  /\ row \in RunType /\ row.status = "pending" /\ row.session = s /\ row.backend = b
  /\ s \in Runs
  /\ run' = [run EXCEPT ![nrun + 1] = row]
  /\ backend' = [backend EXCEPT ![s] = b]
  /\ \/ s = nrun + 1 /\ b = nrun + 1
     \/ Turns(s) # {} /\ ~SessionBusy(s) /\ b \in {nrun + 1, backend[s]}

\* The rows that were there stay as they are, the new one is the last of its
\* session (INSERT INTO runs).
LEMMA TurnAdded ==
  ASSUME QueueInvariant, NEW row, NEW s, NEW b, NewTurn(row, s, b)
  PROVE  /\ nrun \in Nat /\ nrun' = nrun + 1 /\ nrun + 1 \in Runs
         /\ run'[nrun + 1] = row
         /\ run'[nrun + 1].session = s /\ run'[nrun + 1].backend = b
         /\ run'[nrun + 1].status = "pending"
         /\ s \in 1..(nrun + 1) /\ b \in 1..(nrun + 1) /\ s \in Runs /\ b \in Runs
         /\ s = nrun + 1 => b = nrun + 1
         /\ \A r \in Runs : r # nrun + 1 => run'[r] = run[r]
         /\ \A x \in Runs : backend'[x] = IF x = s THEN b ELSE backend[x]
         /\ \A x \in Runs : Turns(x)' = IF x = s THEN Turns(x) \union {nrun + 1} ELSE Turns(x)
         /\ \A x \in Runs : \A r \in Turns(x) : r <= nrun
         /\ s # nrun + 1 => \A r \in Turns(s) : Status(r) \notin ActiveStatuses
         /\ s = nrun + 1 => Turns(s) = {}
         /\ s # nrun + 1 => b \in {nrun + 1, backend[s]}
<1> USE DEF QueueInvariant
<1>1. nrun \in Nat /\ nrun' = nrun + 1 /\ nrun + 1 \in Runs /\ ~(nrun + 1 <= nrun)
  BY Rows, Numbers DEF NewTurn
<1>2. run'[nrun + 1] = row /\ \A r \in Runs : r # nrun + 1 => run'[r] = run[r]
  BY <1>1 DEF NewTurn, TypeOK
<1>3. \A x \in Runs : \A r \in Turns(x) : r \in Runs /\ r <= nrun /\ run[r].session = x
  BY Inserted, Numbers DEF Turns
<1>4. \A x \in Runs : backend'[x] = IF x = s THEN b ELSE backend[x]
  BY DEF NewTurn, TypeOK
<1>5. \A x \in Runs : Turns(x)' = IF x = s THEN Turns(x) \union {nrun + 1} ELSE Turns(x)
  <2> SUFFICES ASSUME NEW x \in Runs
               PROVE  Turns(x)' = IF x = s THEN Turns(x) \union {nrun + 1} ELSE Turns(x)
    OBVIOUS
  <2>1. x # 0 /\ run[nrun + 1].session = 0
    BY <1>1, Numbers DEF RunsNumbered, NoRun
  <2>2. Turns(x)' = {r \in Runs : run'[r].session = x /\ x # 0}
    BY DEF Turns
  <2> QED BY <1>1, <1>2, <2>1, <2>2 DEF Turns, NewTurn
<1>6. s = nrun + 1 => Turns(s) = {}
  <2> SUFFICES ASSUME s = nrun + 1, NEW r \in Turns(s) PROVE FALSE
    OBVIOUS
  <2>1. r \in Runs /\ r <= nrun /\ run[r].session = nrun + 1
    BY <1>3 DEF NewTurn
  <2>2. nrun + 1 <= r
    BY <2>1, Inserted
  <2> QED BY <1>1, <2>1, <2>2, Numbers
<1>7. s # nrun + 1 =>
        /\ \A r \in Turns(s) : Status(r) \notin ActiveStatuses
        /\ b \in {nrun + 1, backend[s]} /\ Turns(s) # {}
  BY IdleSession DEF NewTurn
<1>8. s \in 1..(nrun + 1) /\ b \in 1..(nrun + 1)
  <2>1. CASE s = nrun + 1
    BY <1>1, <1>6, <2>1 DEF NewTurn
  <2>2. CASE s # nrun + 1
    <3>1. PICK r \in Turns(s) : TRUE
      BY <1>7, <2>2
    <3>2. r <= nrun /\ run[r].session = s /\ r \in Runs /\ s <= r
      BY <1>3, <3>1, Inserted DEF NewTurn
    <3>3. backend[s] # 0 /\ backend[s] <= nrun /\ backend[s] \in Nat
      BY <3>2, Rows DEF SessionsPlaced, NewTurn
    <3> QED BY <1>1, <1>7, <2>2, <3>2, <3>3, Numbers DEF NewTurn
  <2> QED BY <2>1, <2>2
<1>9. s = nrun + 1 => b = nrun + 1
  BY <1>6 DEF NewTurn
<1>10. s \in Runs /\ b \in Runs
  BY <1>1, <1>8, Numbers DEF NewTurn
<1>11. run'[nrun + 1].session = s /\ run'[nrun + 1].backend = b /\ run'[nrun + 1].status = "pending"
  BY <1>2 DEF NewTurn
<1> QED BY <1>1, <1>2, <1>3, <1>4, <1>5, <1>6, <1>7, <1>8, <1>9, <1>10, <1>11

\* Every row keeps its number (INSERT INTO runs).
LEMMA TurnNumbered ==
  ASSUME QueueInvariant, NEW row, NEW s, NEW b, NewTurn(row, s, b)
  PROVE  RunsNumbered'
<1> USE DEF QueueInvariant
<1>1. nrun \in Nat /\ nrun' = nrun + 1 /\ nrun + 1 \in Runs
  BY TurnAdded
<1>2. ASSUME NEW r \in Runs, r <= nrun
      PROVE  /\ run'[r] = run[r] /\ run'[run[r].backend] = run[run[r].backend]
             /\ run[r].session \in 1..r /\ run[r].backend \in 1..r
  BY <1>1, <1>2, TurnAdded, Inserted, Numbers DEF RunsNumbered
<1>3. run'[b].session = s
  <2>1. CASE b = nrun + 1
    BY <2>1, TurnAdded DEF NewTurn
  <2>2. CASE b # nrun + 1
    <3>1. s # nrun + 1 /\ b = backend[s] /\ b \in Runs
      BY <2>2, TurnAdded
    <3>2. PICK r \in Turns(s) : r \in Runs /\ r <= nrun /\ run[r].session = s
      <4>1. Turns(s) # {} /\ s \in Runs
        BY <3>1 DEF NewTurn
      <4>2. PICK r : r \in Turns(s)
        BY <4>1
      <4>3. r <= nrun
        BY <4>1, <4>2, TurnAdded
      <4>4. r \in Runs /\ run[r].session = s
        BY <4>2 DEF Turns
      <4> QED BY <4>2, <4>3, <4>4
    <3>3. run[backend[s]].session = s
      BY <3>2 DEF SessionsPlaced
    <3> QED BY <2>2, <3>1, <3>3, TurnAdded
  <2> QED BY <2>1, <2>2
<1>4. ASSUME NEW r \in Runs
      PROVE  IF r <= nrun'
             THEN /\ run'[r].status # "absent"
                  /\ run'[r].session \in 1..r /\ run'[r].backend \in 1..r
                  /\ run'[run'[r].backend].session = run'[r].session
             ELSE run'[r] = NoRun
  <2>1. CASE r = nrun + 1
    BY <1>1, <1>3, <2>1, TurnAdded
  <2>2. CASE r <= nrun
    BY <1>1, <1>2, <2>2, Numbers DEF RunsNumbered, Status
  <2>3. CASE ~(r <= nrun) /\ r # nrun + 1
    BY <1>1, <2>3, TurnAdded, Numbers DEF RunsNumbered
  <2> QED BY <2>1, <2>2, <2>3
<1> QED BY <1>4 DEF RunsNumbered, Status

\* The session is in the conversation of its new turn (sessions.backend_id).
LEMMA TurnPlaced ==
  ASSUME QueueInvariant, NEW row, NEW s, NEW b, NewTurn(row, s, b)
  PROVE  SessionsPlaced'
<1> USE DEF QueueInvariant
<1>1. nrun \in Nat /\ nrun' = nrun + 1 /\ nrun + 1 \in Runs /\ s \in Runs /\ b \in Runs
  BY TurnAdded
<1>2. RunsNumbered'
  BY TurnNumbered
<1>3. \A x \in Runs : backend'[x] <= nrun'
  BY <1>1, TurnAdded, Rows, Numbers DEF SessionsPlaced
<1>4. ASSUME NEW r \in Runs, r <= nrun'
      PROVE  /\ backend'[run'[r].session] # 0
             /\ run'[backend'[run'[r].session]].session = run'[r].session
  <2>1. run'[nrun + 1].session = s /\ run'[nrun + 1].backend = b
    BY TurnAdded DEF NewTurn
  <2>2. run'[b].session = s /\ b # 0
    BY <1>1, <1>2, <2>1, Numbers DEF RunsNumbered
  <2>3. CASE run'[r].session = s
    BY <1>1, <2>2, <2>3, TurnAdded, Numbers
  <2>4. CASE run'[r].session # s
    <3>1. r <= nrun /\ run'[r] = run[r]
      BY <1>1, <1>4, <2>1, <2>4, TurnAdded, Numbers
    <3>2. run[r].session \in Runs /\ backend'[run[r].session] = backend[run[r].session]
      BY <2>4, <3>1, TurnAdded, Inserted
    <3>3. /\ backend[run[r].session] # 0 /\ backend[run[r].session] <= nrun
          /\ run[backend[run[r].session]].session = run[r].session
          /\ backend[run[r].session] \in Runs
      BY <3>1, <3>2, Rows, Numbers DEF SessionsPlaced
    <3> QED BY <1>1, <3>1, <3>2, <3>3, TurnAdded, Numbers
  <2> QED BY <2>3, <2>4
<1>5. ASSUME NEW r \in Runs, NEW x \in Runs, Latest(r, x)'
      PROVE  run'[r].backend = backend'[x]
  <2>1. r \in Turns(x)' /\ \A q \in Turns(x)' : q <= r
    BY <1>5 DEF Latest
  <2>2. CASE x = s
    <3>1. nrun + 1 <= r
      BY <2>1, <2>2, TurnAdded
    <3>2. r = nrun + 1
      BY <1>1, <2>1, <2>2, <3>1, TurnAdded, Numbers
    <3> QED BY <2>2, <3>2, TurnAdded
  <2>3. CASE x # s
    <3>1. Latest(r, x)
      BY <2>1, <2>3, TurnAdded DEF Latest
    <3>2. r # nrun + 1 /\ run'[r] = run[r]
      BY <1>1, <2>1, <2>3, TurnAdded
    <3> QED BY <2>3, <3>1, <3>2, TurnAdded DEF SessionsPlaced
  <2> QED BY <2>2, <2>3
<1> QED BY <1>3, <1>4, <1>5 DEF SessionsPlaced

\* No turn starts before the one before it is over (session_busy).
LEMMA TurnSettled ==
  ASSUME QueueInvariant, NEW row, NEW s, NEW b, NewTurn(row, s, b)
  PROVE  TurnsSettled'
<1> USE DEF QueueInvariant
<1>1. nrun \in Nat /\ nrun' = nrun + 1 /\ nrun + 1 \in Runs /\ s \in Runs
  BY TurnAdded
<1> SUFFICES ASSUME NEW q \in Runs, NEW r \in Runs, q < r, r <= nrun',
                    run'[q].session = run'[r].session
             PROVE  run'[q].status \notin ActiveStatuses
  BY DEF TurnsSettled, Status
<1>2. q <= nrun /\ run'[q] = run[q]
  BY <1>1, TurnAdded, Numbers
<1>3. CASE r = nrun + 1
  <2>1. run[q].session = s
    BY <1>2, <1>3, TurnAdded, ZenonT(60) DEF NewTurn
  <2>2. q \in Turns(s)
    BY <1>1, <2>1, Numbers DEF Turns
  <2> QED BY <1>2, <2>2, TurnAdded DEF Status
<1>4. CASE r # nrun + 1
  BY <1>1, <1>2, <1>4, TurnAdded, Numbers DEF TurnsSettled, Status
<1> QED BY <1>3, <1>4

\* Whoever follows the latest turn of its session, in its conversation, follows
\* what it was written for; the turns that were there keep their place.
LEMMA TurnInContext ==
  ASSUME QueueInvariant, NEW row, NEW s, NEW b, NewTurn(row, s, b), UNCHANGED version,
         row.task = NoTask \/
           \A q \in Runs : Latest(q, s) =>
             /\ b = run[q].backend
             /\ q = version[<<row.task, row.rev>>].parent \/ q \in Attempts(row.task, row.rev)
  PROVE  ContextExact'
<1> USE DEF QueueInvariant
<1>1. nrun \in Nat /\ nrun' = nrun + 1 /\ nrun + 1 \in Runs /\ s \in Runs
  BY TurnAdded
<1>2. RunsNumbered'
  BY TurnNumbered
<1> SUFFICES ASSUME NEW r \in Runs, NEW q \in Turns(run[r].session)', run'[r].task # NoTask, q < r,
                    \A p \in Turns(run[r].session)' : p <= q \/ p >= r
             PROVE  /\ run'[r].backend = run'[q].backend
                    /\ \/ q = version[<<run'[r].task, run'[r].rev>>].parent
                       \/ q \in Attempts(run[r].task, run[r].rev)'
  BY DEF ContextExact
<1>3. r <= nrun'
  <2>1. CASE ~(r <= nrun')
    <3>1. run'[r] = NoRun
      BY <1>2, <2>1 DEF RunsNumbered
    <3> QED BY <3>1 DEF NoRun
  <2> QED BY <2>1
<1>4. q \in Runs /\ run'[q].session = run'[r].session /\ run'[r].session \in Runs
  BY <1>2, <1>3, <1>1, Numbers DEF Turns, RunsNumbered
<1>5. q <= nrun /\ run'[q] = run[q] /\ q # nrun + 1
  BY <1>1, <1>3, <1>4, TurnAdded, Numbers
<1>6. CASE r = nrun + 1
  <2>1. run'[r] = row /\ run'[r].session = s /\ run'[r].backend = b
    BY <1>6, TurnAdded DEF NewTurn
  <2>2. q \in Turns(s) /\ \A p \in Turns(s) : p <= q \/ p >= r
    <3>1. \A p : p \in Turns(run[r].session)' <=> p \in Turns(s)'
      BY <2>1 DEF Turns
    <3>2. q \in Turns(s)' /\ \A p \in Turns(s)' : p <= q \/ p >= r
      BY <3>1
    <3> QED BY <1>5, <3>2, TurnAdded
  <2>3. Latest(q, s)
    <3>1. \A p \in Turns(s) : p \in Nat /\ p <= nrun
      BY TurnAdded, Numbers DEF Turns, NewTurn
    <3> QED BY <1>1, <1>6, <2>2, <3>1 DEF Latest
  <2>4. /\ b = run[q].backend
        /\ q = version[<<row.task, row.rev>>].parent \/ q \in Attempts(row.task, row.rev)
    BY <1>4, <2>1, <2>3
  <2>5. q \in Attempts(row.task, row.rev) => q \in Attempts(run[r].task, run[r].rev)'
    BY <1>4, <1>5, <2>1 DEF Attempts
  <2> QED BY <1>5, <2>1, <2>4, <2>5
<1>7. CASE r # nrun + 1
  <2>1. run'[r] = run[r]
    BY <1>7, TurnAdded
  <2>2. q \in Turns(run[r].session)
    BY <1>4, <1>5, <2>1, Numbers DEF Turns
  <2>3. \A p \in Turns(run[r].session) : p <= q \/ p >= r
    BY <1>4, <2>1, TurnAdded
  <2>4. /\ run[r].backend = run[q].backend
        /\ q = version[<<run[r].task, run[r].rev>>].parent \/ q \in Attempts(run[r].task, run[r].rev)
    BY <2>1, <2>2, <2>3 DEF ContextExact
  <2>5. q \in Attempts(run[r].task, run[r].rev) => q \in Attempts(run[r].task, run[r].rev)'
    BY <1>4, <1>5, <2>1 DEF Attempts
  <2> QED BY <1>5, <2>1, <2>4, <2>5
<1> QED BY <1>6, <1>7

\* A turn resumes a conversation exactly when one before it executed there; the
\* turns that were there are over, and what they are does not change.
LEMMA TurnMatches ==
  ASSUME QueueInvariant, NEW row, NEW s, NEW b, NewTurn(row, s, b),
         row.task # NoTask =>
           (row.resume <=> \E q \in Turns(s) :
              run[q].backend = b /\ Status(q) \notin {"unstarted", "unexecuted"})
  PROVE  ConversationMatches'
<1> USE DEF QueueInvariant
<1>1. nrun \in Nat /\ nrun' = nrun + 1 /\ nrun + 1 \in Runs /\ s \in Runs
  BY TurnAdded
<1>2. RunsNumbered'
  BY TurnNumbered
<1> SUFFICES ASSUME NEW r \in Runs, run'[r].task # NoTask
             PROVE  run'[r].resume <=> \E q \in Runs :
                      /\ q < r /\ run'[q].backend = run'[r].backend
                      /\ run'[q].status \notin {"unstarted", "unexecuted"}
  BY DEF ConversationMatches, Status
<1>3. r <= nrun'
  <2>1. CASE ~(r <= nrun')
    <3>1. run'[r] = NoRun
      BY <1>2, <2>1 DEF RunsNumbered
    <3> QED BY <3>1 DEF NoRun
  <2> QED BY <2>1
<1>4. \A q \in Runs : q < r => q <= nrun /\ run'[q] = run[q]
  BY <1>1, <1>3, TurnAdded, Numbers
<1>5. CASE r = nrun + 1
  <2>1. run'[r] = row /\ run'[r].session = s /\ run'[r].backend = b
    BY <1>5, TurnAdded
  <2>2. \A q \in Turns(s) : q \in Runs /\ q < r
    BY <1>1, <1>5, TurnAdded, Numbers DEF Turns
  <2>3. ASSUME NEW q \in Runs, q < r, run[q].backend = b PROVE q \in Turns(s)
    <3>1. run'[q].session = s
      <4>1. run'[q].backend = b /\ q <= nrun' /\ run'[r].backend = b /\ r <= nrun'
        BY <1>1, <1>3, <1>4, <2>1, <2>3, Numbers
      <4> QED BY <2>1, <4>1, <1>2 DEF RunsNumbered
    <3> QED BY <1>1, <1>4, <2>3, <3>1, Numbers DEF Turns
  <2> QED BY <1>4, <2>1, <2>2, <2>3 DEF Status
<1>6. CASE r # nrun + 1
  <2>1. run'[r] = run[r]
    BY <1>6, TurnAdded
  <2> QED BY <1>4, <2>1 DEF ConversationMatches, Status
<1> QED BY <1>5, <1>6

-----------------------------------------------------------------------------
(* A run moves: only its status and its report change.                       *)

\* What moves is there, what is over stays over, and what never started or was
\* executed stays that (_finish_run, reconcile).
LEMMA RunMoved ==
  ASSUME TypeOK, NEW r \in Runs, RunStep(r) \/ ResultLost(r)
  PROVE  /\ UNCHANGED <<task, version, pinned, edges, nrun, backend, accepted, entry, nentry, cursor>>
         /\ TypeOK'
         /\ \A q \in Runs :
              /\ run'[q].task = run[q].task /\ run'[q].rev = run[q].rev
              /\ run'[q].session = run[q].session /\ run'[q].backend = run[q].backend
              /\ run'[q].resume = run[q].resume /\ run'[q].input = run[q].input
              /\ run'[q].status = "absent" <=> Status(q) = "absent"
              /\ Status(q) = "absent" => run'[q] = run[q]
              /\ Status(q) = "unstarted" => run'[q].status = "unstarted"
              /\ Status(q) \notin ActiveStatuses =>
                   /\ run'[q].status \notin ActiveStatuses
                   /\ run'[q].status \in {"unstarted", "unexecuted"}
                        <=> Status(q) \in {"unstarted", "unexecuted"}
         /\ \A x : Turns(x)' = Turns(x)
         /\ \A t, n : Attempts(t, n)' = Attempts(t, n)
<1>1. PICK status \in RunStatuses, report \in BOOLEAN :
        /\ RunBecomes(r, status, report)
        /\ \/ /\ Status(r) \in ActiveStatuses
              /\ status \notin {"absent", "pending"}
           \/ Status(r) = "completed" /\ status = "failed"
  BY DEF RunStep, ResultLost, RunClaims, RunEnds, RunQuarantined, RunReconciled, RunStatuses,
         ActiveStatuses
<1>2. run' = [run EXCEPT ![r].status = status, ![r].report = report]
  BY <1>1 DEF RunBecomes
<1>3. \A q \in Runs : q # r => run'[q] = run[q]
  BY <1>2 DEF TypeOK
<1>4. /\ run'[r].task = run[r].task /\ run'[r].rev = run[r].rev
      /\ run'[r].session = run[r].session /\ run'[r].backend = run[r].backend
      /\ run'[r].resume = run[r].resume /\ run'[r].input = run[r].input
      /\ run'[r].status = status /\ run'[r].report = report
  BY <1>2 DEF TypeOK, RunType
<1>5. UNCHANGED <<task, version, pinned, edges, nrun, backend, accepted, entry, nentry, cursor>>
  BY <1>1 DEF RunBecomes, taskTables, queue
<1>6. TypeOK'
  <2>1. run'[r] \in RunType
    <3>1. run[r] \in RunType /\ run'[r] = [run[r] EXCEPT !.status = status, !.report = report]
      BY <1>2 DEF TypeOK
    <3> QED BY <3>1 DEF RunType
  <2>2. run' = [q \in Runs |-> run'[q]] /\ \A q \in Runs : run'[q] \in RunType
    BY <1>2, <1>3, <2>1 DEF TypeOK
  <2>3. run' \in [Runs -> RunType]
    BY <2>2
  <2> QED BY <1>5, <2>3 DEF TypeOK
<1>7. \A q \in Runs :
        /\ run'[q].status = "absent" <=> Status(q) = "absent"
        /\ Status(q) = "absent" => run'[q] = run[q]
        /\ Status(q) = "unstarted" => run'[q].status = "unstarted"
        /\ Status(q) \notin ActiveStatuses =>
             /\ run'[q].status \notin ActiveStatuses
             /\ run'[q].status \in {"unstarted", "unexecuted"}
                  <=> Status(q) \in {"unstarted", "unexecuted"}
  BY <1>1, <1>3, <1>4 DEF Status, ActiveStatuses
<1>8. \A x : Turns(x)' = Turns(x)
  BY <1>3, <1>4 DEF Turns
<1>9. \A t, n : Attempts(t, n)' = Attempts(t, n)
  BY <1>3, <1>4 DEF Attempts
<1> QED BY <1>3, <1>4, <1>5, <1>6, <1>7, <1>8, <1>9

\* Queue, contexts and inputs do not depend on how a run goes on, and a turn that
\* was followed by another is over (run_statuses).
LEMMA RunMovesSafe ==
  ASSUME QueueInvariant, NEW r \in Runs, RunStep(r) \/ ResultLost(r)
  PROVE  QueueInvariant'
<1> USE DEF QueueInvariant
<1>1. /\ UNCHANGED <<task, version, pinned, edges, nrun, backend, accepted, entry, nentry, cursor>>
      /\ TypeOK'
  BY RunMoved
<1>2. \A q \in Runs :
        /\ run'[q].task = run[q].task /\ run'[q].rev = run[q].rev
        /\ run'[q].session = run[q].session /\ run'[q].backend = run[q].backend
        /\ run'[q].resume = run[q].resume /\ run'[q].input = run[q].input
  BY RunMoved
<1>3. \A x : Turns(x)' = Turns(x)
  BY RunMoved
<1>4. \A t, n : Attempts(t, n)' = Attempts(t, n)
  BY RunMoved
<1>5. \A q, x : Latest(q, x)' <=> Latest(q, x)
  BY <1>3 DEF Latest
<1>6. \A q, t, n : LastAttempt(q, t, n)' <=> LastAttempt(q, t, n)
  BY <1>4 DEF LastAttempt
<1>7. RunsNumbered'
  <2> SUFFICES ASSUME NEW q \in Runs
               PROVE  IF q <= nrun
                      THEN /\ run'[q].status # "absent"
                           /\ run'[q].session \in 1..q /\ run'[q].backend \in 1..q
                           /\ run'[run'[q].backend].session = run'[q].session
                      ELSE run'[q] = NoRun
    BY <1>1 DEF RunsNumbered, Status
  <2>1. CASE q <= nrun
    BY <1>2, <2>1, RunMoved, Inserted DEF RunsNumbered
  <2>2. CASE ~(q <= nrun)
    BY <2>2, RunMoved, Inserted DEF RunsNumbered
  <2> QED BY <2>1, <2>2
<1>8. EntriesNumbered' /\ TasksNumbered'
  BY <1>1 DEF EntriesNumbered, TasksNumbered
<1>9. RunsOfTasks'
  BY <1>1, <1>2 DEF RunsOfTasks
<1>10. SessionsPlaced'
  <2>1. \A q \in Runs : q <= nrun =>
          /\ backend[run'[q].session] # 0
          /\ run'[backend[run'[q].session]].session = run'[q].session
    <3> SUFFICES ASSUME NEW q \in Runs, q <= nrun
                 PROVE  /\ backend[run'[q].session] # 0
                        /\ run'[backend[run'[q].session]].session = run'[q].session
      OBVIOUS
    <3>1. /\ run'[q].session = run[q].session /\ run[q].session \in Runs
          /\ backend[run[q].session] # 0
          /\ run[backend[run[q].session]].session = run[q].session
      BY <1>2, Inserted DEF SessionsPlaced
    <3>2. backend[run[q].session] \in Runs
      BY <3>1, Rows, Numbers
    <3> QED BY <1>2, <3>1, <3>2
  <2> QED BY <1>1, <1>2, <1>5, <2>1 DEF SessionsPlaced
<1>11. TurnsSettled'
  BY <1>1, <1>2, RunMoved DEF TurnsSettled, Status
<1>12. \A t, n : ContextChanged(t, n)' <=> ContextChanged(t, n)
  <2> SUFFICES ASSUME NEW t, NEW n PROVE ContextChanged(t, n)' <=> ContextChanged(t, n)
    OBVIOUS
  <2>1. {q \in Runs : LastAttempt(q, t, n)}' = {q \in Runs : LastAttempt(q, t, n)}
    BY <1>6
  <2>2. {run[q].backend : q \in {q \in Runs : LastAttempt(q, t, n)}}'
          = {run[q].backend : q \in {q \in Runs : LastAttempt(q, t, n)}}
    BY <1>2, <2>1
  <2> QED BY <1>1, <1>5, <2>1, <2>2 DEF ContextChanged
<1>13. GivenUpWithCause'
  BY <1>1, <1>12 DEF GivenUpWithCause, WaitingEntries, Waiting, Parents, DependencyChanged
<1>14. QueueConsistent'
  BY <1>1, <1>4, <1>6 DEF QueueConsistent, WaitingEntries, Waiting
<1>15. RevisionExecutesOnce'
  BY <1>2, RunMoved DEF RevisionExecutesOnce, Status
<1>16. ContextExact'
  <2> SUFFICES ASSUME NEW q \in Runs, NEW p \in Turns(run[q].session)', run'[q].task # NoTask, p < q,
                      \A x \in Turns(run[q].session)' : x <= p \/ x >= q
               PROVE  /\ run'[q].backend = run'[p].backend
                      /\ \/ p = version[<<run'[q].task, run'[q].rev>>].parent
                         \/ p \in Attempts(run[q].task, run[q].rev)'
    BY <1>1 DEF ContextExact
  <2>1. \A x : x \in Turns(run[q].session)' <=> x \in Turns(run[q].session)
    BY <1>2 DEF Turns
  <2>2. \A x : x \in Attempts(run[q].task, run[q].rev)' <=> x \in Attempts(run[q].task, run[q].rev)
    BY <1>2 DEF Attempts
  <2>3. p \in Runs
    BY <2>1 DEF Turns
  <2> QED BY <1>2, <2>1, <2>2, <2>3 DEF ContextExact
<1>17. ConversationMatches'
  <2> SUFFICES ASSUME NEW q \in Runs, run'[q].task # NoTask
               PROVE  run'[q].resume <=> \E p \in Runs :
                        /\ p < q /\ run'[p].backend = run'[q].backend
                        /\ run'[p].status \notin {"unstarted", "unexecuted"}
    BY DEF ConversationMatches, Status
  <2>1. q <= nrun
    BY <1>2, Inserted
  <2>2. ASSUME NEW p \in Runs, p < q, run[p].backend = run[q].backend
        PROVE  run'[p].status \in {"unstarted", "unexecuted"}
                 <=> Status(p) \in {"unstarted", "unexecuted"}
    <3>1. p <= nrun
      BY <2>1, <2>2, Numbers, Rows
    <3>2. run[p].session = run[q].session
      BY <2>1, <2>2, <3>1, ConversationsApart
    <3>3. Status(p) \notin ActiveStatuses
      BY <2>1, <2>2, <3>2 DEF TurnsSettled
    <3> QED BY <3>3, RunMoved
  <2>3. run[q].resume <=> \E p \in Runs :
          /\ p < q /\ run[p].backend = run[q].backend
          /\ Status(p) \notin {"unstarted", "unexecuted"}
    BY <1>2 DEF ConversationMatches
  <2> QED BY <1>2, <2>2, <2>3
<1>18. InputsAccepted'
  <2> SUFFICES ASSUME NEW q \in Runs, run'[q].task # NoTask
               PROVE  /\ run'[q].input \subseteq accepted
                      /\ Parents(run[q].task, run[q].rev)'
                           = {<<run'[p].task, run'[p].rev>> : p \in run'[q].input}
    BY <1>1 DEF InputsAccepted
  <2>1. Parents(run[q].task, run[q].rev)' = Parents(run[q].task, run[q].rev)
    BY <1>1, <1>2 DEF Parents
  <2>2. /\ run[q].input \subseteq accepted /\ run[q].input \subseteq Runs
        /\ Parents(run[q].task, run[q].rev) = {<<run[p].task, run[p].rev>> : p \in run[q].input}
    BY <1>2, Rows DEF InputsAccepted
  <2>3. {<<run'[p].task, run'[p].rev>> : p \in run[q].input}
          = {<<run[p].task, run[p].rev>> : p \in run[q].input}
    BY <1>2, <2>2
  <2> QED BY <1>2, <2>1, <2>2, <2>3
<1> QED BY <1>1, <1>7, <1>8, <1>9, <1>10, <1>11, <1>13, <1>14, <1>15, <1>16, <1>17, <1>18

-----------------------------------------------------------------------------
(* What a new turn leaves as it is.                                          *)

\* Before its first attempt a revision expects the context it was written in
\* (task_revisions.context).
LEMMA ContextOfUnsubmitted ==
  ASSUME NEW t, NEW n, Attempts(t, n) = {}
  PROVE  ContextChanged(t, n) <=>
           /\ task[t].session # 0
           /\ ~ /\ backend[task[t].session] = version[<<t, n>>].backend
                /\ version[<<t, n>>].parent # 0
                /\ Latest(version[<<t, n>>].parent, task[t].session)
<1>1. {r \in Runs : LastAttempt(r, t, n)} = {}
  BY DEF LastAttempt
<1> QED BY <1>1 DEF ContextChanged

\* Later turns do not bring a context back: their numbers are new.
LEMMA ContextStaysChanged ==
  ASSUME QueueInvariant, NEW row, NEW s, NEW b, NewTurn(row, s, b), UNCHANGED version,
         NEW t \in Tasks, NEW n \in Revisions, task'[t].session = task[t].session,
         Attempts(t, n) = {}, Attempts(t, n)' = {}, ContextChanged(t, n)
  PROVE  ContextChanged(t, n)'
<1> USE DEF QueueInvariant
<1> DEFINE x == task[t].session
           v == version[<<t, n>>]
<1>1. /\ x # 0 /\ x \in Runs /\ x <= nrun
      /\ v.parent \in Nat /\ v.parent <= nrun /\ v.backend \in Nat /\ v.backend <= nrun
  <2>1. <<t, n>> \in Nodes
    BY DEF Nodes
  <2>2. x # 0
    BY ContextOfUnsubmitted
  <2> QED BY <2>1, <2>2, Rows, Numbers DEF TasksNumbered
<1>2. nrun \in Nat
  BY TurnAdded
<1>3. backend[x] # v.backend => backend'[x] # v.backend
  BY <1>1, <1>2, TurnAdded
<1>4. ASSUME v.parent # 0, Latest(v.parent, x)'
      PROVE  Latest(v.parent, x)
  <2>1. v.parent \in Turns(x)' /\ \A q \in Turns(x)' : q <= v.parent
    <3>1. /\ version'[<<t, n>>].parent = v.parent /\ task'[t].session = x
      OBVIOUS
    <3>2. \A q : q \in Turns(x)' <=> q \in Runs /\ run'[q].session = task'[t].session /\ task'[t].session # 0
      BY DEF Turns
    <3> QED BY <1>4, <3>1, <3>2 DEF Latest
  <2>2. \A q : q \in Turns(x)' <=> q \in Runs /\ run'[q].session = x /\ x # 0
    BY DEF Turns
  <2>3. \A q \in Turns(x) : q \in Turns(x)'
    <3> SUFFICES ASSUME NEW q \in Turns(x) PROVE q \in Turns(x)'
      OBVIOUS
    <3>1. q \in Runs /\ run[q].session = x /\ q # nrun + 1
      BY <1>1, <1>2, TurnAdded DEF Turns
    <3> QED BY <1>1, <2>2, <3>1, TurnAdded
  <2>4. v.parent \in Turns(x)
    <3>1. v.parent # nrun + 1 /\ v.parent \in Runs /\ run'[v.parent].session = x
      BY <1>1, <1>2, <2>1, <2>2
    <3> QED BY <1>1, <3>1, TurnAdded DEF Turns
  <2> QED BY <2>1, <2>3, <2>4 DEF Latest
<1>5. ~ /\ backend'[x] = v.backend /\ v.parent # 0 /\ Latest(v.parent, x)'
  BY <1>1, <1>3, <1>4, ContextOfUnsubmitted
<1>6. ContextChanged(t, n)' <=>
           /\ task'[t].session # 0
           /\ ~ /\ backend'[task'[t].session] = version'[<<t, n>>].backend
                /\ version'[<<t, n>>].parent # 0
                /\ Latest(version[<<t, n>>].parent, task[t].session)'
  <2>1. {r \in Runs : LastAttempt(r, t, n)}' = {}
    BY DEF LastAttempt
  <2> QED BY <2>1 DEF ContextChanged
<1> QED BY <1>1, <1>5, <1>6

\* A run that is not there is nobody's input (execution_inputs).
LEMMA InputsAreRuns ==
  ASSUME QueueInvariant, NEW r \in Runs, NEW I, I \subseteq Runs,
         NEW t, NEW n, Parents(t, n) = {<<run[q].task, run[q].rev>> : q \in I}, r \in I
  PROVE  r <= nrun
<1>1. <<run[r].task, run[r].rev>> \in Nodes
  BY DEF Parents
<1>2. run[r].task # NoTask
  BY <1>1, QueueAssumption DEF Nodes
<1> QED BY <1>2, Inserted DEF QueueInvariant

\* The inputs of the turns that were there, and of the new one if they are accepted.
LEMMA TurnInputs ==
  ASSUME QueueInvariant, NEW row, NEW s, NEW b, NewTurn(row, s, b),
         UNCHANGED <<accepted, edges>>,
         row.task # NoTask =>
           /\ row.input \subseteq accepted /\ row.input \subseteq Runs
           /\ Parents(row.task, row.rev) = {<<run[q].task, run[q].rev>> : q \in row.input}
  PROVE  InputsAccepted'
<1> USE DEF QueueInvariant
<1>1. nrun \in Nat /\ nrun + 1 \in Runs /\ run'[nrun + 1] = row
  BY TurnAdded
<1>2. \A t, n : Parents(t, n)' = Parents(t, n)
  BY DEF Parents
<1>3. ASSUME NEW I, I \subseteq Runs, NEW t, NEW n,
             Parents(t, n) = {<<run[q].task, run[q].rev>> : q \in I}
      PROVE  Parents(t, n) = {<<run'[q].task, run'[q].rev>> : q \in I}
  <2>1. \A q \in I : q \in Runs /\ q <= nrun
    BY <1>3, InputsAreRuns
  <2>2. \A q \in I : run'[q] = run[q]
    BY <1>1, <2>1, TurnAdded, Numbers
  <2> QED BY <1>3, <2>2
<1> SUFFICES ASSUME NEW r \in Runs, run'[r].task # NoTask
             PROVE  /\ run'[r].input \subseteq accepted
                    /\ Parents(run[r].task, run[r].rev)'
                         = {<<run'[q].task, run'[q].rev>> : q \in run'[r].input}
  BY DEF InputsAccepted
<1>4. Parents(run[r].task, run[r].rev)' = Parents(run'[r].task, run'[r].rev)
  BY DEF Parents
<1>5. CASE r = nrun + 1
  <2>1. run'[r] = row /\ row.task # NoTask
    BY <1>1, <1>5
  <2>2. Parents(row.task, row.rev) = {<<run'[q].task, run'[q].rev>> : q \in row.input}
    BY <1>3, <2>1
  <2> QED BY <1>4, <2>1, <2>2
<1>6. CASE r # nrun + 1
  <2>1. run'[r] = run[r]
    BY <1>6, TurnAdded
  <2>2. /\ run[r].input \subseteq accepted /\ run[r].input \subseteq Runs
        /\ Parents(run[r].task, run[r].rev) = {<<run[q].task, run[q].rev>> : q \in run[r].input}
    BY <2>1, Rows DEF InputsAccepted
  <2>3. Parents(run[r].task, run[r].rev) = {<<run'[q].task, run'[q].rev>> : q \in run[r].input}
    BY <1>3, <2>2
  <2> QED BY <1>4, <2>1, <2>2, <2>3
<1> QED BY <1>5, <1>6

\* An entry that is there is of a task and a revision of it (queue_entries).
LEMMA EntryOfTask ==
  ASSUME QueueInvariant, NEW e \in Entries, entry[e].state # "absent"
  PROVE  entry[e].task \in Tasks /\ entry[e].rev \in Revisions /\ e <= nentry
<1>1. e <= nentry
  BY DEF QueueInvariant, EntriesNumbered, NoEntry
<1>2. entry[e].task \in Tasks /\ entry[e].rev \in 1..task[entry[e].task].current
  BY <1>1 DEF QueueInvariant, EntriesNumbered
<1>3. task[entry[e].task].current \in 0..MaxRevisions
  BY <1>2, Rows DEF QueueInvariant
<1> QED BY <1>1, <1>2, <1>3, Numbers

-----------------------------------------------------------------------------
(* Turns outside any task.                                                   *)

\* A turn of somebody else only moves the context on (followup, restart).
LEMMA ForeignTurnSafe ==
  ASSUME QueueInvariant, NEW s \in Runs, NEW restart \in BOOLEAN, ForeignTurn(s, restart)
  PROVE  QueueInvariant'
<1> USE DEF QueueInvariant
<1> DEFINE b == IF restart THEN nrun + 1 ELSE backend[s]
           res == ~restart
           row == [NoRun EXCEPT !.status = "pending", !.session = s, !.backend = b,
                                !.resume = res]
<1>1. /\ UNCHANGED <<task, version, pinned, edges, entry, nentry, accepted, cursor>>
      /\ nrun < MaxRuns /\ nrun' = nrun + 1
      /\ run' = [run EXCEPT ![nrun + 1] = row] /\ backend' = [backend EXCEPT ![s] = b]
      /\ Turns(s) # {} /\ ~SessionBusy(s)
  BY DEF ForeignTurn, taskTables, queue
<1>2. row \in RunType /\ row.status = "pending" /\ row.session = s /\ row.backend = b
      /\ row.task = NoTask
  <2>1. b \in 0..MaxRuns /\ s \in 0..MaxRuns
    BY <1>1, Rows, Numbers
  <2>2. res \in BOOLEAN
    BY Zenon
  <2> HIDE DEF b, res
  <2>3. NoRun \in RunType /\ NoRun.task = NoTask
    <3>1. 0 \in 0..MaxRuns /\ 0 \in 0..MaxRevisions
      BY Numbers
    <3> QED BY <3>1 DEF NoRun, RunType, RunStatuses
  <2> QED BY <2>1, <2>2, <2>3 DEF RunType, RunStatuses
<1>3. NewTurn(row, s, b)
  BY <1>1, <1>2 DEF NewTurn
<1> HIDE DEF row, b, res
<1>4. RunsNumbered' /\ SessionsPlaced' /\ TurnsSettled'
  BY <1>3, TurnNumbered, TurnPlaced, TurnSettled
<1>5. ContextExact' /\ ConversationMatches' /\ InputsAccepted'
  BY <1>1, <1>2, <1>3, TurnInContext, TurnMatches, TurnInputs
<1>6. \A r \in Runs : r # nrun + 1 => run'[r] = run[r]
  BY <1>3, TurnAdded
<1>7. nrun \in Nat /\ nrun + 1 \in Runs /\ run'[nrun + 1] = row /\ run[nrun + 1].task = NoTask
  BY <1>3, TurnAdded, Inserted
<1>8. \A t \in Tasks : \A n : Attempts(t, n)' = Attempts(t, n)
  BY <1>2, <1>6, <1>7, QueueAssumption DEF Attempts
<1>9. \A t \in Tasks : \A r, n : LastAttempt(r, t, n)' <=> LastAttempt(r, t, n)
  BY <1>8 DEF LastAttempt
<1>10. TypeOK'
  <2>1. run' \in [Runs -> RunType]
    BY <1>1, <1>2 DEF TypeOK
  <2>2. backend' \in [Runs -> 0..MaxRuns]
    BY <1>1, <1>3, TurnAdded, Numbers DEF TypeOK
  <2>3. nrun' \in 0..MaxRuns
    BY <1>1, <1>7, Numbers
  <2> QED BY <1>1, <2>1, <2>2, <2>3 DEF TypeOK
<1>11. EntriesNumbered' /\ TasksNumbered'
  <2>1. EntriesNumbered'
    BY <1>1 DEF EntriesNumbered
  <2> QED BY <1>1, <1>7, <2>1, Rows DEF TasksNumbered
<1>12. RunsOfTasks'
  BY <1>1, <1>2, <1>6, <1>7 DEF RunsOfTasks
<1>13. RevisionExecutesOnce'
  BY <1>2, <1>6, <1>7 DEF RevisionExecutesOnce, Status
<1>14. QueueConsistent'
  <2>1. \A e \in Entries : Waiting(e)' <=> Waiting(e)
    BY <1>1 DEF Waiting
  <2> QED BY <1>1, <1>8, <1>9, <2>1, EntryOfTask, ZenonT(60) DEF QueueConsistent, WaitingEntries, Waiting
<1>15. GivenUpWithCause'
  <2> SUFFICES ASSUME NEW e \in Entries, entry[e].state = "waiting", entry[e].terminal
               PROVE  \/ ContextChanged(entry[e].task, entry[e].rev)'
                      \/ \E p \in Parents(entry[e].task, entry[e].rev)' : DependencyChanged(p)'
    BY <1>1 DEF GivenUpWithCause, WaitingEntries, Waiting
  <2>1. entry[e].task \in Tasks /\ entry[e].rev \in Revisions
    BY EntryOfTask
  <2>2. Attempts(entry[e].task, entry[e].rev) = {}
    BY DEF QueueConsistent, WaitingEntries, Waiting
  <2>3. \A t, n : Parents(t, n)' = Parents(t, n)
    BY <1>1 DEF Parents
  <2>4. \A p : DependencyChanged(p)' <=> DependencyChanged(p)
    BY <1>1 DEF DependencyChanged
  <2>5. \/ ContextChanged(entry[e].task, entry[e].rev)
        \/ \E p \in Parents(entry[e].task, entry[e].rev) : DependencyChanged(p)
    BY DEF GivenUpWithCause, WaitingEntries, Waiting
  <2>6. CASE ContextChanged(entry[e].task, entry[e].rev)
    <3> DEFINE t == entry[e].task
               n == entry[e].rev
    <3>1. t \in Tasks /\ n \in Revisions /\ Attempts(t, n) = {} /\ Attempts(t, n)' = {}
      BY <1>1, <1>8, <2>1, <2>2
    <3> QED BY <1>1, <1>3, <2>1, <2>2, <2>6, <3>1, ContextStaysChanged
  <2>7. CASE \E p \in Parents(entry[e].task, entry[e].rev) : DependencyChanged(p)
    BY <1>1, <2>3, <2>4, <2>7 DEF Parents
  <2> QED BY <2>5, <2>6, <2>7
<1> QED BY <1>4, <1>5, <1>10, <1>11, <1>12, <1>13, <1>14, <1>15

-----------------------------------------------------------------------------
(* Reservations: a submission, a retry, or the dispatcher's.                 *)

\* submit_in checks one transaction's state, so what is reserved fits it.
LEMMA ReserveSafe ==
  ASSUME QueueInvariant, NEW t \in Tasks, NEW n, NEW retry \in BOOLEAN,
         Admissible(t, n, retry), Reserve(t, n), cursor' \in -1..MaxEntries
  PROVE  QueueInvariant'
<1> USE DEF QueueInvariant
<1> DEFINE created == task[t].session = 0
           s == IF created THEN nrun + 1 ELSE task[t].session
           b == IF created THEN nrun + 1 ELSE backend[s]
           res == ~created /\ ~FreshBackend(s)
           row == [status |-> "pending", task |-> t, rev |-> n, session |-> s, backend |-> b,
                   resume |-> res, report |-> FALSE, input |-> InputOf(t, n)]
<1>1. nrun < MaxRuns /\ nrun' = nrun + 1 /\ UNCHANGED <<version, pinned, edges, nentry, accepted>>
  BY DEF Reserve
<1>1r. run' = [run EXCEPT ![nrun + 1] = row] /\ backend' = [backend EXCEPT ![s] = b]
  BY DEF Reserve
<1>1q. /\ entry' = [e \in Entries |->
           IF entry[e].task = t /\ entry[e].rev = n /\ entry[e].state \in {"waiting", "reserved"}
           THEN [entry[e] EXCEPT !.state = "reserved", !.run = nrun + 1, !.terminal = FALSE]
           ELSE entry[e]]
      /\ task' = [task EXCEPT ![t].session = s, ![t].active = nrun + 1]
  BY DEF Reserve
<1>2. /\ n = task[t].current /\ n # 0 /\ ~ContextChanged(t, n) /\ ~SessionBusy(task[t].session)
      /\ \A p \in Parents(t, n) : DependencyAccepted(p)
      /\ IF retry THEN NeverStarted(t, n) ELSE Attempts(t, n) = {}
  BY DEF Admissible
<1>3. n \in Revisions /\ n \in Nat /\ nrun \in Nat /\ nrun + 1 \in Runs /\ t # NoTask
  <2>1. t # NoTask
    BY QueueAssumption
  <2>2. nrun \in Nat /\ nrun + 1 \in Runs
    BY <1>1, Rows, Numbers
  <2>3. n \in Nat /\ n \in Revisions
    BY <1>2, Rows, Numbers
  <2> QED BY <2>1, <2>2, <2>3
\* Each dependency's active run is of that node, and accepted.
<1>4. \A p \in Parents(t, n) :
        /\ task[p[1]].active \in accepted /\ task[p[1]].active \in Runs
        /\ <<run[task[p[1]].active].task, run[task[p[1]].active].rev>> = p
  <2> SUFFICES ASSUME NEW p \in Parents(t, n)
               PROVE  /\ task[p[1]].active \in accepted /\ task[p[1]].active \in Runs
                      /\ <<run[task[p[1]].active].task, run[task[p[1]].active].rev>> = p
    OBVIOUS
  <2>1. p[1] \in Tasks /\ p = <<p[1], p[2]>>
    BY DEF Parents, Nodes
  <2>2. task[p[1]].active # 0 /\ run[task[p[1]].active].rev = p[2] /\ task[p[1]].active \in accepted
    BY <1>2 DEF DependencyAccepted
  <2>3. LastAttempt(task[p[1]].active, p[1], task[p[1]].current)
    BY <2>1, <2>2 DEF QueueConsistent
  <2> QED BY <2>1, <2>2, <2>3 DEF LastAttempt, Attempts
<1>5. /\ InputOf(t, n) \subseteq accepted /\ InputOf(t, n) \subseteq Runs
      /\ Parents(t, n) = {<<run[q].task, run[q].rev>> : q \in InputOf(t, n)}
  BY <1>4 DEF InputOf
<1>6. s \in Runs /\ b \in Runs
  <2>1. CASE created
    BY <1>3, <2>1
  <2>2. CASE ~created
    <3>1. s \in Runs /\ \E q : Latest(q, s)
      BY <1>2, <2>2, Rows, Numbers DEF ContextChanged
    <3>2. PICK q \in Runs : q \in Turns(s) /\ run[q].session = s /\ q <= nrun
      BY <3>1, Inserted, Numbers DEF Latest, Turns
    <3>3. backend[s] # 0 /\ backend[s] \in 0..MaxRuns
      BY <3>1, <3>2, Rows DEF SessionsPlaced
    <3> QED BY <2>2, <3>1, <3>3, Numbers
  <2> QED BY <2>1, <2>2
<1>7. row \in RunType /\ row.status = "pending" /\ row.session = s /\ row.backend = b
      /\ row.task = t /\ row.rev = n /\ row.resume = res /\ row.input = InputOf(t, n)
  <2>1. s \in 0..MaxRuns /\ b \in 0..MaxRuns /\ n \in 0..MaxRevisions
    BY <1>3, <1>6, Numbers
  <2>2. res \in BOOLEAN
    BY Zenon
  <2> HIDE DEF s, b, res
  <2> QED BY <1>5, <2>1, <2>2 DEF RunType, RunStatuses
<1>8. NewTurn(row, s, b)
  <2>1. CASE created
    BY <1>1, <1>1r, <1>6, <1>7, <2>1 DEF NewTurn
  <2>2. CASE ~created
    <3>1. \E q : Latest(q, s)
      BY <1>2, <2>2 DEF ContextChanged
    <3>2. Turns(s) # {}
      BY <3>1 DEF Latest
    <3> QED BY <1>1, <1>1r, <1>2, <1>6, <1>7, <2>2, <3>2 DEF NewTurn
  <2> QED BY <2>1, <2>2
\* What the turn follows, and what its conversation holds.
<1>9. \A q \in Runs : Latest(q, s) =>
        /\ b = run[q].backend
        /\ q = version[<<t, n>>].parent \/ q \in Attempts(t, n)
  <2> SUFFICES ASSUME NEW q \in Runs, Latest(q, s)
               PROVE  /\ b = run[q].backend
                      /\ q = version[<<t, n>>].parent \/ q \in Attempts(t, n)
    OBVIOUS
  <2>1. ~created
    BY <1>8, TurnAdded DEF Latest
  <2>2. b = run[q].backend
    BY <1>6, <2>1 DEF SessionsPlaced
  <2> DEFINE last == {r \in Runs : LastAttempt(r, t, n)}
             expected == IF last = {} THEN {version[<<t, n>>].parent} ELSE last
  <2>3. \E r \in expected \ {0} : Latest(r, s)
    BY <1>2, <2>1 DEF ContextChanged
  <2>4. PICK r \in expected : Latest(r, s)
    BY <2>3
  <2>5. r = q
    BY <2>4, Numbers DEF Latest, Turns
  <2>6. last \subseteq Attempts(t, n)
    BY DEF LastAttempt
  <2> QED BY <2>2, <2>4, <2>5, <2>6
<1>10. res <=> \E q \in Turns(s) : run[q].backend = b /\ Status(q) \notin {"unstarted", "unexecuted"}
  <2>1. CASE created
    BY <1>8, <2>1, TurnAdded
  <2>2. CASE ~created
    BY <2>2 DEF FreshBackend
  <2> QED BY <2>1, <2>2
<1>11. /\ task'[t].session = s /\ task'[t].active = nrun + 1 /\ task'[t].current = n
       /\ \A u \in Tasks : u # t => task'[u] = task[u]
       /\ \A u \in Tasks : task'[u].current = task[u].current
  BY <1>1q, <1>2 DEF TypeOK
<1> HIDE DEF row, s, b, res
<1>12. RunsNumbered' /\ SessionsPlaced' /\ TurnsSettled'
  BY <1>8, TurnNumbered, TurnPlaced, TurnSettled
<1>13. ContextExact' /\ ConversationMatches' /\ InputsAccepted'
  BY <1>1, <1>5, <1>7, <1>8, <1>9, <1>10, TurnInContext, TurnMatches, TurnInputs
<1>14. /\ \A r \in Runs : r # nrun + 1 => run'[r] = run[r]
       /\ run'[nrun + 1] = row /\ run[nrun + 1].task = NoTask
  BY <1>3, <1>8, TurnAdded, Inserted
<1>15. \A u \in Tasks : \A m :
         Attempts(u, m)' = IF u = t /\ m = n THEN Attempts(u, m) \union {nrun + 1} ELSE Attempts(u, m)
  BY <1>3, <1>7, <1>14, QueueAssumption DEF Attempts
<1>16. \A u \in Tasks : \A m, r : u # t \/ m # n => (LastAttempt(r, u, m)' <=> LastAttempt(r, u, m))
  BY <1>15 DEF LastAttempt
<1>17. ASSUME NEW x, x = nrun + 1 PROVE LastAttempt(x, t, n)'
  <2>1. \A q \in Attempts(t, n) : q <= nrun
    BY <1>3, Inserted DEF Attempts
  <2> QED BY <1>3, <1>15, <1>17, <2>1, Numbers, SMTT(30) DEF LastAttempt, Attempts
<1>18. TypeOK'
  <2>1. run' \in [Runs -> RunType]
    BY <1>1r, <1>7 DEF TypeOK
  <2>2. backend' \in [Runs -> 0..MaxRuns]
    BY <1>1r, <1>6, Numbers DEF TypeOK
  <2>3. nrun' \in 0..MaxRuns /\ nrun + 1 \in 0..MaxRuns /\ s \in 0..MaxRuns
    BY <1>1, <1>3, <1>6, Numbers
  <2>4. task' \in [Tasks -> [current: 0..MaxRevisions, session: 0..MaxRuns, active: 0..MaxRuns]]
    BY <1>1q, <2>3 DEF TypeOK
  <2>5. entry' \in [Entries -> EntryType]
    <3> SUFFICES ASSUME NEW e \in Entries PROVE entry'[e] \in EntryType
      BY <1>1q
    <3>1. entry[e] \in EntryType
      BY DEF TypeOK
    <3>2. [entry[e] EXCEPT !.state = "reserved", !.run = nrun + 1, !.terminal = FALSE] \in EntryType
      BY <2>3, <3>1 DEF EntryType, EntryStates
    <3> QED BY <1>1q, <3>1, <3>2
  <2> QED BY <1>1, <2>1, <2>2, <2>3, <2>4, <2>5 DEF TypeOK
<1>19. \A e \in Entries :
         /\ entry'[e].task = entry[e].task /\ entry'[e].rev = entry[e].rev
         /\ \/ /\ entry[e].task = t /\ entry[e].rev = n /\ entry[e].state \in {"waiting", "reserved"}
               /\ entry'[e].state = "reserved" /\ entry'[e].run = nrun + 1
            \/ /\ ~(entry[e].task = t /\ entry[e].rev = n /\ entry[e].state \in {"waiting", "reserved"})
               /\ entry'[e] = entry[e]
  <2> SUFFICES ASSUME NEW e \in Entries
               PROVE  /\ entry'[e].task = entry[e].task /\ entry'[e].rev = entry[e].rev
                      /\ \/ /\ entry[e].task = t /\ entry[e].rev = n
                            /\ entry[e].state \in {"waiting", "reserved"}
                            /\ entry'[e].state = "reserved" /\ entry'[e].run = nrun + 1
                         \/ /\ ~(entry[e].task = t /\ entry[e].rev = n
                                 /\ entry[e].state \in {"waiting", "reserved"})
                            /\ entry'[e] = entry[e]
    OBVIOUS
  <2>1. entry[e] \in EntryType
    BY DEF TypeOK
  <2> QED BY <1>1q, <2>1 DEF EntryType
<1>20. EntriesNumbered'
  <2>1. \A e \in Entries : ~(e <= nentry) => entry[e] = NoEntry /\ entry[e].task = NoTask
    <3>1. \A e \in Entries : ~(e <= nentry) => entry[e] = NoEntry
      BY DEF EntriesNumbered
    <3>2. NoEntry.task = NoTask
      BY DEF NoEntry
    <3> QED BY <3>1, <3>2
  <2>2. \A e \in Entries : ~(e <= nentry) => entry'[e] = NoEntry
    BY <1>3, <1>19, <2>1
  <2> QED BY <1>1, <1>11, <1>19, <2>2 DEF EntriesNumbered
<1>21. TasksNumbered'
  <2>1. \A u \in Tasks : /\ task'[u].session <= nrun'
                         /\ task'[u].current = 0 => task'[u].session = 0 /\ task'[u].active = 0
    <3> SUFFICES ASSUME NEW u \in Tasks
                 PROVE  /\ task'[u].session <= nrun'
                        /\ task'[u].current = 0 => task'[u].session = 0 /\ task'[u].active = 0
      OBVIOUS
    <3>1. CASE u = t
      BY <1>1, <1>2, <1>3, <1>8, <1>11, <3>1, TurnAdded
    <3>2. CASE u # t
      BY <1>1, <1>3, <1>11, <3>2, Rows DEF TasksNumbered
    <3> QED BY <3>1, <3>2
  <2>2. \A v \in Nodes : version'[v].parent <= nrun' /\ version'[v].backend <= nrun'
    BY <1>1, <1>3, Rows DEF TasksNumbered
  <2>3. \A d \in edges : d[2][1] \in Tasks
    BY DEF TypeOK, Nodes
  <2>4. \A d \in edges' : d[2][2] <= task'[d[2][1]].current
    BY <1>1, <1>11, <2>3 DEF TasksNumbered
  <2> QED BY <2>1, <2>2, <2>4 DEF TasksNumbered
<1>22. RunsOfTasks'
  <2> SUFFICES ASSUME NEW r \in Runs, run'[r].task # NoTask
               PROVE  /\ run'[r].rev \in 1..task'[run'[r].task].current
                      /\ run'[r].session = task'[run'[r].task].session
    BY DEF RunsOfTasks
  <2>1. CASE r = nrun + 1
    BY <1>3, <1>7, <1>11, <1>14, <2>1, Numbers
  <2>2. CASE r # nrun + 1 /\ run[r].task # t
    BY <1>11, <1>14, <2>2, Rows DEF RunsOfTasks
  <2>3. CASE r # nrun + 1 /\ run[r].task = t
    <3>1. run'[r] = run[r] /\ run[r].session = task[t].session /\ run[r].rev \in 1..task[t].current
      BY <1>3, <1>14, <2>3 DEF RunsOfTasks
    <3>2. run[r].session # 0
      BY <1>3, <2>3, Inserted
    <3>3. s = task[t].session
      BY <3>1, <3>2 DEF s
    <3> QED BY <1>2, <1>11, <2>3, <3>1, <3>3
  <2> QED BY <2>1, <2>2, <2>3
<1>23. RevisionExecutesOnce'
  <2> SUFFICES ASSUME NEW r \in Runs, NEW q \in Runs, run'[r].task # NoTask,
                      run'[r].task = run'[q].task, run'[r].rev = run'[q].rev, r < q
               PROVE  run'[r].status = "unstarted"
    BY DEF RevisionExecutesOnce, Status
  <2>1. CASE q = nrun + 1
    <3>1. run'[r] = run[r] /\ r \in Attempts(t, n)
      BY <1>3, <1>7, <1>14, <2>1, Numbers DEF Attempts
    <3>2. Status(r) = "unstarted"
      BY <1>2, <3>1 DEF NeverStarted
    <3> QED BY <3>1, <3>2 DEF Status
  <2>2. CASE r = nrun + 1
    <3>1. run[q].task = NoTask /\ run'[q] = run[q]
      BY <1>3, <1>14, <2>2, Inserted, Numbers
    <3> QED BY <3>1
  <2>3. CASE q # nrun + 1 /\ r # nrun + 1
    BY <1>14, <2>3 DEF RevisionExecutesOnce, Status
  <2> QED BY <2>1, <2>2, <2>3
\* A waiting entry is of another task now.
<1>24. ASSUME NEW e \in Entries, entry'[e].state = "waiting"
       PROVE  /\ entry'[e] = entry[e] /\ entry[e].task \in Tasks /\ entry[e].task # t
              /\ entry[e].rev \in Revisions /\ Attempts(entry[e].task, entry[e].rev) = {}
              /\ entry[e].rev = task[entry[e].task].current
  <2>1. entry'[e] = entry[e] /\ ~(entry[e].task = t /\ entry[e].rev = n)
    BY <1>19, <1>24
  <2>2. entry[e].task \in Tasks /\ entry[e].rev \in Revisions
    BY <1>24, <2>1, EntryOfTask
  <2> QED BY <1>2, <1>24, <2>1, <2>2 DEF QueueConsistent, WaitingEntries, Waiting
<1>25. QueueConsistent'
  <2>1. ASSUME NEW e \in Entries, entry'[e].state = "waiting"
        PROVE  /\ entry'[e].rev = task'[entry'[e].task].current
               /\ Attempts(entry[e].task, entry[e].rev)' = {}
               /\ \A d \in Entries : entry'[d].state = "waiting" /\ entry'[d].task = entry'[e].task => d = e
    <3>1. /\ entry'[e] = entry[e] /\ entry[e].task \in Tasks /\ entry[e].task # t
          /\ entry[e].rev \in Revisions /\ Attempts(entry[e].task, entry[e].rev) = {}
          /\ entry[e].rev = task[entry[e].task].current
      BY <1>24, <2>1
    <3>3. Attempts(entry[e].task, entry[e].rev)' = {}
      <4>1. \A u, m : u = entry'[e].task /\ m = entry'[e].rev =>
              Attempts(entry[e].task, entry[e].rev)' = {r \in Runs : run'[r].task = u /\ run'[r].rev = m}
        BY DEF Attempts
      <4>2. \A u \in Tasks : \A m : Attempts(u, m)' = {r \in Runs : run'[r].task = u /\ run'[r].rev = m}
        BY DEF Attempts
      <4> QED BY <1>15, <3>1, <4>1, <4>2
    <3>4. \A d \in Entries : entry'[d].state = "waiting" /\ entry'[d].task = entry'[e].task => d = e
      BY <1>24, <2>1, <3>1 DEF QueueConsistent, WaitingEntries, Waiting
    <3> QED BY <1>11, <3>1, <3>3, <3>4
  <2>2. ASSUME NEW e \in Entries, entry'[e].state = "reserved"
        PROVE  LastAttempt(entry[e].run, entry[e].task, entry[e].rev)'
    <3>1. \A x, u, m : x = entry'[e].run /\ u = entry'[e].task /\ m = entry'[e].rev =>
            (LastAttempt(entry[e].run, entry[e].task, entry[e].rev)' <=> LastAttempt(x, u, m)')
      BY DEF LastAttempt, Attempts
    <3>2. CASE entry[e].task = t /\ entry[e].rev = n
      <4>1. entry'[e].run = nrun + 1 /\ entry'[e].task = t /\ entry'[e].rev = n
        BY <1>19, <2>2, <3>2
      <4>2. \A x : x = nrun + 1 => LastAttempt(x, t, n)'
        BY <1>17
      <4> QED BY <3>1, <4>1, <4>2
    <3>3. CASE ~(entry[e].task = t /\ entry[e].rev = n)
      <4>1. entry'[e] = entry[e]
        BY <1>19, <3>3
      <4>2. entry[e].task \in Tasks /\ LastAttempt(entry[e].run, entry[e].task, entry[e].rev)
        BY <2>2, <4>1, EntryOfTask DEF QueueConsistent
      <4> QED BY <1>16, <3>1, <3>3, <4>1, <4>2
    <3> QED BY <3>2, <3>3
  <2>3. ASSUME NEW u \in Tasks
        PROVE  IF task'[u].active = 0 THEN Attempts(u, task[u].current)' = {}
               ELSE LastAttempt(task[u].active, u, task[u].current)'
    <3>1. \A m : m = task'[u].current => Attempts(u, task[u].current)' = Attempts(u, m)'
      BY DEF Attempts
    <3>2. \A x, m : x = task'[u].active /\ m = task'[u].current =>
            (LastAttempt(task[u].active, u, task[u].current)' <=> LastAttempt(x, u, m)')
      BY DEF LastAttempt, Attempts
    <3>3. CASE u = t
      <4>1. task'[u].active = nrun + 1 /\ task'[u].current = n /\ nrun + 1 # 0
        BY <1>3, <1>11, <3>3
      <4>2. \A x : x = nrun + 1 => LastAttempt(x, t, n)'
        BY <1>17
      <4> QED BY <3>2, <3>3, <4>1, <4>2
    <3>4. CASE u # t
      <4>1. task'[u] = task[u]
        BY <1>11, <3>4
      <4> QED BY <1>15, <1>16, <3>1, <3>2, <3>4, <4>1 DEF QueueConsistent
    <3> QED BY <3>3, <3>4
  <2> QED BY <2>1, <2>2, <2>3 DEF QueueConsistent, WaitingEntries, Waiting
<1>26. GivenUpWithCause'
  <2> SUFFICES ASSUME NEW e \in Entries, entry'[e].state = "waiting", entry'[e].terminal
               PROVE  \/ ContextChanged(entry[e].task, entry[e].rev)'
                      \/ \E p \in Parents(entry[e].task, entry[e].rev)' : DependencyChanged(p)'
    BY DEF GivenUpWithCause, WaitingEntries, Waiting
  <2> DEFINE u == entry[e].task
             m == entry[e].rev
  <2>1. /\ entry'[e] = entry[e] /\ u \in Tasks /\ u # t /\ m \in Revisions /\ Attempts(u, m) = {}
    BY <1>24
  <2>2. Attempts(u, m)' = {}
    <3>1. \A y, z : y = entry'[e].task /\ z = entry'[e].rev =>
            Attempts(u, m)' = {r \in Runs : run'[r].task = y /\ run'[r].rev = z}
      BY DEF Attempts
    <3>2. \A y \in Tasks : \A z : Attempts(y, z)' = {r \in Runs : run'[r].task = y /\ run'[r].rev = z}
      BY DEF Attempts
    <3> QED BY <1>15, <2>1, <3>1, <3>2
  <2>3. \/ ContextChanged(u, m) \/ \E p \in Parents(u, m) : DependencyChanged(p)
    BY <2>1 DEF GivenUpWithCause, WaitingEntries, Waiting
  <2>4. CASE ContextChanged(u, m)
    <3>1. task'[u].session = task[u].session
      BY <1>11, <2>1
    <3>2. \A y \in Tasks : \A z \in Revisions :
            Attempts(y, z) = {} /\ y # t /\ ContextChanged(y, z) => ContextChanged(y, z)'
      <4> SUFFICES ASSUME NEW y \in Tasks, NEW z \in Revisions, Attempts(y, z) = {}, y # t,
                          ContextChanged(y, z)
                   PROVE  ContextChanged(y, z)'
        OBVIOUS
      <4>1. Attempts(y, z)' = {} /\ task'[y].session = task[y].session
        BY <1>11, <1>15
      <4> QED BY <1>1, <1>8, <4>1, ContextStaysChanged
    <3>3. \A y, z : y = entry'[e].task /\ z = entry'[e].rev =>
            (ContextChanged(u, m)' <=> ContextChanged(y, z)')
      BY DEF ContextChanged, LastAttempt, Latest, Attempts, Turns
    <3> QED BY <2>1, <2>4, <3>2, <3>3
  <2>5. CASE \E p \in Parents(u, m) : DependencyChanged(p)
    <3>1. PICK p \in Parents(u, m) : DependencyChanged(p)
      BY <2>5
    <3>2. p[1] \in Tasks /\ p \in Nodes /\ <<<<u, m>>, p>> \in edges
      BY DEF Parents, Nodes
    <3>3. p \in Parents(u, m)' /\ DependencyChanged(p)'
      BY <1>1, <1>11, <2>1, <3>1, <3>2 DEF Parents, DependencyChanged
    <3> QED BY <3>3
  <2> QED BY <2>3, <2>4, <2>5
<1> QED BY <1>12, <1>13, <1>18, <1>20, <1>21, <1>22, <1>23, <1>25, <1>26

-----------------------------------------------------------------------------
(* New revisions.                                                            *)

\* What reads runs and sessions only (run tables).
LEMMA RunsKept ==
  ASSUME QueueInvariant, UNCHANGED <<run, nrun, backend>>
  PROVE  /\ RunsNumbered' /\ SessionsPlaced' /\ TurnsSettled'
         /\ RevisionExecutesOnce' /\ ConversationMatches'
         /\ \A x : Turns(x)' = Turns(x)
         /\ \A t, n : Attempts(t, n)' = Attempts(t, n)
         /\ \A r, x : Latest(r, x)' <=> Latest(r, x)
         /\ \A r, t, n : LastAttempt(r, t, n)' <=> LastAttempt(r, t, n)
<1> USE DEF QueueInvariant
<1>1. RunsNumbered' /\ TurnsSettled' /\ RevisionExecutesOnce' /\ ConversationMatches'
  BY DEF RunsNumbered, TurnsSettled, RevisionExecutesOnce, ConversationMatches, Status
<1>2. /\ \A x : Turns(x)' = Turns(x)
      /\ \A t, n : Attempts(t, n)' = Attempts(t, n)
  BY DEF Turns, Attempts
<1>3. /\ \A r, x : Latest(r, x)' <=> Latest(r, x)
      /\ \A r, t, n : LastAttempt(r, t, n)' <=> LastAttempt(r, t, n)
  BY <1>2 DEF Latest, LastAttempt
<1>4. SessionsPlaced'
  BY <1>3 DEF SessionsPlaced
<1> QED BY <1>1, <1>2, <1>3, <1>4

\* create and revise leave the new revision without runs and without entries.
NewRevision(t, n, s, row) ==
  /\ n = task[t].current + 1 /\ n \in Revisions
  /\ s \in 0..nrun /\ (task[t].current # 0 => s = task[t].session)
  /\ task' \in [Tasks -> [current: 0..MaxRevisions, session: 0..MaxRuns, active: 0..MaxRuns]]
  /\ task'[t].current = n /\ task'[t].session = s /\ task'[t].active = 0
  /\ \A u \in Tasks : u # t => task'[u] = task[u]
  /\ row \in VersionType /\ row.parent <= nrun /\ row.backend <= nrun
  /\ version' = [version EXCEPT ![<<t, n>>] = row]
  /\ entry' \in [Entries -> EntryType]
  /\ \A e \in Entries :
       /\ entry'[e].task = entry[e].task /\ entry'[e].rev = entry[e].rev
       /\ entry'[e] = entry[e] \/ (Waiting(e) /\ entry'[e].state = "superseded")
       /\ entry'[e].state = "waiting" => entry[e].task # t
       /\ entry[e].state = "absent" => entry'[e] = entry[e]
  /\ UNCHANGED <<run, nrun, backend, accepted, pinned, edges, nentry, cursor>>

\* A new revision takes nothing from the runs there are (task_revisions).
LEMMA RevisionSafe ==
  ASSUME QueueInvariant, NEW t \in Tasks, NEW n, NEW s, NEW row, NewRevision(t, n, s, row)
  PROVE  QueueInvariant'
<1> USE DEF QueueInvariant
<1>1. UNCHANGED <<run, nrun, backend, accepted, pinned, edges, nentry, cursor>>
  BY DEF NewRevision
<1>2. RunsNumbered' /\ SessionsPlaced' /\ TurnsSettled' /\ RevisionExecutesOnce'
      /\ ConversationMatches'
  BY <1>1, RunsKept
<1>3. /\ \A u, m : Attempts(u, m)' = Attempts(u, m)
      /\ \A r, u, m : LastAttempt(r, u, m)' <=> LastAttempt(r, u, m)
      /\ \A r, x : Latest(r, x)' <=> Latest(r, x)
      /\ \A x : Turns(x)' = Turns(x)
  BY <1>1, RunsKept
<1>4. /\ n \in Nat /\ n = task[t].current + 1 /\ task[t].current \in Nat /\ n \in 0..MaxRevisions
      /\ nrun \in Nat /\ nrun \in 0..MaxRuns /\ s \in 0..nrun /\ s \in 0..MaxRuns
      /\ <<t, n>> \in Nodes
  BY Rows, Numbers DEF NewRevision, Nodes
<1>5. /\ task'[t].current = n /\ task'[t].session = s /\ task'[t].active = 0
      /\ \A u \in Tasks : u # t => task'[u] = task[u]
  BY DEF NewRevision
<1>6. \A u \in Tasks : task[u].current <= task'[u].current
  BY <1>4, <1>5, Rows, Numbers
<1>7. \A v \in Nodes : version'[v] = IF v = <<t, n>> THEN row ELSE version[v]
  BY <1>4 DEF NewRevision, TypeOK
\* The new revision has no runs.
<1>8. \A r \in Runs : ~(run[r].task = t /\ run[r].rev = n)
  BY <1>4, QueueAssumption DEF RunsOfTasks
<1>9. \A r \in Runs : run[r].task # NoTask =>
        /\ <<run[r].task, run[r].rev>> \in Nodes
        /\ version'[<<run[r].task, run[r].rev>>] = version[<<run[r].task, run[r].rev>>]
  <2> SUFFICES ASSUME NEW r \in Runs, run[r].task # NoTask
               PROVE  /\ <<run[r].task, run[r].rev>> \in Nodes
                      /\ version'[<<run[r].task, run[r].rev>>] = version[<<run[r].task, run[r].rev>>]
    OBVIOUS
  <2>1. run[r].task \in Tasks /\ run[r].rev \in 1..task[run[r].task].current
    BY Rows DEF RunsOfTasks
  <2>2. run[r].rev \in Revisions
    BY <2>1, Rows, Numbers
  <2>3. <<run[r].task, run[r].rev>> \in Nodes
    BY <2>1, <2>2 DEF Nodes
  <2> QED BY <1>7, <1>8, <2>3
<1>10. TypeOK'
  <2>1. version' \in [Nodes -> VersionType]
    BY <1>4 DEF NewRevision, TypeOK
  <2> QED BY <1>1, <2>1 DEF NewRevision, TypeOK
<1>11. EntriesNumbered'
  <2> SUFFICES ASSUME NEW e \in Entries
               PROVE  IF e <= nentry
                      THEN entry'[e].task \in Tasks /\ entry'[e].rev \in 1..task'[entry'[e].task].current
                      ELSE entry'[e] = NoEntry
    BY <1>1 DEF EntriesNumbered
  <2>1. CASE e <= nentry
    <3>1. entry[e].task \in Tasks /\ entry[e].rev \in 1..task[entry[e].task].current
      BY <2>1 DEF EntriesNumbered
    <3>2. entry'[e].task = entry[e].task /\ entry'[e].rev = entry[e].rev
      BY DEF NewRevision
    <3>3. task[entry[e].task].current <= task'[entry[e].task].current
          /\ task[entry[e].task].current \in Nat /\ task'[entry[e].task].current \in Nat
      BY <1>6, <1>10, <3>1, Rows, Numbers DEF TypeOK
    <3> QED BY <2>1, <3>1, <3>2, <3>3
  <2>2. CASE ~(e <= nentry)
    <3>1. entry[e] = NoEntry
      BY <2>2 DEF EntriesNumbered
    <3>2. entry[e].state = "absent"
      BY <3>1 DEF NoEntry
    <3> QED BY <2>2, <3>1, <3>2 DEF NewRevision
  <2> QED BY <2>1, <2>2
<1>12. TasksNumbered'
  <2>1. \A u \in Tasks : /\ task'[u].session <= nrun
                         /\ task'[u].current = 0 => task'[u].session = 0 /\ task'[u].active = 0
    <3> SUFFICES ASSUME NEW u \in Tasks
                 PROVE  /\ task'[u].session <= nrun
                        /\ task'[u].current = 0 => task'[u].session = 0 /\ task'[u].active = 0
      OBVIOUS
    <3>1. CASE u = t
      BY <1>4, <1>5, <3>1
    <3>2. CASE u # t
      BY <1>5, <3>2 DEF TasksNumbered
    <3> QED BY <3>1, <3>2
  <2>2. \A v \in Nodes : version'[v].parent <= nrun /\ version'[v].backend <= nrun
    BY <1>7 DEF NewRevision, TasksNumbered
  <2>3. \A d \in edges : d[2][2] <= task'[d[2][1]].current
    <3> SUFFICES ASSUME NEW d \in edges PROVE d[2][2] <= task'[d[2][1]].current
      OBVIOUS
    <3>1. d[2][1] \in Tasks /\ d[2][2] \in Revisions
      BY DEF TypeOK, Nodes
    <3>2. d[2][2] <= task[d[2][1]].current
      BY DEF TasksNumbered
    <3>3. /\ d[2][2] \in Nat /\ task[d[2][1]].current \in Nat /\ task'[d[2][1]].current \in Nat
      BY <1>10, <3>1, Rows, Numbers DEF TypeOK
    <3> QED BY <1>6, <3>1, <3>2, <3>3
  <2> QED BY <1>1, <2>1, <2>2, <2>3 DEF TasksNumbered
<1>13. RunsOfTasks'
  <2> SUFFICES ASSUME NEW r \in Runs, run[r].task # NoTask
               PROVE  /\ run[r].rev \in 1..task'[run[r].task].current
                      /\ run[r].session = task'[run[r].task].session
    BY <1>1 DEF RunsOfTasks
  <2>1. /\ run[r].task \in Tasks /\ run[r].rev \in 1..task[run[r].task].current
        /\ run[r].session = task[run[r].task].session
    BY Rows DEF RunsOfTasks
  <2>2. CASE run[r].task = t
    <3>1. task[t].current # 0
      BY <1>4, <2>1, <2>2
    <3> QED BY <1>4, <1>5, <2>1, <2>2, <3>1 DEF NewRevision
  <2>3. CASE run[r].task # t
    BY <1>5, <2>1, <2>3
  <2> QED BY <2>2, <2>3
<1>14. ContextExact'
  <2> SUFFICES ASSUME NEW r \in Runs, NEW q \in Turns(run[r].session), run[r].task # NoTask, q < r,
                      \A p \in Turns(run[r].session) : p <= q \/ p >= r
               PROVE  /\ run[r].backend = run[q].backend
                      /\ \/ q = version'[<<run[r].task, run[r].rev>>].parent
                         \/ q \in Attempts(run[r].task, run[r].rev)
    BY <1>1, <1>3 DEF ContextExact
  <2> QED BY <1>9 DEF ContextExact
<1>15. InputsAccepted'
  BY <1>1 DEF InputsAccepted, Parents
<1>16. ASSUME NEW e \in Entries, entry'[e].state = "waiting"
       PROVE  /\ entry'[e] = entry[e] /\ entry[e].task \in Tasks /\ entry[e].task # t
              /\ entry[e].rev \in Revisions /\ Attempts(entry[e].task, entry[e].rev) = {}
              /\ entry[e].rev = task[entry[e].task].current
  <2>1. entry'[e] = entry[e] /\ entry[e].task # t
    BY <1>16 DEF NewRevision
  <2>2. entry[e].task \in Tasks /\ entry[e].rev \in Revisions
    BY <1>16, <2>1, EntryOfTask
  <2> QED BY <1>16, <2>1, <2>2 DEF QueueConsistent, WaitingEntries, Waiting
<1>17. QueueConsistent'
  <2>1. ASSUME NEW e \in Entries, entry'[e].state = "waiting"
        PROVE  /\ entry'[e].rev = task'[entry'[e].task].current
               /\ Attempts(entry[e].task, entry[e].rev)' = {}
               /\ \A d \in Entries : entry'[d].state = "waiting" /\ entry'[d].task = entry'[e].task => d = e
    <3>1. /\ entry'[e] = entry[e] /\ entry[e].task \in Tasks /\ entry[e].task # t
          /\ entry[e].rev \in Revisions /\ Attempts(entry[e].task, entry[e].rev) = {}
          /\ entry[e].rev = task[entry[e].task].current
      BY <1>16, <2>1
    <3>2. Attempts(entry[e].task, entry[e].rev)' = {}
      BY <1>1, <3>1 DEF Attempts
    <3>3. \A d \in Entries : entry'[d].state = "waiting" /\ entry'[d].task = entry'[e].task => d = e
      BY <1>16, <2>1, <3>1 DEF QueueConsistent, WaitingEntries, Waiting
    <3> QED BY <1>5, <3>1, <3>2, <3>3
  <2>2. ASSUME NEW e \in Entries, entry'[e].state = "reserved"
        PROVE  LastAttempt(entry[e].run, entry[e].task, entry[e].rev)'
    <3>1. entry'[e] = entry[e]
      BY <2>2 DEF NewRevision
    <3>2. LastAttempt(entry[e].run, entry[e].task, entry[e].rev)
      BY <2>2, <3>1 DEF QueueConsistent
    <3> QED BY <1>1, <3>1, <3>2 DEF LastAttempt, Attempts
  <2>3. ASSUME NEW u \in Tasks
        PROVE  IF task'[u].active = 0 THEN Attempts(u, task[u].current)' = {}
               ELSE LastAttempt(task[u].active, u, task[u].current)'
    <3>1. CASE u = t
      <4>1. Attempts(u, task[u].current)' = {}
        BY <1>1, <1>5, <1>8, <3>1 DEF Attempts
      <4> QED BY <1>5, <3>1, <4>1
    <3>2. CASE u # t
      <4>1. task'[u] = task[u]
        BY <1>5, <3>2
      <4> QED BY <1>1, <4>1 DEF QueueConsistent, LastAttempt, Attempts
    <3> QED BY <3>1, <3>2
  <2> QED BY <2>1, <2>2, <2>3 DEF QueueConsistent, WaitingEntries, Waiting
<1>18. GivenUpWithCause'
  <2> SUFFICES ASSUME NEW e \in Entries, entry'[e].state = "waiting", entry'[e].terminal
               PROVE  \/ ContextChanged(entry[e].task, entry[e].rev)'
                      \/ \E p \in Parents(entry[e].task, entry[e].rev)' : DependencyChanged(p)'
    BY DEF GivenUpWithCause, WaitingEntries, Waiting
  <2> DEFINE u == entry[e].task
             m == entry[e].rev
  <2>1. /\ entry'[e] = entry[e] /\ u \in Tasks /\ u # t /\ m \in Revisions
    BY <1>16
  <2>2. task'[u] = task[u] /\ version'[<<u, m>>] = version[<<u, m>>]
    BY <1>5, <1>7, <2>1 DEF Nodes
  <2>3. \/ ContextChanged(u, m) \/ \E p \in Parents(u, m) : DependencyChanged(p)
    BY <2>1, SMTT(30) DEF GivenUpWithCause, WaitingEntries, Waiting
  <2>4. CASE ContextChanged(u, m)
    <3>1. \A r, x, y, z : /\ Latest(r, x)' <=> Latest(r, x)
                          /\ LastAttempt(r, y, z)' <=> LastAttempt(r, y, z)
      BY <1>3
    <3>2. {r \in Runs : LastAttempt(r, u, m)}' = {r \in Runs : LastAttempt(r, u, m)}
      BY <1>1, <2>1 DEF LastAttempt, Attempts
    <3>3. {run[r].backend : r \in {r \in Runs : LastAttempt(r, u, m)}}'
            = {run[r].backend : r \in {r \in Runs : LastAttempt(r, u, m)}}
      BY <1>1, <3>2
    <3>4. \A r : Latest(r, task[u].session)' <=> Latest(r, task[u].session)
      BY <1>1, <2>1, <2>2 DEF Latest, Turns
    <3> QED BY <1>1, <2>1, <2>2, <2>4, <3>2, <3>3, <3>4 DEF ContextChanged
  <2>5. CASE \E p \in Parents(u, m) : DependencyChanged(p)
    <3>1. PICK p \in Parents(u, m) : DependencyChanged(p)
      BY <2>5
    <3>2. p[1] \in Tasks /\ p[2] \in Revisions /\ p \in Nodes /\ <<<<u, m>>, p>> \in edges
      BY DEF Parents, Nodes
    <3>3. p[2] <= task[p[1]].current
      BY <3>2 DEF TasksNumbered
    <3>4. task'[p[1]].current # p[2]
      <4>1. p[2] \in Nat /\ task[p[1]].current \in Nat /\ task'[p[1]].current \in Nat
        BY <1>10, <3>2, Rows, Numbers DEF TypeOK
      <4> QED BY <1>6, <3>1, <3>2, <3>3, <4>1 DEF DependencyChanged
    <3>5. p \in Parents(u, m)' /\ DependencyChanged(p)'
      BY <1>1, <2>1, <3>2, <3>4 DEF Parents, DependencyChanged
    <3> QED BY <3>5
  <2> QED BY <2>3, <2>4, <2>5
<1> QED BY <1>2, <1>10, <1>11, <1>12, <1>13, <1>14, <1>15, <1>17, <1>18

\* A task begins with its first revision, alone or after the latest run of a session
\* (create_in).
LEMMA CreateSafe ==
  ASSUME QueueInvariant, NEW t \in Tasks, Create(t)
  PROVE  QueueInvariant'
<1> USE DEF QueueInvariant
<1>1. PICK s \in 0..nrun, parent \in 0..nrun, ack \in BOOLEAN :
        /\ IF s = 0 THEN parent = 0 /\ ~ack
           ELSE "share" \in Activities /\ IdleContext(s, parent)
        /\ task' = [task EXCEPT ![t] = [current |-> 1, session |-> s, active |-> 0]]
        /\ NewVersion(t, 1, s, parent, ack)
  BY Zenon DEF Create
<1> DEFINE row == [parent |-> parent, backend |-> IF s = 0 THEN 0 ELSE backend[s], ack |-> ack]
<1>2. /\ MaxRevisions > 0 /\ task[t].current = 0
      /\ UNCHANGED <<run, nrun, backend, accepted, pinned, edges, entry, nentry, cursor>>
  BY DEF Create, runTables, queue
<1>3. nrun \in 0..MaxRuns /\ nrun \in Nat /\ 1 \in Revisions /\ 1 \in 0..MaxRevisions
  BY <1>2, Rows, Numbers
<1>4. row \in VersionType /\ row.parent <= nrun /\ row.backend <= nrun
  <2>1. parent \in 0..MaxRuns /\ parent <= nrun
    BY <1>3, Numbers
  <2>2. (IF s = 0 THEN 0 ELSE backend[s]) \in 0..MaxRuns
        /\ (IF s = 0 THEN 0 ELSE backend[s]) <= nrun
    BY <1>3, Rows, Numbers DEF SessionsPlaced
  <2> QED BY <2>1, <2>2 DEF VersionType
<1>5. /\ task' \in [Tasks -> [current: 0..MaxRevisions, session: 0..MaxRuns, active: 0..MaxRuns]]
      /\ task'[t].current = 1 /\ task'[t].session = s /\ task'[t].active = 0
      /\ \A u \in Tasks : u # t => task'[u] = task[u]
  BY <1>1, <1>3, Numbers DEF TypeOK
<1>6. \A e \in Entries : entry[e].state = "waiting" => entry[e].task # t
  <2> SUFFICES ASSUME NEW e \in Entries, entry[e].state = "waiting", entry[e].task = t PROVE FALSE
    OBVIOUS
  <2>1. e <= nentry
    BY EntryOfTask
  <2> QED BY <1>2, <2>1 DEF EntriesNumbered
<1>7. version' = [version EXCEPT ![<<t, 1>>] = row]
  BY <1>1 DEF NewVersion
<1> HIDE DEF row
<1>8. NewRevision(t, 1, s, row)
  BY <1>2, <1>3, <1>4, <1>5, <1>6, <1>7 DEF NewRevision, TypeOK
<1> QED BY <1>8, RevisionSafe

\* The next revision supersedes what waits for the one before (revise_in).
LEMMA ReviseSafe ==
  ASSUME QueueInvariant, NEW t \in Tasks, Revise(t)
  PROVE  QueueInvariant'
<1> USE DEF QueueInvariant
<1> DEFINE s == task[t].session
           n == task[t].current + 1
<1>1. PICK parent \in 0..nrun, ack \in BOOLEAN :
        /\ task' = [task EXCEPT ![t].current = n, ![t].active = 0]
        /\ NewVersion(t, n, s, parent, ack)
  BY DEF Revise
<1> DEFINE row == [parent |-> parent, backend |-> IF s = 0 THEN 0 ELSE backend[s], ack |-> ack]
<1>2. /\ task[t].current \in 1..(MaxRevisions - 1)
      /\ UNCHANGED <<run, nrun, backend, accepted, pinned, edges, nentry, cursor>>
  BY DEF Revise, runTables
<1>3. /\ nrun \in 0..MaxRuns /\ nrun \in Nat /\ n \in Revisions /\ n \in 0..MaxRevisions
      /\ s \in 0..nrun /\ s \in 0..MaxRuns
  BY <1>2, Rows, Numbers DEF TasksNumbered
<1>4. row \in VersionType /\ row.parent <= nrun /\ row.backend <= nrun
  <2>1. parent \in 0..MaxRuns /\ parent <= nrun
    BY <1>3, Numbers
  <2>2. (IF s = 0 THEN 0 ELSE backend[s]) \in 0..MaxRuns
        /\ (IF s = 0 THEN 0 ELSE backend[s]) <= nrun
    BY <1>3, Rows, Numbers DEF SessionsPlaced
  <2> HIDE DEF s
  <2> QED BY <2>1, <2>2 DEF VersionType
<1>5. /\ task' \in [Tasks -> [current: 0..MaxRevisions, session: 0..MaxRuns, active: 0..MaxRuns]]
      /\ task'[t].current = n /\ task'[t].session = s /\ task'[t].active = 0
      /\ \A u \in Tasks : u # t => task'[u] = task[u]
  <2>1. task[t] \in [current: 0..MaxRevisions, session: 0..MaxRuns, active: 0..MaxRuns]
    BY DEF TypeOK
  <2>2. task' = [task EXCEPT ![t] = [task[t] EXCEPT !.current = n, !.active = 0]]
    BY <1>1
  <2>3. 0 \in 0..MaxRuns
    BY Numbers
  <2>4. /\ [task[t] EXCEPT !.current = n, !.active = 0]
              \in [current: 0..MaxRevisions, session: 0..MaxRuns, active: 0..MaxRuns]
        /\ [task[t] EXCEPT !.current = n, !.active = 0].current = n
        /\ [task[t] EXCEPT !.current = n, !.active = 0].session = s
        /\ [task[t] EXCEPT !.current = n, !.active = 0].active = 0
    BY <1>3, <2>1, <2>3
  <2> QED BY <2>2, <2>4 DEF TypeOK
<1>6. entry' = [e \in Entries |->
        IF Waiting(e) /\ entry[e].task = t
        THEN [entry[e] EXCEPT !.state = "superseded"] ELSE entry[e]]
  BY DEF Revise
<1>7. /\ entry' \in [Entries -> EntryType]
      /\ \A e \in Entries :
           /\ entry'[e].task = entry[e].task /\ entry'[e].rev = entry[e].rev
           /\ entry'[e] = entry[e] \/ (Waiting(e) /\ entry'[e].state = "superseded")
           /\ entry'[e].state = "waiting" => entry[e].task # t
           /\ entry[e].state = "absent" => entry'[e] = entry[e]
  <2> SUFFICES ASSUME NEW e \in Entries
               PROVE  /\ entry'[e] \in EntryType
                      /\ entry'[e].task = entry[e].task /\ entry'[e].rev = entry[e].rev
                      /\ entry'[e] = entry[e] \/ (Waiting(e) /\ entry'[e].state = "superseded")
                      /\ entry'[e].state = "waiting" => entry[e].task # t
                      /\ entry[e].state = "absent" => entry'[e] = entry[e]
    BY <1>6
  <2>1. entry[e] \in EntryType
    BY DEF TypeOK
  <2>2. [entry[e] EXCEPT !.state = "superseded"] \in EntryType
    BY <2>1 DEF EntryType, EntryStates
  <2> QED BY <1>6, <2>1, <2>2 DEF EntryType, Waiting
<1>8. version' = [version EXCEPT ![<<t, n>>] = row]
  BY <1>1 DEF NewVersion
<1> HIDE DEF row
<1>9. NewRevision(t, n, s, row)
  BY <1>2, <1>3, <1>4, <1>5, <1>7, <1>8 DEF NewRevision
<1> QED BY <1>9, RevisionSafe

-----------------------------------------------------------------------------
(* Decisions and the queue.                                                  *)

\* What an entry was given up for stays while tasks and runs do (TERMINAL_BLOCKS).
LEMMA CausesKept ==
  ASSUME NEW t, NEW n, UNCHANGED <<task, version, run, backend>>, edges \subseteq edges',
         ContextChanged(t, n) \/ \E p \in Parents(t, n) : DependencyChanged(p)
  PROVE  ContextChanged(t, n)' \/ \E p \in Parents(t, n)' : DependencyChanged(p)'
<1>1. CASE ContextChanged(t, n)
  <2>1. /\ \A r, x : Latest(r, x)' <=> Latest(r, x)
        /\ \A r : LastAttempt(r, t, n)' <=> LastAttempt(r, t, n)
    BY DEF Latest, LastAttempt, Turns, Attempts
  <2>2. {r \in Runs : LastAttempt(r, t, n)}' = {r \in Runs : LastAttempt(r, t, n)}
    BY <2>1
  <2>3. {run[r].backend : r \in {r \in Runs : LastAttempt(r, t, n)}}'
          = {run[r].backend : r \in {r \in Runs : LastAttempt(r, t, n)}}
    BY <2>2
  <2>4. \A r : Latest(r, task[t].session)' <=> Latest(r, task[t].session)
    BY DEF Latest, Turns
  <2> QED BY <1>1, <2>2, <2>3, <2>4 DEF ContextChanged
<1>2. CASE \E p \in Parents(t, n) : DependencyChanged(p)
  BY <1>2 DEF Parents, DependencyChanged
<1> QED BY <1>1, <1>2

\* The same for all entries that wait (queue_entries.block_code).
LEMMA GivenUpKept ==
  ASSUME UNCHANGED <<task, version, run, backend>>, edges \subseteq edges',
         \A e \in Entries : entry'[e].state = "waiting" /\ entry'[e].terminal =>
           /\ entry'[e].task = entry[e].task /\ entry'[e].rev = entry[e].rev
           /\ \/ ContextChanged(entry[e].task, entry[e].rev)
              \/ \E p \in Parents(entry[e].task, entry[e].rev) : DependencyChanged(p)
  PROVE  GivenUpWithCause'
<1> SUFFICES ASSUME NEW e \in Entries, entry'[e].state = "waiting", entry'[e].terminal
             PROVE  \/ ContextChanged(entry[e].task, entry[e].rev)'
                    \/ \E p \in Parents(entry[e].task, entry[e].rev)' : DependencyChanged(p)'
  BY DEF GivenUpWithCause, WaitingEntries, Waiting
<1>1. PICK t, n : t = entry[e].task /\ n = entry[e].rev
  OBVIOUS
<1>2. /\ t = entry'[e].task /\ n = entry'[e].rev
      /\ ContextChanged(t, n) \/ \E p \in Parents(t, n) : DependencyChanged(p)
  BY <1>1
<1>3. ContextChanged(t, n)' \/ \E p \in Parents(t, n)' : DependencyChanged(p)'
  BY <1>2, CausesKept
<1>4. ContextChanged(t, n)' => ContextChanged(entry[e].task, entry[e].rev)'
  BY <1>2 DEF ContextChanged, LastAttempt, Latest, Attempts, Turns
<1>5. Parents(t, n)' = Parents(entry[e].task, entry[e].rev)'
  BY <1>2 DEF Parents
<1> QED BY <1>3, <1>4, <1>5

\* Another decision takes no accepted run away (_decision_in).
LEMMA AcceptSafe ==
  ASSUME QueueInvariant, NEW t \in Tasks, Accept(t)
  PROVE  QueueInvariant'
<1> USE DEF QueueInvariant
<1>1. /\ UNCHANGED <<task, version, pinned, edges, run, nrun, backend, entry, nentry, cursor>>
      /\ accepted' = accepted \union {task[t].active}
  BY DEF Accept, taskTables, queue
<1>2. RunsNumbered' /\ SessionsPlaced' /\ TurnsSettled' /\ RevisionExecutesOnce'
      /\ ConversationMatches'
  BY <1>1, RunsKept
<1>3. TypeOK'
  <2>1. task[t].active \in Runs
    BY Rows, Numbers DEF Accept
  <2> QED BY <1>1, <2>1 DEF TypeOK
<1>4. EntriesNumbered' /\ TasksNumbered' /\ RunsOfTasks'
  BY <1>1 DEF EntriesNumbered, TasksNumbered, RunsOfTasks
<1>5. ContextExact'
  BY <1>1 DEF ContextExact, Turns, Attempts
<1>6. QueueConsistent'
  BY <1>1 DEF QueueConsistent, WaitingEntries, Waiting, LastAttempt, Attempts
<1>7. GivenUpWithCause'
  BY <1>1, GivenUpKept DEF GivenUpWithCause, WaitingEntries, Waiting
<1>8. InputsAccepted'
  BY <1>1 DEF InputsAccepted, Parents
<1> QED BY <1>2, <1>3, <1>4, <1>5, <1>6, <1>7, <1>8

\* Entries that move on by themselves: they leave the queue or are given up with a cause.
EntriesMove ==
  /\ UNCHANGED <<task, version, pinned, edges, run, nrun, backend, accepted, nentry>>
  /\ cursor' \in -1..MaxEntries
  /\ entry' \in [Entries -> EntryType]
  /\ \A e \in Entries :
       /\ entry'[e].task = entry[e].task /\ entry'[e].rev = entry[e].rev
       /\ entry'[e].run = entry[e].run
       /\ entry'[e].state = entry[e].state \/ entry'[e].state = "cancelled"
       /\ entry[e].state = "absent" => entry'[e] = entry[e]
       /\ Waiting(e) /\ entry'[e].state = "waiting" /\ entry'[e].terminal =>
            \/ entry[e].terminal
            \/ ContextChanged(entry[e].task, entry[e].rev)
            \/ \E p \in Parents(entry[e].task, entry[e].rev) : DependencyChanged(p)

\* The queue alone does not touch runs or tasks (queue_entries).
LEMMA EntriesMoveSafe ==
  ASSUME QueueInvariant, EntriesMove
  PROVE  QueueInvariant'
<1> USE DEF QueueInvariant
<1>1. UNCHANGED <<task, version, pinned, edges, run, nrun, backend, accepted, nentry>>
  BY DEF EntriesMove
<1>2. RunsNumbered' /\ SessionsPlaced' /\ TurnsSettled' /\ RevisionExecutesOnce'
      /\ ConversationMatches'
  BY <1>1, RunsKept
<1>3. TypeOK' /\ TasksNumbered' /\ RunsOfTasks'
  BY <1>1 DEF TypeOK, TasksNumbered, RunsOfTasks, EntriesMove
<1>4. EntriesNumbered'
  <2>1. \A e \in Entries : ~(e <= nentry) => entry'[e] = NoEntry
    <3> SUFFICES ASSUME NEW e \in Entries, ~(e <= nentry) PROVE entry'[e] = NoEntry
      OBVIOUS
    <3>1. entry[e] = NoEntry
      BY DEF EntriesNumbered
    <3>2. entry[e].state = "absent"
      BY <3>1 DEF NoEntry
    <3> QED BY <3>1, <3>2 DEF EntriesMove
  <2> QED BY <1>1, <2>1 DEF EntriesNumbered, EntriesMove
<1>5. ContextExact' /\ InputsAccepted'
  BY <1>1 DEF ContextExact, InputsAccepted, Parents, Turns, Attempts
<1>6. \A e \in Entries : /\ entry'[e].state = "waiting" => entry[e].state = "waiting"
                         /\ entry'[e].state = "reserved" => entry[e].state = "reserved"
  BY DEF EntriesMove
<1>7. \A e \in Entries : /\ entry'[e].task = entry[e].task /\ entry'[e].rev = entry[e].rev
                         /\ entry'[e].run = entry[e].run
  BY DEF EntriesMove
<1>8. QueueConsistent'
  BY <1>1, <1>6, <1>7 DEF QueueConsistent, WaitingEntries, Waiting, LastAttempt, Attempts
<1>9. GivenUpWithCause'
  <2>1. \A e \in Entries : entry'[e].state = "waiting" /\ entry'[e].terminal =>
          \/ ContextChanged(entry[e].task, entry[e].rev)
          \/ \E p \in Parents(entry[e].task, entry[e].rev) : DependencyChanged(p)
    BY <1>6 DEF GivenUpWithCause, WaitingEntries, Waiting, EntriesMove
  <2> QED BY <1>1, <1>7, <2>1, GivenUpKept
<1> QED BY <1>2, <1>3, <1>4, <1>5, <1>8, <1>9

\* dequeue, and what the dispatcher does besides admitting (tick).
LEMMA QueueMovesSafe ==
  ASSUME QueueInvariant,
         (\E e \in Entries : Dequeue(e) \/ Skip(e)) \/ TickStart \/ TickEnd
  PROVE  QueueInvariant'
<1> USE DEF QueueInvariant
<1>1. MaxEntries \in Nat /\ entry \in [Entries -> EntryType]
  BY Numbers DEF TypeOK
<1>2. CASE TickStart \/ TickEnd
  <2>1. EntriesMove
    BY <1>1, <1>2 DEF EntriesMove, TickStart, TickEnd, taskTables, runTables, queue
  <2> QED BY <2>1, EntriesMoveSafe
<1>3. ASSUME NEW e \in Entries, Dequeue(e) PROVE QueueInvariant'
  <2>1. /\ UNCHANGED <<task, version, pinned, edges, run, nrun, backend, accepted, nentry, cursor>>
        /\ entry' = [entry EXCEPT ![e] = [entry[e] EXCEPT !.state = "cancelled"]]
        /\ Waiting(e)
    BY <1>3 DEF Dequeue, taskTables, runTables
  <2>2. [entry[e] EXCEPT !.state = "cancelled"] \in EntryType
    BY <1>1 DEF EntryType, EntryStates
  <2>3. /\ entry'[e] = [entry[e] EXCEPT !.state = "cancelled"]
        /\ entry'[e].task = entry[e].task /\ entry'[e].rev = entry[e].rev
        /\ entry'[e].run = entry[e].run /\ entry'[e].state = "cancelled"
        /\ \A d \in Entries \ {e} : entry'[d] = entry[d]
    BY <1>1, <2>1 DEF EntryType
  <2>4. entry' \in [Entries -> EntryType] /\ cursor' \in -1..MaxEntries
    BY <1>1, <2>1, <2>2 DEF TypeOK
  <2>5. EntriesMove
    BY <2>1, <2>3, <2>4 DEF EntriesMove, Waiting
  <2> QED BY <2>5, EntriesMoveSafe
<1>4. ASSUME NEW e \in Entries, Skip(e) PROVE QueueInvariant'
  <2> DEFINE t == entry[e].task
             n == entry[e].rev
  <2>1. /\ UNCHANGED <<task, version, pinned, edges, run, nrun, backend, accepted, nentry>>
        /\ cursor' = e /\ Waiting(e)
        /\ \/ BlockedForGood(t, n) /\ entry' = [entry EXCEPT ![e] = [entry[e] EXCEPT !.terminal = TRUE]]
           \/ UNCHANGED entry
    BY <1>4 DEF Skip, NextEntry, taskTables, runTables
  <2>2. cursor' \in -1..MaxEntries
    BY <2>1, Numbers
  <2>3. CASE UNCHANGED entry
    <3>1. EntriesMove
      BY <1>1, <2>1, <2>2, <2>3 DEF EntriesMove
    <3> QED BY <3>1, EntriesMoveSafe
  <2>4. CASE BlockedForGood(t, n) /\ entry' = [entry EXCEPT ![e] = [entry[e] EXCEPT !.terminal = TRUE]]
    <3>1. n = task[t].current /\ Attempts(t, n) = {}
      BY <2>1 DEF QueueConsistent, WaitingEntries
    <3>2. ContextChanged(t, n) \/ \E p \in Parents(t, n) : DependencyChanged(p)
      BY <2>4, <3>1 DEF BlockedForGood
    <3>3. [entry[e] EXCEPT !.terminal = TRUE] \in EntryType
      BY <1>1 DEF EntryType
    <3>4. /\ entry'[e] = [entry[e] EXCEPT !.terminal = TRUE]
          /\ entry'[e].task = entry[e].task /\ entry'[e].rev = entry[e].rev
          /\ entry'[e].run = entry[e].run /\ entry'[e].state = entry[e].state
          /\ \A d \in Entries \ {e} : entry'[d] = entry[d]
      BY <1>1, <2>4 DEF EntryType
    <3>5. entry' \in [Entries -> EntryType]
      BY <1>1, <2>4, <3>3
    <3>6. EntriesMove
      BY <2>1, <2>2, <3>2, <3>4, <3>5 DEF EntriesMove, Waiting
    <3> QED BY <3>6, EntriesMoveSafe
  <2> QED BY <2>1, <2>3, <2>4
<1> QED BY <1>2, <1>3, <1>4

\* A new entry waits for a revision that nothing was run of (enqueue_in).
LEMMA EnqueueSafe ==
  ASSUME QueueInvariant, NEW t \in Tasks,
         NEW deps \in SUBSET {v \in Nodes : task[v[1]].current = v[2]}, Enqueue(t, deps)
  PROVE  QueueInvariant'
<1> USE DEF QueueInvariant
<1> DEFINE n == task[t].current
           e == nentry + 1
           row == [state |-> "waiting", task |-> t, rev |-> n, run |-> 0, terminal |-> FALSE]
<1>1. /\ UNCHANGED <<task, version, run, nrun, backend, accepted, cursor>>
      /\ n # 0 /\ nentry < MaxEntries /\ Attempts(t, n) = {}
      /\ nentry' = e /\ entry' = [entry EXCEPT ![e] = row]
      /\ pinned' = pinned \union {<<t, n>>}
      /\ edges' = edges \union ({<<t, n>>} \X deps)
      /\ ~\E d \in WaitingEntries : entry[d].task = t /\ entry[d].rev = n
  BY DEF Enqueue, runTables
<1>2. nentry \in Nat /\ e \in Entries /\ n \in Revisions /\ n \in 1..n /\ n \in 0..MaxRevisions
      /\ <<t, n>> \in Nodes
  BY <1>1, Rows, Numbers DEF Nodes
<1>3. RunsNumbered' /\ SessionsPlaced' /\ TurnsSettled' /\ RevisionExecutesOnce'
      /\ ConversationMatches'
  BY <1>1, RunsKept
<1>4. row \in EntryType /\ row.task = t /\ row.rev = n /\ row.state = "waiting" /\ ~row.terminal
  <2>1. 0 \in 0..MaxRuns
    BY Numbers
  <2> HIDE DEF n
  <2> QED BY <1>2, <2>1 DEF EntryType, EntryStates
<1> HIDE DEF row
<1>5. entry'[e] = row /\ \A d \in Entries : d # e => entry'[d] = entry[d]
  BY <1>1, <1>2 DEF TypeOK
<1>6. TypeOK'
  <2>1. entry' \in [Entries -> EntryType]
    BY <1>1, <1>4 DEF TypeOK
  <2>2. pinned' \subseteq Nodes /\ edges' \subseteq Nodes \X Nodes
    BY <1>1, <1>2 DEF TypeOK
  <2>3. nentry' \in 0..MaxEntries
    BY <1>1, <1>2, Numbers
  <2> QED BY <1>1, <2>1, <2>2, <2>3 DEF TypeOK
<1>7. EntriesNumbered'
  <2> SUFFICES ASSUME NEW d \in Entries
               PROVE  IF d <= nentry + 1
                      THEN entry'[d].task \in Tasks /\ entry'[d].rev \in 1..task[entry'[d].task].current
                      ELSE entry'[d] = NoEntry
    BY <1>1 DEF EntriesNumbered
  <2>1. CASE d = e
    BY <1>2, <1>4, <1>5, <2>1
  <2>2. CASE d # e
    BY <1>2, <1>5, <2>2, Numbers DEF EntriesNumbered
  <2> QED BY <2>1, <2>2
<1>8. RunsOfTasks'
  BY <1>1 DEF RunsOfTasks
<1>9. TasksNumbered'
  <2>1. \A d \in {<<t, n>>} \X deps : d[2][2] <= task[d[2][1]].current
    <3> SUFFICES ASSUME NEW p \in deps PROVE p[2] <= task[p[1]].current
      OBVIOUS
    <3>1. p[2] = task[p[1]].current /\ p[2] \in Revisions
      BY DEF Nodes
    <3> QED BY <3>1, Numbers
  <2> QED BY <1>1, <2>1 DEF TasksNumbered
<1>10. ContextExact'
  BY <1>1 DEF ContextExact, Turns, Attempts
<1>11. InputsAccepted'
  <2>1. \A r \in Runs : ~(run[r].task = t /\ run[r].rev = n)
    BY <1>1 DEF Attempts
  <2>2. \A r \in Runs : Parents(run[r].task, run[r].rev)' = Parents(run[r].task, run[r].rev)
    BY <1>1, <2>1 DEF Parents
  <2> QED BY <1>1, <2>2 DEF InputsAccepted
<1>12. QueueConsistent'
  <2>1. ASSUME NEW d \in Entries, entry'[d].state = "waiting"
        PROVE  /\ entry'[d].rev = task[entry'[d].task].current
               /\ Attempts(entry[d].task, entry[d].rev)' = {}
               /\ \A f \in Entries : entry'[f].state = "waiting" /\ entry'[f].task = entry'[d].task => f = d
    <3>1. \A f \in Entries : f # e /\ entry'[f].state = "waiting" =>
            /\ entry'[f] = entry[f] /\ Waiting(f)
            /\ entry[f].rev = task[entry[f].task].current /\ entry[f].task # t
            /\ Attempts(entry[f].task, entry[f].rev) = {}
      <4> SUFFICES ASSUME NEW f \in Entries, f # e, entry'[f].state = "waiting"
                   PROVE  /\ entry'[f] = entry[f] /\ Waiting(f)
                          /\ entry[f].rev = task[entry[f].task].current /\ entry[f].task # t
                          /\ Attempts(entry[f].task, entry[f].rev) = {}
        OBVIOUS
      <4>1. entry'[f] = entry[f] /\ Waiting(f)
        BY <1>5 DEF Waiting
      <4>2. entry[f].rev = task[entry[f].task].current /\ Attempts(entry[f].task, entry[f].rev) = {}
        BY <4>1 DEF QueueConsistent, WaitingEntries
      <4>3. entry[f].task # t
        BY <1>1, <4>1, <4>2 DEF WaitingEntries
      <4> QED BY <4>1, <4>2, <4>3
    <3>2. CASE d = e
      <4>1. Attempts(entry[d].task, entry[d].rev)' = {}
        BY <1>1, <1>4, <1>5, <3>2 DEF Attempts
      <4> QED BY <1>4, <1>5, <3>1, <3>2, <4>1
    <3>3. CASE d # e
      <4>1. entry'[d] = entry[d] /\ Attempts(entry[d].task, entry[d].rev) = {}
        BY <2>1, <3>1, <3>3
      <4>2. Attempts(entry[d].task, entry[d].rev)' = {}
        BY <1>1, <4>1 DEF Attempts
      <4>3. \A f \in Entries : entry'[f].state = "waiting" /\ entry'[f].task = entry'[d].task => f = d
        BY <1>4, <1>5, <2>1, <3>1, <3>3 DEF QueueConsistent, WaitingEntries
      <4> QED BY <2>1, <3>1, <3>3, <4>2, <4>3
    <3> QED BY <3>2, <3>3
  <2>2. ASSUME NEW d \in Entries, entry'[d].state = "reserved"
        PROVE  LastAttempt(entry[d].run, entry[d].task, entry[d].rev)'
    <3>1. entry'[d] = entry[d]
      BY <1>4, <1>5, <2>2
    <3> QED BY <1>1, <2>2, <3>1 DEF QueueConsistent, LastAttempt, Attempts
  <2>3. \A u \in Tasks : IF task[u].active = 0 THEN Attempts(u, task[u].current)' = {}
                         ELSE LastAttempt(task[u].active, u, task[u].current)'
    BY <1>1 DEF QueueConsistent, LastAttempt, Attempts
  <2> QED BY <1>1, <2>1, <2>2, <2>3 DEF QueueConsistent, WaitingEntries, Waiting
<1>13. GivenUpWithCause'
  <2>1. \A d \in Entries : entry'[d].state = "waiting" /\ entry'[d].terminal =>
          /\ entry'[d] = entry[d]
          /\ \/ ContextChanged(entry[d].task, entry[d].rev)
             \/ \E p \in Parents(entry[d].task, entry[d].rev) : DependencyChanged(p)
    BY <1>4, <1>5 DEF GivenUpWithCause, WaitingEntries, Waiting
  <2>2. edges \subseteq edges'
    BY <1>1
  <2>3. UNCHANGED <<task, version, run, backend>>
    BY <1>1
  <2> QED BY <2>1, <2>2, <2>3, GivenUpKept
<1> QED BY <1>3, <1>6, <1>7, <1>8, <1>9, <1>10, <1>11, <1>12, <1>13

-----------------------------------------------------------------------------
(* The whole.                                                                *)

\* Submit and Admit reserve what they found admissible in the same transaction.
LEMMA ReservationsSafe ==
  ASSUME QueueInvariant,
         \/ \E t \in Tasks, retry \in BOOLEAN : Submit(t, retry)
         \/ \E e \in Entries : Admit(e)
  PROVE  QueueInvariant'
<1> USE DEF QueueInvariant
<1>1. ASSUME NEW t \in Tasks, NEW retry \in BOOLEAN, Submit(t, retry) PROVE QueueInvariant'
  <2>1. /\ Admissible(t, task[t].current, retry) /\ Reserve(t, task[t].current)
        /\ cursor' \in -1..MaxEntries
    BY <1>1 DEF Submit, TypeOK
  <2> QED BY <2>1, ReserveSafe
<1>2. ASSUME NEW e \in Entries, Admit(e) PROVE QueueInvariant'
  <2>1. /\ Admissible(entry[e].task, entry[e].rev, FALSE) /\ Reserve(entry[e].task, entry[e].rev)
        /\ cursor' \in -1..MaxEntries /\ entry[e].state = "waiting"
    <3>1. cursor' = e /\ e \in -1..MaxEntries
      BY <1>2, Numbers DEF Admit
    <3> QED BY <1>2, <3>1 DEF Admit, NextEntry, Waiting
  <2>2. entry[e].task \in Tasks
    BY <2>1, EntryOfTask
  <2> QED BY <2>1, <2>2, ReserveSafe
<1> QED BY <1>1, <1>2

\* An empty store satisfies everything (schema).
LEMMA QueueStarts == Init => QueueInvariant
<1> SUFFICES ASSUME Init PROVE QueueInvariant
  OBVIOUS
<1> USE DEF Init
<1>1. TypeOK
  <2>1. 0 \in 0..MaxRuns /\ 0 \in 0..MaxRevisions /\ 0 \in 0..MaxEntries /\ -1 \in -1..MaxEntries
    BY Numbers
  <2>2. NoRun \in RunType
    BY <2>1 DEF NoRun, RunType, RunStatuses
  <2>3. NoEntry \in EntryType
    BY <2>1 DEF NoEntry, EntryType, EntryStates
  <2>4. NoVersion \in VersionType
    BY <2>1 DEF NoVersion, VersionType
  <2> QED BY <2>1, <2>2, <2>3, <2>4 DEF TypeOK
<1>2. /\ \A r \in Runs : /\ run[r] = NoRun /\ run[r].task = NoTask /\ run[r].session = 0
                         /\ Status(r) = "absent" /\ ~(r <= nrun)
      /\ \A e \in Entries : entry[e] = NoEntry /\ entry[e].state = "absent" /\ ~(e <= nentry)
      /\ \A v \in Nodes : version[v].parent = 0 /\ version[v].backend = 0
  BY Numbers DEF NoRun, NoEntry, NoVersion, Status
<1>3. \A x : Turns(x) = {}
  BY <1>2 DEF Turns
<1>4. \A t \in Tasks : \A n : Attempts(t, n) = {}
  BY <1>2, QueueAssumption DEF Attempts
<1>5. RunsNumbered /\ EntriesNumbered /\ TasksNumbered
  BY <1>2 DEF RunsNumbered, EntriesNumbered, TasksNumbered
<1>6. RunsOfTasks /\ TurnsSettled /\ RevisionExecutesOnce /\ ConversationMatches /\ InputsAccepted
  BY <1>2 DEF RunsOfTasks, TurnsSettled, RevisionExecutesOnce, ConversationMatches, InputsAccepted
<1>7. SessionsPlaced /\ ContextExact
  BY <1>2, <1>3 DEF SessionsPlaced, ContextExact, Latest
<1>8. GivenUpWithCause /\ QueueConsistent
  BY <1>2, <1>4 DEF GivenUpWithCause, QueueConsistent, WaitingEntries, Waiting
<1> QED BY <1>1, <1>5, <1>6, <1>7, <1>8 DEF QueueInvariant

\* Every transaction of tasks.py and scheduler.py and every end of a run keeps the
\* invariant.
THEOREM QueueInvariantHolds == Spec => []QueueInvariant
<1>1. QueueInvariant /\ [Next]_vars => QueueInvariant'
  <2> SUFFICES ASSUME QueueInvariant, [Next]_vars PROVE QueueInvariant'
    OBVIOUS
  <2>1. CASE UNCHANGED vars
    <3>1. EntriesMove
      BY <2>1 DEF vars, EntriesMove, QueueInvariant, TypeOK
    <3> QED BY <3>1, EntriesMoveSafe
  <2>2. ASSUME NEW t \in Tasks, Create(t) \/ Revise(t) \/ Accept(t) PROVE QueueInvariant'
    BY <2>2, CreateSafe, ReviseSafe, AcceptSafe
  <2>3. ASSUME NEW t \in Tasks,
               NEW deps \in SUBSET {v \in Nodes : task[v[1]].current = v[2]}, Enqueue(t, deps)
        PROVE  QueueInvariant'
    BY <2>3, EnqueueSafe
  <2>4. ASSUME NEW r \in Runs, RunStep(r) \/ ResultLost(r) PROVE QueueInvariant'
    BY <2>4, RunMovesSafe
  <2>5. ASSUME NEW s \in Runs, NEW restart \in BOOLEAN, ForeignTurn(s, restart)
        PROVE  QueueInvariant'
    BY <2>5, ForeignTurnSafe
  <2>6. CASE Next
    BY <2>2, <2>3, <2>4, <2>5, <2>6, QueueMovesSafe, ReservationsSafe DEF Next, Dispatcher
  <2> QED BY <2>1, <2>6
<1> QED BY QueueStarts, <1>1, PTL DEF Spec

\* The columns of every table keep their range (schema).
THEOREM QueueTypeCorrect == Spec => []TypeOK
<1>1. QueueInvariant => TypeOK
  BY DEF QueueInvariant
<1> QED BY QueueInvariantHolds, <1>1, PTL

\* No revision is executed twice, however often it is retried (_never_started).
THEOREM RevisionsExecuteOnce == Spec => []RevisionExecutesOnce
<1>1. QueueInvariant => RevisionExecutesOnce
  BY DEF QueueInvariant
<1> QED BY QueueInvariantHolds, <1>1, PTL

\* Every turn of a task follows exactly what its revision was written for, whoever
\* else uses the session (context_changed).
THEOREM ContextsExact == Spec => []ContextExact
<1>1. QueueInvariant => ContextExact
  BY DEF QueueInvariant
<1> QED BY QueueInvariantHolds, <1>1, PTL

\* A conversation is resumed exactly when some turn executed in it (backend_unstarted).
THEOREM ConversationsMatch == Spec => []ConversationMatches
<1>1. QueueInvariant => ConversationMatches
  BY DEF QueueInvariant
<1> QED BY QueueInvariantHolds, <1>1, PTL

\* Every input is made of accepted results of exactly the pinned revisions
\* (execution_inputs).
THEOREM InputsAreAccepted == Spec => []InputsAccepted
<1>1. QueueInvariant => InputsAccepted
  BY DEF QueueInvariant
<1> QED BY QueueInvariantHolds, <1>1, PTL

\* Queue, tasks and runs agree with one another (queue_entries, tasks.active_run).
THEOREM QueueStaysConsistent == Spec => []QueueConsistent
<1>1. QueueInvariant => QueueConsistent
  BY DEF QueueInvariant
<1> QED BY QueueInvariantHolds, <1>1, PTL

\* What the dispatcher gives up could not be admitted later (TERMINAL_BLOCKS).
THEOREM GivenUpStays == Spec => []GivenUpForGood
<1>1. QueueInvariant => GivenUpForGood
  BY DEF QueueInvariant, GivenUpWithCause, GivenUpForGood, Admissible, DependencyAccepted
<1> QED BY QueueInvariantHolds, <1>1, PTL

-----------------------------------------------------------------------------
(* The graph of dependencies.                                                *)

\* Only enqueue adds edges, and only where no path leads back (_check_graph).
LEMMA GraphGrows ==
  ASSUME DependenciesAcyclic, NEW t \in Tasks,
         NEW deps \in SUBSET {v \in Nodes : task[v[1]].current = v[2]}, Enqueue(t, deps)
  PROVE  DependenciesAcyclic'
<1> DEFINE child == <<t, task[t].current>>
<1>1. /\ edges' = edges \union ({child} \X deps)
      /\ ~Reaches(deps, child)
  BY DEF Enqueue, GraphAllows
<1>2. PICK seen \in SUBSET Nodes :
        /\ deps \subseteq seen /\ child \notin seen
        /\ \A v \in seen : Parents(v[1], v[2]) \subseteq seen
  BY <1>1 DEF Reaches
<1>3. ASSUME NEW v \in Nodes, v # child
      PROVE  Parents(v[1], v[2])' = Parents(v[1], v[2])
  <2>1. v = <<v[1], v[2]>>
    BY DEF Nodes
  <2> QED BY <1>1, <1>3, <2>1 DEF Parents
<1>4. ASSUME NEW v \in Nodes, v = child
      PROVE  Parents(v[1], v[2])' \subseteq Parents(v[1], v[2]) \union deps
  BY <1>1, <1>4 DEF Parents
<1> HIDE DEF child
\* A set that meets what the search saw has its node there, any other one elsewhere.
<1>5. ASSUME NEW S \in SUBSET Nodes, S # {}
      PROVE  \E v \in S : Parents(v[1], v[2])' \intersect S = {}
  <2>1. CASE S \intersect seen # {}
    <3>1. PICK v \in S \intersect seen : Parents(v[1], v[2]) \intersect (S \intersect seen) = {}
      BY <2>1 DEF DependenciesAcyclic
    <3>2. Parents(v[1], v[2]) \subseteq seen /\ v # child /\ v \in Nodes
      BY <1>2
    <3>3. Parents(v[1], v[2])' \intersect S = {}
      BY <1>3, <3>1, <3>2
    <3> QED BY <3>3
  <2>2. CASE S \intersect seen = {}
    <3>1. PICK v \in S : Parents(v[1], v[2]) \intersect S = {}
      BY <1>5 DEF DependenciesAcyclic
    <3>2. Parents(v[1], v[2])' \intersect S = {}
      BY <1>2, <1>3, <1>4, <2>2, <3>1
    <3> QED BY <3>2
  <2> QED BY <2>1, <2>2
<1> QED BY <1>5 DEF DependenciesAcyclic

\* Everything else leaves the graph as it is (task_dependencies).
LEMMA GraphKept ==
  ASSUME QueueInvariant, [Next]_vars,
         ~ \E t \in Tasks, deps \in SUBSET {v \in Nodes : task[v[1]].current = v[2]} : Enqueue(t, deps)
  PROVE  UNCHANGED edges
<1> USE DEF taskTables, runTables, queue
<1>1. CASE UNCHANGED vars
  BY <1>1 DEF vars
<1>2. ASSUME NEW t \in Tasks, Create(t) \/ Revise(t) \/ Accept(t) PROVE UNCHANGED edges
  BY <1>2 DEF Create, Revise, Accept
<1>3. ASSUME NEW t \in Tasks, NEW retry \in BOOLEAN, Submit(t, retry) PROVE UNCHANGED edges
  BY <1>3, ZenonT(60) DEF Submit, Reserve
<1>4. ASSUME NEW e \in Entries, Dequeue(e) \/ Admit(e) \/ Skip(e) PROVE UNCHANGED edges
  BY <1>4 DEF Dequeue, Admit, Skip, Reserve
<1>5. CASE TickStart \/ TickEnd
  BY <1>5 DEF TickStart, TickEnd
<1>6. ASSUME NEW r \in Runs, RunStep(r) \/ ResultLost(r) PROVE UNCHANGED edges
  BY <1>6, RunMoved DEF QueueInvariant
<1>7. ASSUME NEW s \in Runs, NEW restart \in BOOLEAN, ForeignTurn(s, restart)
      PROVE  UNCHANGED edges
  BY <1>7 DEF ForeignTurn
<1>8. CASE Next
  BY <1>2, <1>3, <1>4, <1>5, <1>6, <1>7, <1>8 DEF Next, Dispatcher
<1> QED BY <1>1, <1>8

\* However tasks are revised and enqueued, no revision ever depends on itself, not
\* even through others (_check_graph).
THEOREM DependenciesStayAcyclic == Spec => []DependenciesAcyclic
<1>1. Init => DependenciesAcyclic
  <2> SUFFICES ASSUME Init PROVE DependenciesAcyclic
    OBVIOUS
  <2>1. edges = {}
    BY DEF Init
  <2>2. ASSUME NEW S \in (SUBSET Nodes) \ {{}}
        PROVE  \E v \in S : Parents(v[1], v[2]) \intersect S = {}
    <3>1. PICK v \in S : TRUE
      BY <2>2
    <3>2. Parents(v[1], v[2]) = {}
      BY <2>1 DEF Parents
    <3> QED BY <3>1, <3>2
  <2> QED BY <2>2 DEF DependenciesAcyclic
<1>2. QueueInvariant /\ DependenciesAcyclic /\ [Next]_vars => DependenciesAcyclic'
  <2> SUFFICES ASSUME QueueInvariant, DependenciesAcyclic, [Next]_vars PROVE DependenciesAcyclic'
    OBVIOUS
  <2>1. CASE \E t \in Tasks, deps \in SUBSET {v \in Nodes : task[v[1]].current = v[2]} :
               Enqueue(t, deps)
    BY <2>1, GraphGrows
  <2>2. CASE UNCHANGED edges
    BY <2>2 DEF DependenciesAcyclic, Parents
  <2> QED BY <2>1, <2>2, GraphKept
<1> QED BY <1>1, <1>2, QueueInvariantHolds, PTL DEF Spec

-----------------------------------------------------------------------------
(* TaskQueue implements RunLife.                                             *)

\* The instance has a FiniteSets of its own.
LEMMA SameLifeCardinality ==
  ASSUME NEW S
  PROVE  Life!Cardinality(S) = Cardinality(S)
BY DEF Life!Cardinality, Cardinality

\* What the life of a run reads.
LEMMA LifeReads ==
  /\ Life!Runs = Runs /\ Life!ActiveStatuses = ActiveStatuses
  /\ \A s \in Runs : Life!Turns(s) = Turns(s)
  /\ Life!ActiveTurns = {r \in Runs : Status(r) \in ActiveStatuses}
<1>1. Life!Runs = Runs /\ Life!ActiveStatuses = ActiveStatuses
  BY DEF Life!Runs, Runs, Life!ActiveStatuses, ActiveStatuses
<1>2. ASSUME NEW s \in Runs PROVE Life!Turns(s) = Turns(s)
  BY <1>1, Numbers DEF Life!Turns, Turns
<1>3. Life!ActiveTurns = {r \in Runs : Status(r) \in ActiveStatuses}
  BY <1>1 DEF Life!ActiveTurns
<1> QED BY <1>1, <1>2, <1>3

\* The next turn of a session may be reserved (reserve_in: capacity, blocked, ACTIVE).
LEMMA FreeSession ==
  ASSUME QueueInvariant, NEW s \in Runs, HasCapacity, Turns(s) = {} \/ ~SessionBusy(s)
  PROVE  Life!Free(s)
<1>1. ASSUME NEW q \in Turns(s) PROVE Status(q) \notin ActiveStatuses \union {"divergent"}
  <2>1. Status(q) \notin ActiveStatuses
    BY IdleSession DEF QueueInvariant
  <2>2. Status(q) # "divergent"
    BY Numbers DEF SessionBusy, Blocked
  <2> QED BY <2>1, <2>2
<1>2. \A q \in Life!Turns(s) :
        [r \in Runs |-> Status(r)][q] \notin Life!ActiveStatuses \union {"divergent"}
  BY <1>1, LifeReads DEF Turns
<1>3. Life!Cardinality(Life!ActiveTurns) < MaxParallel
  BY LifeReads, SameLifeCardinality DEF HasCapacity
<1> QED BY <1>2, <1>3 DEF Life!Free

\* A row is inserted for the turn (reserve_in).
LEMMA TurnBegins ==
  ASSUME QueueInvariant, NEW s \in Runs, NEW b, NEW resume, NEW row,
         row.status = "pending", row.session = s, row.backend = b, row.resume = resume,
         nrun < MaxRuns, nrun' = nrun + 1, run' = [run EXCEPT ![nrun + 1] = row],
         HasCapacity, Turns(s) = {} \/ ~SessionBusy(s)
  PROVE  Life!Reserve(s, b, resume)
<1>0. PICK new \in Runs : new = nrun + 1
  BY Rows, Numbers DEF QueueInvariant
<1>1. run' = [run EXCEPT ![new] = row] /\ nrun' = new /\ run \in [Runs -> RunType]
  BY <1>0 DEF QueueInvariant, TypeOK
<1>2. run'[new] = row /\ \A r \in Runs : r # new => run'[r] = run[r]
  BY <1>1
<1>3. [r \in Runs |-> [session |-> run'[r].session, backend |-> run'[r].backend,
                       resume |-> run'[r].resume]] =
        [[r \in Runs |-> [session |-> run[r].session, backend |-> run[r].backend,
                          resume |-> run[r].resume]]
           EXCEPT ![new] = [session |-> s, backend |-> b, resume |-> resume]]
  BY <1>2
<1>4. PICK damaged \in SUBSET Runs : damaged = {}
  OBVIOUS
<1>5. /\ damaged \in SUBSET {r \in Turns(s) : [q \in Runs |-> Status(q)][r] = "completed"}
      /\ [r \in Runs |-> Status(r)'] =
           [r \in Runs |-> IF r = new THEN "pending"
                           ELSE IF r \in damaged THEN "failed" ELSE [q \in Runs |-> Status(q)][r]]
  BY <1>2, <1>4 DEF Status
<1>6. \E lost \in SUBSET {r \in Life!Turns(s) : [q \in Runs |-> Status(q)][r] = "completed"} :
        [r \in Runs |-> Status(r)'] =
          [r \in Life!Runs |-> IF r = nrun + 1 THEN "pending"
                               ELSE IF r \in lost THEN "failed" ELSE [q \in Runs |-> Status(q)][r]]
  <2>1. Life!Runs = Runs /\ Life!Turns(s) = Turns(s)
    BY LifeReads
  <2> QED BY <1>0, <1>5, <2>1, ZenonT(60)
<1>7. [r \in Runs |-> [session |-> run'[r].session, backend |-> run'[r].backend,
                       resume |-> run'[r].resume]] =
        [[r \in Runs |-> [session |-> run[r].session, backend |-> run[r].backend,
                          resume |-> run[r].resume]]
           EXCEPT ![nrun + 1] = [session |-> s, backend |-> b, resume |-> resume]]
  BY <1>0, <1>3
<1>8. nrun < MaxRuns /\ Life!Free(s) /\ nrun' = nrun + 1
  BY FreeSession
<1> QED BY <1>6, <1>7, <1>8, Zenon DEF Life!Reserve

\* submit_in begins the session of a task, or takes its next turn: a resumption, or a
\* repetition when its conversation was never created (backend_unstarted).
LEMMA ReservationLife ==
  ASSUME QueueInvariant, NEW t \in Tasks, NEW n, NEW retry \in BOOLEAN,
         Admissible(t, n, retry), Reserve(t, n)
  PROVE  \E s \in Runs : Life!Begin(s) \/ Life!Resume(s) \/ Life!Repeat(s)
<1>1. HasCapacity /\ ~ContextChanged(t, n) /\ ~SessionBusy(task[t].session)
  BY DEF Admissible
<1>2. nrun < MaxRuns /\ nrun' = nrun + 1 /\ nrun + 1 \in Runs /\ backend \in [Runs -> 0..MaxRuns]
  <2>1. nrun < MaxRuns /\ nrun' = nrun + 1
    BY Zenon DEF Reserve
  <2> QED BY <2>1, Rows, Numbers DEF QueueInvariant, TypeOK
<1> DEFINE created == task[t].session = 0
           known == IF created THEN nrun + 1 ELSE task[t].session
           placed == IF created THEN nrun + 1 ELSE backend[known]
<1>3. PICK s \in Runs : s = known
  <2>1. known \in Runs
    BY <1>1, <1>2, Rows, Numbers DEF QueueInvariant
  <2> HIDE DEF known
  <2> QED BY <2>1
<1>4. PICK b : b = placed
  OBVIOUS
<1> DEFINE res == ~created /\ ~FreshBackend(known)
           first == [status |-> "pending", task |-> t, rev |-> n, session |-> known,
                     backend |-> placed, resume |-> res, report |-> FALSE,
                     input |-> InputOf(t, n)]
           row == [status |-> "pending", task |-> t, rev |-> n, session |-> s, backend |-> b,
                   resume |-> res, report |-> FALSE, input |-> InputOf(t, n)]
<1>5. run' = [run EXCEPT ![nrun + 1] = row] /\ backend' = [backend EXCEPT ![s] = b]
  <2>1. run' = [run EXCEPT ![nrun + 1] = first] /\ backend' = [backend EXCEPT ![known] = placed]
    BY ZenonT(40) DEF Reserve
  <2>2. first = row
    <3> HIDE DEF known, placed, res
    <3> QED BY <1>3, <1>4
  <2> HIDE DEF known, placed, row, first
  <2> QED BY <1>3, <1>4, <2>1, <2>2
<1>6. row.status = "pending" /\ row.session = s /\ row.backend = b /\ row.resume = res
  OBVIOUS
<1>7. CASE created
  <2>1. s = nrun + 1 /\ b = nrun + 1
    BY <1>3, <1>4, <1>7
  <2>2. Turns(s) = {}
    <3> SUFFICES ASSUME NEW r \in Turns(s) PROVE FALSE
      OBVIOUS
    <3>1. r \in Runs /\ run[r].session = s /\ s # 0
      BY DEF Turns
    <3>2. r <= nrun /\ s <= r
      BY <3>1, Inserted DEF QueueInvariant
    <3> QED BY <1>2, <2>1, <3>1, <3>2, Numbers, Rows DEF QueueInvariant
  <2>3. row.resume = FALSE
    BY <1>6, <1>7, Zenon
  <2> HIDE DEF row, first, res, created, known, placed
  <2>4. Life!Reserve(s, b, FALSE)
    BY <1>1, <1>2, <1>5, <1>6, <2>2, <2>3, TurnBegins
  <2>5. Life!Begin(s)
    BY <1>5, <2>1, <2>4 DEF Life!Begin
  <2> QED BY <2>5
<1>8. CASE ~created
  <2>1. s = task[t].session /\ b = backend[s] /\ \E q : Latest(q, s)
    BY <1>1, <1>3, <1>4, <1>8, Numbers DEF ContextChanged
  <2>2. ~SessionBusy(s) /\ (row.resume <=> ~FreshBackend(s)) /\ row.resume \in BOOLEAN
    BY <1>1, <1>3, <1>6, <1>8, <2>1, Zenon
  <2> HIDE DEF row, first, res, created, known, placed
  <2>3. \E q \in Turns(s) : run[q].backend = backend[s]
    BY <2>1 DEF Latest, QueueInvariant, SessionsPlaced, Turns
  <2>4. UNCHANGED backend
    BY <1>2, <1>5, <2>1
  <2>5. Life!Turns(s) = Turns(s) /\ Turns(s) \subseteq Runs
    BY LifeReads DEF Turns
  <2>6. CASE FreshBackend(s)
    <3>1. row.resume = FALSE
      BY <2>2, <2>6, Zenon
    <3>2. \A r \in Turns(s) : run[r].backend = backend[s] => Status(r) \in Life!NeverExecuted
      BY <2>6 DEF FreshBackend, Life!NeverExecuted
    <3>3. Life!Reserve(s, b, FALSE)
      BY <1>1, <1>2, <1>5, <1>6, <2>2, <3>1, TurnBegins
    <3> QED BY <2>1, <2>3, <2>4, <2>5, <3>2, <3>3 DEF Life!Repeat
  <2>7. CASE ~FreshBackend(s)
    <3>1. row.resume = TRUE
      BY <2>2, <2>7, Zenon
    <3>2. \E r \in Turns(s) : Status(r) # "unstarted"
      BY <2>1, <2>7, Numbers DEF FreshBackend
    <3>3. Life!Reserve(s, b, TRUE)
      BY <1>1, <1>2, <1>5, <1>6, <2>2, <3>1, TurnBegins
    <3> QED BY <2>1, <2>4, <2>5, <3>2, <3>3 DEF Life!Resume
  <2> QED BY <2>6, <2>7
<1> QED BY <1>7, <1>8

\* followup and restart of a session by its name.
LEMMA ForeignTurnLife ==
  ASSUME QueueInvariant, NEW s \in Runs, NEW restart \in BOOLEAN, ForeignTurn(s, restart)
  PROVE  Life!Begin(s) \/ Life!Resume(s)
<1>1. backend \in [Runs -> 0..MaxRuns]
  BY DEF QueueInvariant, TypeOK
<1>2. CASE restart
  <2> DEFINE row == [NoRun EXCEPT !.status = "pending", !.session = s, !.backend = nrun + 1,
                                  !.resume = ~restart]
  <2>1. /\ nrun < MaxRuns /\ nrun' = nrun + 1 /\ run' = [run EXCEPT ![nrun + 1] = row]
        /\ backend' = [backend EXCEPT ![s] = nrun + 1] /\ ~SessionBusy(s) /\ HasCapacity
    BY <1>2 DEF ForeignTurn
  <2>2. row.status = "pending" /\ row.session = s /\ row.backend = nrun + 1
    BY DEF NoRun
  <2>3. row.resume = FALSE
    BY <1>2, Zenon DEF NoRun
  <2> HIDE DEF row
  <2>4. Life!Reserve(s, nrun + 1, FALSE)
    BY <2>1, <2>2, <2>3, TurnBegins
  <2> QED BY <2>1, <2>4 DEF Life!Begin
<1>3. CASE ~restart
  <2> DEFINE row == [NoRun EXCEPT !.status = "pending", !.session = s, !.backend = backend[s],
                                  !.resume = ~restart]
  <2>1. /\ nrun < MaxRuns /\ nrun' = nrun + 1 /\ run' = [run EXCEPT ![nrun + 1] = row]
        /\ backend' = [backend EXCEPT ![s] = backend[s]] /\ ~SessionBusy(s) /\ HasCapacity
        /\ \E q \in Turns(s) : Status(q) # "unstarted"
    BY <1>3 DEF ForeignTurn
  <2>2. row.status = "pending" /\ row.session = s /\ row.backend = backend[s]
    BY DEF NoRun
  <2>3. row.resume = TRUE
    BY <1>3, Zenon DEF NoRun
  <2> HIDE DEF row
  <2>4. Life!Reserve(s, backend[s], TRUE) /\ backend' = backend
    BY <1>1, <2>1, <2>2, <2>3, TurnBegins
  <2>5. Life!Turns(s) = Turns(s) /\ Turns(s) \subseteq Runs
    BY LifeReads DEF Turns
  <2> QED BY <2>1, <2>4, <2>5 DEF Life!Resume
<1> QED BY <1>2, <1>3

\* The moves of a run here are those of its life, ...
LEMMA RunStepLife ==
  ASSUME TypeOK, NEW r \in Runs, RunStep(r) \/ ResultLost(r)
  PROVE  Life!Move(r)
<1>1. PICK to, report : RunBecomes(r, to, report) /\ to \in Life!Moves(Status(r))
  <2>1. CASE RunClaims(r)
    BY <2>1 DEF RunClaims, Life!Moves
  <2>2. CASE RunEnds(r)
    <3>1. Life!Moves(Status(r)) = {"completed", "unstarted", "unexecuted", "failed", "divergent",
                                   "unknown"}
      BY <2>2 DEF RunEnds, Life!Moves
    <3> QED BY <2>2, <3>1 DEF RunEnds
  <2>3. CASE RunQuarantined(r)
    BY <2>3 DEF RunQuarantined, Life!Moves
  <2>4. CASE RunReconciled(r)
    BY <2>4 DEF RunReconciled, Life!Moves
  <2>5. CASE ResultLost(r)
    BY <2>5 DEF ResultLost, Life!Moves
  <2> QED BY <2>1, <2>2, <2>3, <2>4, <2>5 DEF RunStep
<1>2. /\ run' = [run EXCEPT ![r].status = to, ![r].report = report]
      /\ nrun' = nrun /\ backend' = backend /\ run \in [Runs -> RunType]
  BY <1>1 DEF RunBecomes, TypeOK
<1>3. /\ run'[r].status = to /\ run'[r].session = run[r].session
      /\ run'[r].backend = run[r].backend /\ run'[r].resume = run[r].resume
      /\ \A q \in Runs : q # r => run'[q] = run[q]
  BY <1>2 DEF RunType
<1>4. /\ [q \in Runs |-> Status(q)'] = [[q \in Runs |-> Status(q)] EXCEPT ![r] = to]
      /\ [q \in Runs |-> [session |-> run'[q].session, backend |-> run'[q].backend,
                          resume |-> run'[q].resume]] =
           [q \in Runs |-> [session |-> run[q].session, backend |-> run[q].backend,
                            resume |-> run[q].resume]]
  BY <1>3 DEF Status
<1>5. to \in Life!Moves([q \in Runs |-> Status(q)][r])
  BY <1>1
<1> QED BY <1>2, <1>4, <1>5 DEF Life!Move

\* ... and all of them: whatever RunLifecycle does to a run that is allowed to end up in
\* quarantine and to lose its result, TaskQueue reckons with.
LEMMA EveryMoveReckoned ==
  ASSUME TypeOK, Unlocked, {"quarantine", "lost_result"} \subseteq Activities,
         NEW r \in Runs, NEW to \in Life!Moves(Status(r)),
         NEW report \in BOOLEAN, report => to = "completed",
         RunBecomes(r, to, report)
  PROVE  RunStep(r) \/ ResultLost(r)
<1>1. Status(r) \in RunStatuses
  BY Rows DEF Status
<1>2. RunBecomes(r, to, FALSE) \/ to = "completed"
  BY Zenon
<1> QED
  BY <1>1, <1>2 DEF Life!Moves, RunStatuses, RunStep, ResultLost, RunClaims, RunEnds,
                    RunQuarantined, RunReconciled

\* Every transaction is one of the life of the runs, or does not concern it.
LEMMA LifeStep ==
  ASSUME QueueInvariant, [Next]_vars
  PROVE  [Life!Next]_(Life!life)
<1>1. ASSUME UNCHANGED <<run, nrun, backend>> PROVE UNCHANGED Life!life
  BY <1>1 DEF Life!life, Status
<1>2. ASSUME NEW t \in Tasks, NEW retry \in BOOLEAN, Submit(t, retry) PROVE Life!Next
  BY <1>2, ReservationLife DEF Submit, Life!Next
<1>3. ASSUME NEW e \in Entries, Admit(e) PROVE Life!Next
  <2>1. entry[e].task \in Tasks
    BY <1>3, EntryOfTask DEF Admit, NextEntry, Waiting, QueueInvariant
  <2> QED BY <1>3, <2>1, ReservationLife DEF Admit, Life!Next
<1>4. ASSUME NEW s \in Runs, NEW restart \in BOOLEAN, ForeignTurn(s, restart) PROVE Life!Next
  BY <1>4, ForeignTurnLife DEF Life!Next
<1>5. ASSUME NEW r \in Runs, RunStep(r) \/ ResultLost(r) PROVE Life!Next
  <2>1. Life!Move(r) /\ r \in Life!Runs
    BY <1>5, RunStepLife, LifeReads DEF QueueInvariant
  <2> QED BY <2>1 DEF Life!Next
<1>6. ASSUME NEW t \in Tasks, Create(t) \/ Revise(t) \/ Accept(t) PROVE UNCHANGED Life!life
  BY <1>1, <1>6 DEF Create, Revise, Accept, runTables
<1>7. ASSUME NEW t \in Tasks, NEW deps, Enqueue(t, deps) PROVE UNCHANGED Life!life
  BY <1>1, <1>7 DEF Enqueue, runTables
<1>8. ASSUME \/ TickStart \/ TickEnd
             \/ \E e \in Entries : Skip(e) \/ Dequeue(e)
      PROVE  UNCHANGED Life!life
  BY <1>1, <1>8 DEF TickStart, TickEnd, Skip, Dequeue, runTables
<1>9. CASE UNCHANGED vars
  BY <1>1, <1>9 DEF vars
<1>10. CASE Next
  BY <1>2, <1>3, <1>4, <1>5, <1>6, <1>7, <1>8, <1>10 DEF Next, Dispatcher
<1> QED BY <1>9, <1>10

\* Tasks and queue implement the life of a run, as RunLifecycle does: whoever submits,
\* retries, dispatches or restarts, a turn is reserved only when nothing of its session is
\* active, in doubt or divergent, resumes only what started and repeats only what did not.
THEOREM QueueLifeRefined == Spec => LifeImplemented
<1>1. Init => Life!Init
  <2> SUFFICES ASSUME Init PROVE Life!Init
    OBVIOUS
  <2>1. \A r \in Runs : /\ Status(r) = "absent" /\ run[r].session = 0 /\ run[r].backend = 0
                        /\ run[r].resume = FALSE
    BY DEF Init, NoRun, Status
  <2> QED BY <2>1, LifeReads DEF Init, Life!Init, Life!NoTurn
<1>2. QueueInvariant /\ [Next]_vars => [Life!Next]_(Life!life)
  BY LifeStep
<1> QED
  BY <1>1, <1>2, QueueInvariantHolds, PTL DEF Spec, LifeImplemented, Life!Spec
=============================================================================
