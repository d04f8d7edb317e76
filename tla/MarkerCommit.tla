---------------------------- MODULE MarkerCommit ----------------------------
(***************************************************************************)
(* The marker protocol of LakeVilla (levels 0 and 1: "LV[Write]", or one   *)
(* level alone): transactions reserve a log version of every table they    *)
(* open with a marker object, wait at commit for the versions reserved     *)
(* before theirs, and replace their marker with the Delta commit.          *)
(*                                                                         *)
(* One action is one request to the object store, or the local work        *)
(* between two requests.  A log object, once written, is only replaced by  *)
(* a write conditional on its ETag; the ETag of a marker is identified by  *)
(* its owner, for a transaction writes at most one marker at a path.       *)
(*                                                                         *)
(* Time.  A marker's lease is "ended" once every waiter's clock reading    *)
(* lies after deadline + grace; the holder's own (more pessimistic) test,  *)
(* lease_expiring, may say so at any earlier moment too.                   *)
(***************************************************************************)
EXTENDS Naturals, Sequences

CONSTANTS
  Txns,          \* the transactions
  Tables,        \* the tables
  NoTxn,         \* the writer of the commit that created a table
  OpenOrder,     \* OpenOrder[t]: the tables t opens, in this order
  Ops,           \* Ops[t][x]: what t does on x, once x is open
  ReadOnly,      \* the transactions that call commit(read_only = true)
  Level0,        \* markers and sublogs: implicit logging and redo
  Level1,        \* markers and detection of dependencies on one transaction
  Serializable,  \* Isolation::Serializable, else Isolation::Snapshot
  MaxRedos,      \* max_redos
  LeasesEnd,     \* whether the run lets time reach the end of a lease
  MayCrash,      \* the transactions whose client may crash
  FaultKinds,    \* the storage errors that outlast the retries
  MaxFaults,     \* bound on the number of such errors in one behaviour
  MaxVersion     \* bound on the log versions of a table

OpKinds == {"read", "append", "update", "delete"}
AllFaultKinds == {"reserve", "head", "commit", "release", "load", "giveup"}

ASSUME ConstantsAssumption ==
  /\ NoTxn \notin Txns
  /\ OpenOrder \in [Txns -> Seq(Tables)]
  /\ Ops \in [Txns -> [Tables -> SUBSET OpKinds]]
  /\ ReadOnly \subseteq Txns /\ MayCrash \subseteq Txns
  /\ {Level0, Level1, Serializable, LeasesEnd} \subseteq BOOLEAN
  /\ Level0 \/ Level1
  /\ FaultKinds \subseteq AllFaultKinds
  /\ {MaxRedos, MaxFaults, MaxVersion} \subseteq Nat

ASSUME OpenOrderAssumption ==
  \A t \in Txns :
    /\ OpenOrder[t] # << >>
    /\ \A i, j \in 1 .. Len(OpenOrder[t]) : OpenOrder[t][i] = OpenOrder[t][j] => i = j

VARIABLES
  log,       \* log[x][v]: the object <v>.json of table x
  faults,    \* storage errors so far
  pc,        \* where the transaction is
  idx,       \* number of tables in this->tables
  cur,       \* the table the current loop (load, lease check, write) is at
  at,        \* the next version parse_logentries2 reads
  reopening, \* load_table runs for reopen_tables, not for a new table
  nested,    \* reopen_tables runs for reopen_tables
  replaced,  \* the version of a reloaded table's previous, still valid marker
  markerVersion, held,       \* marker_version; tables whose marker is valid
  seen,                      \* the versions delta_log contains
  prevMarkers, relation, dependencies, explicitLog,
  wasRead, createdFiles, deletedFiles, steps,
  concurrentChange, concurrentRemoves,
  rounds, redoDone, committed, shifted,
  redos,     \* redo() runs so far: every run names its new files anew
  observed   \* history: the versions the transaction's reads of x reflect

\* A flag of the transaction object (reopening, nested, dependencies,
\* explicitLog, redoDone, shifted) is the set of the transactions with it.

reloadVars == <<reopening, nested, replaced>>
loadVars == <<idx, cur, at, reloadVars>>
markerVars == <<markerVersion, held>>
snapVars == <<seen, prevMarkers, relation, dependencies, explicitLog>>
workVars == <<wasRead, createdFiles, deletedFiles, steps, redos, observed>>
conflictVars == <<concurrentChange, concurrentRemoves>>
commitVars == <<rounds, redoDone, committed, shifted>>
txnVars == <<loadVars, markerVars, snapVars, workVars, conflictVars, commitVars>>
vars == <<log, faults, pc, txnVars>>

-----------------------------------------------------------------------------
(* Log objects and data files *)

Versions == 0 .. MaxVersion
Writers == Txns \cup {NoTxn}

\* A data file: its writer, the redo run that wrote it, and whether it holds
\* the row of the key that the updates and deletes of the workload look up.
Files == [by : Writers, redo : Nat, keyed : BOOLEAN]
FileNumberedFromMinusOne(t, n, k) == [by |-> t, redo |-> n - 1, keyed |-> k]
File(t, n, k) == [by |-> t, redo |-> n, keyed |-> k]

Objects == [kind : {"absent", "marker", "commit", "empty"}, by : Writers,
            add : SUBSET Files, remove : SUBSET Files, ended : BOOLEAN]
Object(k, t, a, r) ==
  [kind |-> k, by |-> t, add |-> a, remove |-> r, ended |-> FALSE]

Absent == Object("absent", NoTxn, {}, {})
Marker(t) == Object("marker", t, {}, {})
EmptyCommit == Object("empty", NoTxn, {}, {})
Commit(t, a, r) == Object("commit", t, a, r)

IsMarkerOf(x, v, t) == log[x][v].kind = "marker" /\ log[x][v].by = t
Final(x, v) == log[x][v].kind \in {"commit", "empty"}
ChangesData(x, v) == log[x][v].add # {} \/ log[x][v].remove # {}

\* Mutants: a version above a free one; the put loses its if-absent
\* precondition and overwrites markers
FirstFreeWithGap(x, after, v) == v > after /\ log[x][v].kind = "absent"
FirstFreeOverwriting(x, after, v) ==
  /\ v > after
  /\ ~Final(x, v)
  /\ \A w \in after + 1 .. v - 1 : Final(x, w)

\* v is the version reserve_version gets: put-if-absent at every version after
\* the highest known one, and existing versions are never deleted.
FirstFree(x, after, v) ==
  /\ v > after
  /\ log[x][v].kind = "absent"
  /\ \A w \in after + 1 .. v - 1 : log[x][w].kind # "absent"

\* The files of the snapshot that contains the versions S: of the actions on
\* a path the one of the highest version counts.
LiveFiles(x, S) ==
  {f \in UNION {log[x][v].add : v \in S} :
     \E v \in S : f \in log[x][v].add
                  /\ \A w \in S : f \in log[x][w].remove => w < v}
KeyFilesIn(x, S) == {f \in LiveFiles(x, S) : f.keyed}
KeyFiles(t, x) == KeyFilesIn(x, seen[t][x])

WriteLog(x, v, object) == log' = [log EXCEPT ![x][v] = object]

\* Mutant: the owner leaves an ended marker to the others.
ReplaceUnlessEnded(t, x, v) ==
  log' = IF IsMarkerOf(x, v, t) /\ ~log[x][v].ended
         THEN [log EXCEPT ![x][v] = EmptyCommit] ELSE log

\* write_if_match with the ETag of t's marker, when the new object is empty:
\* nothing changes when the precondition fails.
ReplaceOwnMarker(t, x, v) ==
  log' = IF IsMarkerOf(x, v, t) THEN [log EXCEPT ![x][v] = EmptyCommit] ELSE log

Fault(kind) == /\ kind \in FaultKinds
               /\ faults < MaxFaults
               /\ faults' = faults + 1

-----------------------------------------------------------------------------
(* Opening tables: begin, open_new_table, load_table *)

\* Tables by their position in this->tables; the table being opened is the
\* next one.
Table(t, i) == OpenOrder[t][i]
NumTables(t) == Len(OpenOrder[t])
Current(t) == Table(t, cur[t])

Goto(t, label) == pc' = [pc EXCEPT ![t] = label]
Continue(t, i) == cur' = [cur EXCEPT ![t] = i]

\* load_table: the version after the highest existing one is reserved before
\* the log is read.  Assigning table.marker destroys the previous Marker,
\* which releases its version (a request of its own) if it is still valid.
Reserve(t) ==
  LET x == Current(t) IN
  /\ pc[t] = "reserve"
  /\ \E v \in Versions :
       /\ FirstFree(x, 0, v)
       /\ WriteLog(x, v, Marker(t))
       /\ markerVersion' = [markerVersion EXCEPT ![t][x] = v]
  /\ held' = [held EXCEPT ![t] = @ \cup {x}]
  /\ replaced' = [replaced EXCEPT ![t] = markerVersion[t][x]]
  /\ Goto(t, IF x \in held[t] THEN "replace" ELSE "parse")
  /\ at' = [at EXCEPT ![t] = 0]
  /\ seen' = [seen EXCEPT ![t][x] = {}]
  /\ concurrentChange' = [concurrentChange EXCEPT ![t] = @ \ {x}]
  /\ concurrentRemoves' = [concurrentRemoves EXCEPT ![t][x] = {}]
  /\ UNCHANGED <<faults, idx, cur, reopening, nested, prevMarkers, relation,
                 dependencies, explicitLog, workVars, commitVars>>

\* The marker is written but the response is lost: the retry finds the
\* version taken and goes on to the next one; nobody holds this marker.
ReserveResponseLost(t) ==
  LET x == Current(t) IN
  /\ pc[t] \in {"reserve", "shift", "shiftLost"}
  /\ Fault("reserve")
  /\ \E v \in Versions :
       /\ FirstFree(x, IF pc[t] = "reserve" THEN 0 ELSE markerVersion[t][x], v)
       /\ WriteLog(x, v, Marker(t))
  /\ UNCHANGED <<pc, txnVars>>

ReleaseReplaced(t) ==
  /\ pc[t] = "replace"
  /\ ReplaceOwnMarker(t, Current(t), replaced[t])
  /\ Goto(t, "parse")
  /\ UNCHANGED <<faults, txnVars>>

\* parse_logentries2 reads the next version: a commit joins the snapshot; a
\* running marker is remembered, turns logging implicit (level 0) and is a
\* dependency (level 1), a second one on the same transaction a conflict.
ParseLogEntry(t) ==
  LET x == Current(t)
      v == at[t]
      by == log[x][v].by
      running == log[x][v].kind = "marker" IN
  /\ pc[t] = "parse"
  /\ v < markerVersion[t][x]
  /\ at' = [at EXCEPT ![t] = v + 1]
  /\ \/ /\ ~running
        /\ seen' = [seen EXCEPT ![t][x] = @ \cup {v}]
        /\ UNCHANGED <<prevMarkers, explicitLog, relation, dependencies>>
     \/ /\ running
        /\ prevMarkers' = [prevMarkers EXCEPT ![t] = @ \cup {<<x, v>>}]
        /\ explicitLog' = IF Level0 THEN explicitLog \ {t} ELSE explicitLog
        /\ relation' = [relation EXCEPT ![t] = IF Level1 THEN @ \cup {by} ELSE @]
        /\ dependencies' = IF Level1 /\ by \in relation[t] THEN dependencies \cup {t} ELSE dependencies
        /\ UNCHANGED seen
  /\ UNCHANGED <<log, faults, pc, idx, cur, reloadVars, markerVars,
                 workVars, conflictVars, commitVars>>

LoadedAll(t) ==
  /\ reopening' = reopening \ {t}
  /\ nested' = nested \ {t}
  /\ IF idx[t] = NumTables(t)
     THEN Goto(t, "wait") /\ UNCHANGED <<idx, cur>>
     ELSE /\ Goto(t, "work")
          /\ idx' = [idx EXCEPT ![t] = @ + 1]
          /\ Continue(t, idx[t] + 1)

\* The table is loaded.  With conflicting dependencies the open tables are
\* loaded again: open_tableV2 releases their versions first (abort(false)),
\* reopen_tables itself does not.
TableLoaded(t) ==
  /\ pc[t] = "parse"
  /\ at[t] = markerVersion[t][Current(t)]
  /\ \/ /\ t \in reopening /\ cur[t] < idx[t]
        /\ Continue(t, cur[t] + 1)
        /\ Goto(t, "reserve")
        /\ UNCHANGED <<idx, reopening, nested, relation, dependencies>>
     \/ /\ t \notin reopening \/ cur[t] = idx[t]
        /\ dependencies' = dependencies \ {t}
        /\ relation' = [relation EXCEPT ![t] = IF t \in dependencies THEN {} ELSE @]
        /\ IF t \in dependencies /\ idx[t] > 0
           THEN /\ Continue(t, 1)
                /\ Goto(t, IF t \in reopening THEN "reserve" ELSE "yield")
                /\ reopening' = reopening \cup {t}
                /\ nested' = nested \cup ({t} \cap reopening)
                /\ UNCHANGED idx
           ELSE LoadedAll(t)
  /\ UNCHANGED <<log, faults, at, replaced, markerVars, seen, prevMarkers,
                 explicitLog, workVars, conflictVars, commitVars>>

\* A log entry cannot be read.  A table opened for the first time gives its
\* version back with an unconditional write and is opened again (fewer than
\* five failures: MaxFaults).  reopen_tables starts again: where it called
\* itself as it is, in open_tableV2 after a release of the versions; commit()
\* ignores the result.
LoadFails(t) ==
  LET x == Current(t) IN
  /\ pc[t] = "parse"
  /\ at[t] < markerVersion[t][x]
  /\ Fault("load")
  /\ dependencies' = dependencies \ {t}
  /\ \/ /\ t \notin reopening
        /\ WriteLog(x, markerVersion[t][x], EmptyCommit)
        /\ held' = [held EXCEPT ![t] = @ \ {x}]
        /\ Goto(t, "reserve")
        /\ UNCHANGED <<cur, reopening, relation>>
     \/ /\ t \in reopening
        /\ t \in nested \/ idx[t] < NumTables(t)
        /\ Goto(t, IF t \in nested THEN "reserve" ELSE "yield")
        /\ Continue(t, 1)
        /\ relation' = [relation EXCEPT ![t] = {}]
        /\ UNCHANGED <<log, held, reopening>>
     \/ /\ t \in reopening \ nested
        /\ idx[t] = NumTables(t)
        /\ Goto(t, "wait")
        /\ reopening' = reopening \ {t}
        /\ UNCHANGED <<log, held, cur, relation>>
  /\ UNCHANGED <<idx, at, nested, replaced, markerVersion, seen, prevMarkers,
                 explicitLog, workVars, conflictVars, commitVars>>

-----------------------------------------------------------------------------
(* Operations of the transaction *)

\* update and delete look their key up, which reads the table; a key
\* that no file holds makes them return before they log or change anything.
Reads(t, x) == Ops[t][x] \ {"append"} # {}
KeyOps(t, x) == Ops[t][x] \cap {"update", "delete"}

\* With implicit logging they are only logged (the redo executes them); an
\* appended file is registered in both modes.
Executed(t, x) == t \in explicitLog /\ KeyFiles(t, x) # {}
AddedFiles(t, x) ==
  (IF "append" \in Ops[t][x] THEN {File(t, 0, FALSE)} ELSE {})
  \cup (IF Executed(t, x) /\ "update" \in Ops[t][x] THEN {File(t, 0, TRUE)} ELSE {})
RemovedFiles(t, x) ==
  IF Executed(t, x) /\ KeyOps(t, x) # {} THEN KeyFiles(t, x) ELSE {}
LoggedSteps(t, x) ==
  IF t \in explicitLog \/ KeyOps(t, x) = {} \/ KeyFiles(t, x) = {} THEN << >>
  ELSE <<[table |-> x, op |-> IF "update" \in Ops[t][x] THEN "update" ELSE "delete"]>>

\* The operations on the table opened last
Work(t) ==
  LET x == Table(t, idx[t]) IN
  /\ pc[t] = "work"
  /\ createdFiles' = [createdFiles EXCEPT ![t][x] = AddedFiles(t, x)]
  /\ deletedFiles' = [deletedFiles EXCEPT ![t][x] = RemovedFiles(t, x)]
  /\ steps' = [steps EXCEPT ![t] = @ \o LoggedSteps(t, x)]
  /\ IF Reads(t, x)
     THEN /\ wasRead' = [wasRead EXCEPT ![t] = @ \cup {x}]
          /\ observed' = [observed EXCEPT ![t][x] = seen[t][x]]
     ELSE UNCHANGED <<wasRead, observed>>
  /\ \/ /\ idx[t] < NumTables(t)
        /\ Continue(t, idx[t] + 1)
        /\ Goto(t, "reserve")
     \/ /\ idx[t] = NumTables(t)
        /\ Goto(t, IF t \in ReadOnly THEN "finish" ELSE "wait")
        /\ UNCHANGED cur
  /\ UNCHANGED <<log, faults, idx, at, reloadVars, markerVars, snapVars,
                 redos, conflictVars, commitVars>>

-----------------------------------------------------------------------------
(* commit(): waiting for the versions before ours *)

Changed(t, x) == createdFiles[t][x] # {} \/ deletedFiles[t][x] # {}
HasDeletes(t) == \E x \in Tables : deletedFiles[t][x] # {}
CanRedo(t) == t \notin explicitLog /\ Level0
ToCommitDeletesOnly(t) ==   \* mutant: tables with new files only are left out
  {x \in Tables : x \notin committed[t] /\ deletedFiles[t][x] # {}}
ToCommit(t) == {x \in Tables : x \notin committed[t] /\ Changed(t, x)}

\* A loop over this->tables that stands at cur has its next table of S at i,
\* or no table of S left.
NextIn(t, S, i) ==
  /\ i \in cur[t] .. NumTables(t)
  /\ Table(t, i) \in S
  /\ \A j \in cur[t] .. i - 1 : Table(t, j) \notin S
NoneIn(t, S) == \A i \in cur[t] .. NumTables(t) : Table(t, i) \notin S

\* A pass over prev_markers in which every version is final (or skipped: a
\* HEAD request that fails looks like "nothing to wait for").  Final versions
\* do not change, so when each of them is read makes no difference.  What
\* they add or remove joins the snapshot and counts as concurrent, in this
\* pass as in every earlier one.
WaitPass(t, skipped) ==
  LET applied(x) == {v \in Versions : <<x, v>> \in prevMarkers[t] \ skipped} IN
  /\ pc[t] = "wait"
  /\ \A p \in prevMarkers[t] \ skipped : Final(p[1], p[2])
  /\ seen' = [seen EXCEPT ![t] = [x \in Tables |-> @[x] \cup applied(x)]]
  /\ concurrentChange' = [concurrentChange EXCEPT ![t] =
       @ \cup {x \in Tables : \E v \in applied(x) : ChangesData(x, v)}]
  /\ concurrentRemoves' = [concurrentRemoves EXCEPT ![t] =
       [x \in Tables |-> @[x] \cup UNION {log[x][v].remove : v \in applied(x)}]]
  /\ Continue(t, 1)
  /\ Goto(t, "lease")
  /\ UNCHANGED <<log, idx, at, reloadVars, markerVars, prevMarkers,
                 relation, dependencies, explicitLog, workVars, commitVars>>

Wait(t) == WaitPass(t, {}) /\ UNCHANGED faults

WaitMissesOne(t) ==
  \E p \in prevMarkers[t] : WaitPass(t, {p}) /\ Fault("head")

\* Mutants: the deadline is not looked at; there is no takeover.
OverdueAtOnce(x, v) == log[x][v].kind = "marker"
NeverOverdue(x, v) == FALSE

Overdue(x, v) == log[x][v].kind = "marker" /\ log[x][v].ended

\* The waiter takes an expired marker over, conditional on its ETag.  It waits
\* for one marker after the other; the threads that parsed the log have left
\* them in prev_markers in any order.
TakeOver(t) ==
  /\ pc[t] = "wait"
  /\ \E p \in prevMarkers[t] :
       /\ Overdue(p[1], p[2])
       /\ WriteLog(p[1], p[2], EmptyCommit)
  /\ UNCHANGED <<faults, pc, txnVars>>

\* The waiter's patience (its own lease + grace + 60 s) ends before the
\* marker's lease does: the marker of a client with a longer lease.
GiveUpWaiting(t) ==
  /\ pc[t] = "wait"
  /\ \E p \in prevMarkers[t] : ~Final(p[1], p[2]) /\ ~Overdue(p[1], p[2])
  /\ Fault("giveup")
  /\ IF ~CanRedo(t) /\ HasDeletes(t)
     THEN /\ Goto(t, "abort")
          /\ UNCHANGED <<cur, reopening, relation, dependencies>>
     ELSE /\ Goto(t, "reserve")
          /\ Continue(t, 1)
          /\ reopening' = reopening \cup {t}
          /\ relation' = [relation EXCEPT ![t] = {}]
          /\ dependencies' = dependencies \ {t}
  /\ UNCHANGED <<log, idx, at, nested, replaced, markerVars, seen, prevMarkers,
                 explicitLog, workVars, conflictVars, commitVars>>

-----------------------------------------------------------------------------
(* commit(): the lease of the reserved versions *)

\* Tables whose reserved version the commit is going to use
Leased(t) == ToCommit(t) \cap held[t]

\* lease_expiring is false: only possible before the lease has ended.
LeaseHolds(t) ==
  /\ pc[t] = "lease"
  /\ \E i \in 1 .. NumTables(t) :
       /\ NextIn(t, Leased(t), i)
       /\ ~log[Table(t, i)][markerVersion[t][Table(t, i)]].ended
       /\ Continue(t, i + 1)
  /\ UNCHANGED <<log, faults, pc, idx, at, reloadVars, markerVars,
                 snapVars, workVars, conflictVars, commitVars>>

\* lease_expiring is true: shift_marker releases the version, then reserves
\* a later one (Shift).
LeaseExpiring(t) ==
  /\ pc[t] = "lease"
  /\ LeasesEnd
  /\ \E i \in 1 .. NumTables(t) :
       /\ NextIn(t, Leased(t), i)
       /\ Continue(t, i)
       /\ IF rounds[t] >= MaxRedos
          THEN Goto(t, "abort") /\ UNCHANGED <<log, held>>
          ELSE /\ ReplaceOwnMarker(t, Table(t, i), markerVersion[t][Table(t, i)])
               /\ held' = [held EXCEPT ![t] = @ \ {Table(t, i)}]
               /\ Goto(t, "shift")
  /\ UNCHANGED <<faults, idx, at, reloadVars, markerVersion, snapVars,
                 workVars, conflictVars, commitVars>>

BetweenExclusive(old, new) == old + 2 .. new - 1   \* mutant: off by one
Between(old, new) == old + 1 .. new - 1

\* The versions between the old and the new marker are waited for as well.
Shift(t) ==
  LET x == Current(t)
      old == markerVersion[t][x] IN
  /\ pc[t] \in {"shift", "shiftLost"}
  /\ \E v \in Versions :
       /\ FirstFree(x, old, v)
       /\ WriteLog(x, v, Marker(t))
       /\ markerVersion' = [markerVersion EXCEPT ![t][x] = v]
       /\ prevMarkers' = [prevMarkers EXCEPT ![t] = @ \cup ({x} \X Between(old, v))]
  /\ held' = [held EXCEPT ![t] = @ \cup {x}]
  /\ \/ /\ pc[t] = "shift"
        /\ Goto(t, "lease")
        /\ Continue(t, cur[t] + 1)
        /\ shifted' = shifted \cup {t}
        /\ UNCHANGED rounds
     \/ /\ pc[t] = "shiftLost"
        /\ Goto(t, "wait")
        /\ UNCHANGED cur
        /\ rounds' = [rounds EXCEPT ![t] = @ + 1]
        /\ UNCHANGED shifted
  /\ UNCHANGED <<faults, idx, at, reloadVars, seen, relation,
                 dependencies, explicitLog, workVars, conflictVars, redoDone,
                 committed>>

LeasesChecked(t) ==
  /\ pc[t] = "lease"
  /\ NoneIn(t, Leased(t))
  /\ IF t \in shifted
     THEN /\ rounds' = [rounds EXCEPT ![t] = @ + 1]
          /\ shifted' = shifted \ {t}
          /\ Goto(t, "wait")
     ELSE Goto(t, "validate") /\ UNCHANGED <<rounds, shifted>>
  /\ UNCHANGED <<log, faults, loadVars, markerVars, snapVars, workVars,
                 conflictVars, redoDone, committed>>

-----------------------------------------------------------------------------
(* commit(): validation and redo *)

WriteConflict(t) ==
  \E x \in Tables : deletedFiles[t][x] \cap concurrentRemoves[t][x] # {}
ReadConflict(t) == wasRead[t] \cap concurrentChange[t] # {}

\* Mutant: the test of the isolation level is inverted.
ConflictOfSnapshotOnly(t) == ~Serializable /\ WriteConflict(t)

Conflict(t) == WriteConflict(t) \/ (Serializable /\ ReadConflict(t))

\* The snapshot rebuild_state reads: the versions below the reserved ones.
\* The own changes are gone until the redo recreates them.
BelowMarkersExclusive(t) ==   \* mutant: off by one
  [x \in Tables |-> {v \in Versions : v + 1 < markerVersion[t][x] /\ Final(x, v)}]
BelowMarkers(t) ==
  [x \in Tables |-> {v \in Versions : v < markerVersion[t][x] /\ Final(x, v)}]
NoFiles == [x \in Tables |-> {}]

\* redo(1) over the logged steps: an update that finds no file of its key
\* fails and ends the redo; commit() does not look at the result.
RedoneSteps(t, base) ==
  {i \in DOMAIN steps[t] : \A j \in 1 .. i :
     steps[t][j].op = "update" => KeyFilesIn(steps[t][j].table, base[steps[t][j].table]) # {}}

\* The redo on the snapshot base, with the local changes created and deleted
\* so far
Redo(t, base, created, deleted) ==
  LET done == RedoneSteps(t, base)
      updated == {steps[t][i].table : i \in {j \in done : steps[t][j].op = "update"}}
      touched == {steps[t][i].table : i \in done} IN
  /\ createdFiles' = [createdFiles EXCEPT ![t] = [x \in Tables |->
       created[x] \cup (IF x \in updated THEN {File(t, redos[t] + 1, TRUE)} ELSE {})]]
  /\ deletedFiles' = [deletedFiles EXCEPT ![t] = [x \in Tables |->
       deleted[x] \cup (IF x \in touched THEN KeyFilesIn(x, base[x]) ELSE {})]]
  /\ observed' = [observed EXCEPT ![t] = [x \in Tables |->
       IF x \in touched /\ "read" \notin Ops[t][x] THEN base[x] ELSE @[x]]]
  /\ redos' = [redos EXCEPT ![t] = @ + 1]
  /\ redoDone' = redoDone \cup {t}
  /\ concurrentChange' = [concurrentChange EXCEPT ![t] = {}]
  /\ concurrentRemoves' = [concurrentRemoves EXCEPT ![t] = NoFiles]

StartWriting(t) == Goto(t, "write") /\ Continue(t, 1)

\* No conflict, or nothing to redo with: commit as it is, or abort.
ValidateAsIs(t) ==
  /\ pc[t] = "validate"
  /\ IF Conflict(t)
     THEN ~CanRedo(t) /\ Goto(t, "abort") /\ UNCHANGED cur
     ELSE (CanRedo(t) => t \in redoDone) /\ StartWriting(t)
  /\ UNCHANGED <<log, faults, idx, at, reloadVars, markerVars, snapVars,
                 workVars, conflictVars, commitVars>>

\* The first redo: the implicit steps run on the snapshot that contains the
\* versions waited for; whatever conflicts there were is forgotten.
FirstRedo(t) ==
  /\ pc[t] = "validate"
  /\ CanRedo(t)
  /\ t \notin redoDone
  /\ Redo(t, seen[t], createdFiles[t], deletedFiles[t])
  /\ Goto(t, "redone")
  /\ UNCHANGED <<log, faults, loadVars, markerVars, snapVars, wasRead, steps,
                 rounds, committed, shifted>>

\* A conflict after a redo: a fresh snapshot and another redo.
RedoAgain(t) ==
  /\ pc[t] = "validate"
  /\ CanRedo(t)
  /\ t \in redoDone
  /\ Conflict(t)
  /\ rounds[t] < MaxRedos
  /\ rounds' = [rounds EXCEPT ![t] = @ + 1]
  /\ committed' = [committed EXCEPT ![t] = {}]
  /\ seen' = [seen EXCEPT ![t] = BelowMarkers(t)]
  /\ Redo(t, BelowMarkers(t), NoFiles, NoFiles)
  /\ Goto(t, "redone")
  /\ UNCHANGED <<log, faults, loadVars, markerVars, prevMarkers, relation,
                 dependencies, explicitLog, wasRead, steps, shifted>>

Redone(t) ==
  /\ pc[t] = "redone"
  /\ StartWriting(t)
  /\ UNCHANGED <<log, faults, idx, at, reloadVars, markerVars, snapVars,
                 workVars, conflictVars, commitVars>>

\* A conflict after the last round, or (storage error) no new snapshot
RedoImpossible(t) ==
  /\ pc[t] = "validate"
  /\ CanRedo(t)
  /\ t \in redoDone
  /\ Conflict(t)
  /\ Goto(t, "abort")
  /\ UNCHANGED <<log, txnVars>>

RoundsUsedUp(t) == rounds[t] >= MaxRedos /\ RedoImpossible(t) /\ UNCHANGED faults
RebuildFails(t) == rounds[t] < MaxRedos /\ RedoImpossible(t) /\ Fault("load")

-----------------------------------------------------------------------------
(* commit(): writing the Delta commits, table by table *)

\* write_commit with the ETag of our marker.  A lost response changes nothing:
\* the retry recognises its own content.
WriteCommit(t) ==
  /\ pc[t] = "write"
  /\ \E i \in 1 .. NumTables(t) :
       LET x == Table(t, i)
           v == markerVersion[t][x] IN
       /\ NextIn(t, ToCommit(t), i)
       /\ IsMarkerOf(x, v, t)
       /\ WriteLog(x, v, Commit(t, createdFiles[t][x], deletedFiles[t][x]))
       /\ held' = [held EXCEPT ![t] = @ \ {x}]
       /\ committed' = [committed EXCEPT ![t] = @ \cup {x}]
       /\ Continue(t, i + 1)
  /\ UNCHANGED <<faults, pc, idx, at, reloadVars, markerVersion,
                 snapVars, workVars, conflictVars, rounds, redoDone, shifted>>

\* CommitWrite::Lost: the object is not our marker any more.  The transaction
\* moves the marker and starts another round, or gives up; tables committed
\* before this one stay committed.
WriteLost(t) ==
  /\ pc[t] = "write"
  /\ \E i \in 1 .. NumTables(t) :
       LET x == Table(t, i) IN
       /\ NextIn(t, ToCommit(t), i)
       /\ ~IsMarkerOf(x, markerVersion[t][x], t)
       /\ held' = [held EXCEPT ![t] = @ \ {x}]
       /\ Continue(t, i)
  /\ Goto(t, IF rounds[t] < MaxRedos THEN "shiftLost" ELSE "abort")
  /\ UNCHANGED <<log, faults, idx, at, reloadVars, markerVersion,
                 snapVars, workVars, conflictVars, commitVars>>

\* CommitWrite::Failed: no attempt was answered; the commit may be in the log.
WriteFails(t) ==
  /\ pc[t] = "write"
  /\ Fault("commit")
  /\ \E i \in 1 .. NumTables(t) :
       LET x == Table(t, i)
           v == markerVersion[t][x] IN
       /\ NextIn(t, ToCommit(t), i)
       /\ \/ UNCHANGED log
          \/ /\ IsMarkerOf(x, v, t)
             /\ WriteLog(x, v, Commit(t, createdFiles[t][x], deletedFiles[t][x]))
  /\ Goto(t, "abort")
  /\ UNCHANGED <<loadVars, markerVars, snapVars, workVars, conflictVars, commitVars>>

AllWritten(t) ==
  /\ pc[t] = "write"
  /\ NoneIn(t, ToCommit(t))
  /\ Goto(t, "finish")
  /\ UNCHANGED <<log, faults, txnVars>>

-----------------------------------------------------------------------------
(* Releasing reserved versions: abort(), the end of commit(), open_tableV2 *)

\* The first table of this->tables whose marker is still valid
ToRelease(t, i) ==
  /\ Table(t, i) \in held[t]
  /\ \A j \in 1 .. i - 1 : Table(t, j) \notin held[t]

\* Conditional on the ETag; a failed precondition (taken over) is fine too.
Release(t) ==
  /\ pc[t] \in {"yield", "abort", "finish"}
  /\ \E i \in 1 .. idx[t] :
       /\ ToRelease(t, i)
       /\ ReplaceOwnMarker(t, Table(t, i), markerVersion[t][Table(t, i)])
       /\ held' = [held EXCEPT ![t] = @ \ {Table(t, i)}]
  /\ UNCHANGED <<faults, pc, loadVars, markerVersion, snapVars, workVars,
                 conflictVars, commitVars>>

\* All attempts fail: abort() drops the marker, which stays in the log.  (At
\* the end of commit() it stays valid; its destructor tries again.)
ReleaseFails(t) ==
  /\ \/ pc[t] \in {"yield", "abort"}
     \/ pc[t] = "finish" /\ t \in ReadOnly
  /\ Fault("release")
  /\ \E i \in 1 .. idx[t] :
       /\ ToRelease(t, i)
       /\ held' = [held EXCEPT ![t] = @ \ {Table(t, i)}]
  /\ UNCHANGED <<log, pc, loadVars, markerVersion, snapVars, workVars,
                 conflictVars, commitVars>>

Released(t) ==
  /\ \A i \in 1 .. idx[t] : Table(t, i) \notin held[t]
  /\ \/ pc[t] = "yield" /\ Goto(t, "reserve")
     \/ pc[t] = "abort" /\ Goto(t, "aborted")
     \/ pc[t] = "finish" /\ Goto(t, "committed")
  /\ UNCHANGED <<log, faults, txnVars>>

-----------------------------------------------------------------------------
(* The environment *)

Ended == {"committed", "aborted", "crashed"}

Crash(t) ==
  /\ t \in MayCrash
  /\ pc[t] \notin Ended
  /\ Goto(t, "crashed")
  /\ UNCHANGED <<log, faults, txnVars>>

LeaseEnds(x, v) ==
  /\ LeasesEnd
  /\ log[x][v].kind = "marker"
  /\ ~log[x][v].ended
  /\ log' = [log EXCEPT ![x][v].ended = TRUE]
  /\ UNCHANGED <<faults, pc, txnVars>>

Init ==
  /\ log = [x \in Tables |-> [v \in Versions |->
              IF v = 0 THEN Commit(NoTxn, {File(NoTxn, 0, TRUE)}, {}) ELSE Absent]]
  /\ faults = 0
  /\ pc = [t \in Txns |-> "reserve"]
  /\ idx = [t \in Txns |-> 0]
  /\ cur = [t \in Txns |-> 1]
  /\ at = [t \in Txns |-> 0]
  /\ reopening = {}
  /\ nested = {}
  /\ replaced = [t \in Txns |-> 0]
  /\ markerVersion = [t \in Txns |-> [x \in Tables |-> 0]]
  /\ held = [t \in Txns |-> {}]
  /\ seen = [t \in Txns |-> NoFiles]
  /\ prevMarkers = [t \in Txns |-> {}]
  /\ relation = [t \in Txns |-> {}]
  /\ dependencies = {}
  /\ explicitLog = Txns
  /\ wasRead = [t \in Txns |-> {}]
  /\ createdFiles = [t \in Txns |-> NoFiles]
  /\ deletedFiles = [t \in Txns |-> NoFiles]
  /\ steps = [t \in Txns |-> << >>]
  /\ concurrentChange = [t \in Txns |-> {}]
  /\ concurrentRemoves = [t \in Txns |-> NoFiles]
  /\ rounds = [t \in Txns |-> 0]
  /\ redoDone = {}
  /\ committed = [t \in Txns |-> {}]
  /\ shifted = {}
  /\ redos = [t \in Txns |-> 0]
  /\ observed = [t \in Txns |-> NoFiles]

Opening(t) == \/ Reserve(t) \/ ReleaseReplaced(t) \/ ParseLogEntry(t)
              \/ TableLoaded(t) \/ Work(t)
Waiting(t) == Wait(t) \/ TakeOver(t)
Leasing(t) == LeaseHolds(t) \/ LeaseExpiring(t) \/ Shift(t) \/ LeasesChecked(t)
Validating(t) == \/ ValidateAsIs(t) \/ FirstRedo(t) \/ RedoAgain(t)
                 \/ RoundsUsedUp(t) \/ Redone(t)
Writing(t) == WriteCommit(t) \/ WriteLost(t) \/ AllWritten(t)
Releasing(t) == Release(t) \/ Released(t)

\* The steps of a client that meets no storage error
Step(t) == \/ Opening(t) \/ Waiting(t) \/ Leasing(t)
           \/ Validating(t) \/ Writing(t) \/ Releasing(t)

StorageError(t) == \/ ReserveResponseLost(t) \/ LoadFails(t) \/ WaitMissesOne(t)
                   \/ GiveUpWaiting(t) \/ WriteFails(t) \/ ReleaseFails(t)
                   \/ RebuildFails(t)

AllEnded == (\A t \in Txns : pc[t] \in Ended) /\ UNCHANGED vars

Next ==
  \/ \E t \in Txns : Step(t) \/ StorageError(t) \/ Crash(t)
  \/ \E x \in Tables, v \in Versions : LeaseEnds(x, v)
  \/ AllEnded

Spec == Init /\ [][Next]_vars

\* Clients keep running unless they crash, and time passes.
FairSpec ==
  /\ Spec
  /\ \A t \in Txns : WF_vars(Step(t))
  /\ \A x \in Tables, v \in Versions : WF_vars(LeaseEnds(x, v))

-----------------------------------------------------------------------------
(* Properties *)

Labels == {"reserve", "replace", "parse", "work", "yield", "wait", "lease",
           "shift", "shiftLost", "validate", "redone", "write", "finish", "abort"}

LoadTypes ==
  /\ idx \in [Txns -> Nat] /\ cur \in [Txns -> Nat] /\ at \in [Txns -> Nat]
  /\ reopening \in SUBSET Txns
  /\ nested \in SUBSET Txns
  /\ replaced \in [Txns -> Versions]
MarkerTypes ==
  /\ markerVersion \in [Txns -> [Tables -> Versions]]
  /\ held \in [Txns -> SUBSET Tables]
SnapTypes ==
  /\ seen \in [Txns -> [Tables -> SUBSET Versions]]
  /\ prevMarkers \in [Txns -> SUBSET (Tables \X Versions)]
  /\ relation \in [Txns -> SUBSET Writers]
  /\ dependencies \in SUBSET Txns
  /\ explicitLog \in SUBSET Txns
WorkTypes ==
  /\ wasRead \in [Txns -> SUBSET Tables]
  /\ createdFiles \in [Txns -> [Tables -> SUBSET Files]]
  /\ deletedFiles \in [Txns -> [Tables -> SUBSET Files]]
  /\ steps \in [Txns -> Seq([table : Tables, op : {"update", "delete"}])]
  /\ redos \in [Txns -> Nat]
  /\ observed \in [Txns -> [Tables -> SUBSET Versions]]
ConflictTypes ==
  /\ concurrentChange \in [Txns -> SUBSET Tables]
  /\ concurrentRemoves \in [Txns -> [Tables -> SUBSET Files]]
CommitTypes ==
  /\ rounds \in [Txns -> Nat]
  /\ redoDone \in SUBSET Txns
  /\ committed \in [Txns -> SUBSET Tables]
  /\ shifted \in SUBSET Txns

TypeOK ==
  /\ log \in [Tables -> [Versions -> Objects]]
  /\ faults \in Nat
  /\ pc \in [Txns -> Labels \cup Ended]
  /\ LoadTypes /\ MarkerTypes /\ SnapTypes /\ WorkTypes /\ ConflictTypes /\ CommitTypes

Commits(x) == {v \in Versions : log[x][v].kind = "commit"}
CommitsOf(t, x) == {v \in Commits(x) : log[x][v].by = t}

\* A final version (a Delta commit, or the empty commit of a released or
\* taken-over version) never changes: readers and waiters have read it.
VersionsAreFinal ==
  [][\A x \in Tables, v \in Versions : Final(x, v) => log'[x][v] = log[x][v]]_vars

\* No version is reserved before the one below it exists: the listing shows
\* the next version, and a reader of version v finds all versions below.
LogHasNoGaps ==
  \A x \in Tables, v, w \in Versions :
    v < w /\ log[x][w].kind # "absent" => log[x][v].kind # "absent"

\* Every step of the protocol is a step of the abstract log of a table: the
\* next version is reserved, its owner commits it, or it is given up.
entry == [x \in Tables |-> [v \in Versions |->
            [kind |-> log[x][v].kind, by |-> log[x][v].by]]]
VL == INSTANCE VersionLog WITH Creator <- NoTxn
ImplementsVersionLog == VL!Spec

\* A transaction that still counts on a reserved version finds it either as
\* its own marker or taken over (empty): never committed by another writer,
\* never the marker of another one.
ReservedVersionIsOursOrEmpty ==
  \A t \in Txns, x \in Tables :
    x \in held[t] =>
      LET v == markerVersion[t][x] IN
      \/ IsMarkerOf(x, v, t)
      \/ log[x][v] = EmptyCommit
      \/ pc[t] \in {"abort", "aborted", "crashed"} /\ v \in CommitsOf(t, x)

\* No lost update: no file is removed by two commits (each of which replaced
\* its rows), whatever the isolation level, leases and crashes.
NoFileRemovedTwice ==
  \A x \in Tables : \A v, w \in Commits(x) :
    v # w => log[x][v].remove \cap log[x][w].remove = {}

\* A commit only removes files its predecessors left in the table.
RemovedFilesWereLive ==
  \A x \in Tables : \A v \in Commits(x) :
    log[x][v].remove \subseteq LiveFiles(x, 0 .. v - 1)

\* Isolation::Serializable: the commit to a table the transaction read comes
\* from a snapshot with every change below the committed version.
CommitsReadTheirPredecessors ==
  \A t \in Txns : \A x \in wasRead[t] : \A v \in CommitsOf(t, x) :
    \A w \in Commits(x) : w < v => w \in observed[t][x]

\* a precedes b in every serial order equivalent to the history.
Precedes(a, b) ==
  \E x \in Tables :
    \/ \E v \in CommitsOf(a, x), w \in CommitsOf(b, x) : v < w
    \/ x \in wasRead[b] /\ CommitsOf(a, x) \cap observed[b][x] # {}
    \/ x \in wasRead[a] /\ CommitsOf(b, x) \ observed[a][x] # {}

\* The acknowledged transactions are equivalent to a serial execution: every
\* set of them has a first one.
AcknowledgedAreSerializable ==
  \A S \in SUBSET {t \in Txns : pc[t] = "committed"} :
    S # {} => \E a \in S : \A b \in S \ {a} : ~Precedes(b, a)

\* A transaction whose commit() returned true has its appended files and its
\* logged updates in the log.
AcknowledgedIsInTheLog ==
  \A t \in Txns : \A x \in {Table(t, i) : i \in 1 .. NumTables(t)} :
    LET mine == UNION {log[x][v].add : v \in CommitsOf(t, x)} IN
    pc[t] = "committed" =>
      /\ "append" \in Ops[t][x] => \E f \in mine : ~f.keyed
      /\ [table |-> x, op |-> "update"] \in {steps[t][i] : i \in DOMAIN steps[t]}
           => \E f \in mine : f.keyed

\* A transaction commits to a table at most once.
CommitsOnce ==
  \A t \in Txns, x \in Tables : \A v, w \in CommitsOf(t, x) : v = w

\* commit() returned false: nothing of the transaction is in any log.
AbortedLeftNothing ==
  \A t \in Txns, x \in Tables : pc[t] = "aborted" => CommitsOf(t, x) = {}

\* A transaction that ended leaves no marker that others have to wait for.
EndedLeavesNoMarker ==
  \A t \in Txns, x \in Tables, v \in Versions :
    pc[t] \in {"committed", "aborted"} => ~IsMarkerOf(x, v, t)

\* Every commit() returns, whoever crashed and in whatever order the tables
\* were opened.
EveryTransactionEnds == \A t \in Txns : <>(pc[t] \in Ended)
=============================================================================
