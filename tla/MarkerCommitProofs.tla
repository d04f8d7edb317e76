------------------------- MODULE MarkerCommitProofs -------------------------
(***************************************************************************)
(* Proofs about MarkerCommit, for every number of transactions, tables,    *)
(* versions, redos and storage errors, every level and isolation.          *)
(*                                                                         *)
(* 1. Type correctness, action by action, with the loop positions.         *)
(* 2. Every step changes the log by a LogStep: a marker at the next        *)
(*    version, an empty commit for a marker, the commit of its owner, or   *)
(*    the end of a lease.  That the versions counted on exist and are ours *)
(*    (IInv) is needed to see it: reserve_version and shift_marker start   *)
(*    their search at a version they hold, and a failed open overwrites    *)
(*    its version without a precondition.                                  *)
(* 3. The inductive invariant, the theorems it gives, and the refinement   *)
(*    of VersionLog.                                                       *)
(***************************************************************************)
EXTENDS MarkerCommit, TLAPS

USE DEF reloadVars, loadVars, markerVars, snapVars, workVars,
        conflictVars, commitVars, txnVars, Goto, Continue

\* Where the loops over this->tables stand
Position ==
  \A t \in Txns :
    /\ idx[t] \in 0 .. NumTables(t)
    /\ pc[t] = "work" => idx[t] >= 1
    /\ pc[t] \in {"reserve", "replace", "parse", "yield", "shift", "shiftLost"} =>
         cur[t] \in 1 .. NumTables(t)

\* The tables of a transaction are tables.
LEMMA TableIsATable ==
  ASSUME NEW t \in Txns, NEW i \in 1 .. NumTables(t)
  PROVE  Table(t, i) \in Tables
BY ConstantsAssumption DEF Table, NumTables

\* Every transaction opens at least one table.
LEMMA NumTablesIsPositive ==
  ASSUME NEW t \in Txns
  PROVE  NumTables(t) \in Nat /\ NumTables(t) >= 1
BY ConstantsAssumption, OpenOrderAssumption DEF NumTables

\* What the protocol writes are log objects.
LEMMA ObjectTypes ==
  ASSUME NEW t \in Txns, NEW a \in SUBSET Files, NEW r \in SUBSET Files
  PROVE  /\ Marker(t) \in Objects
         /\ EmptyCommit \in Objects
         /\ Absent \in Objects
         /\ Commit(t, a, r) \in Objects
BY DEF Marker, EmptyCommit, Absent, Commit, Object, Objects, Writers

\* Writing an object keeps the type of the log ...
LEMMA WriteLogType ==
  ASSUME TypeOK, NEW x \in Tables, NEW v \in Versions, NEW o \in Objects,
         WriteLog(x, v, o)
  PROVE  log' \in [Tables -> [Versions -> Objects]]
BY DEF TypeOK, WriteLog

\* ... and so does the conditional write of a release or a takeover.
LEMMA ReplaceType ==
  ASSUME TypeOK, NEW t \in Txns, NEW x \in Tables, NEW v \in Versions,
         ReplaceOwnMarker(t, x, v)
  PROVE  log' \in [Tables -> [Versions -> Objects]]
BY ObjectTypes DEF TypeOK, ReplaceOwnMarker

\* A snapshot consists of data files.
LEMMA LiveFilesType ==
  ASSUME TypeOK, NEW x \in Tables, NEW S \in SUBSET Versions
  PROVE  LiveFiles(x, S) \subseteq Files
BY DEF TypeOK, LiveFiles, Objects

\* Reserve keeps the types and the loop positions.
LEMMA ReserveType ==
  ASSUME TypeOK, Position, NEW t \in Txns, Reserve(t)
  PROVE  TypeOK' /\ Position'
<1>1. Current(t) \in Tables
  BY TableIsATable DEF Reserve, Position, Current
<1>2. log' \in [Tables -> [Versions -> Objects]]
  BY <1>1, ObjectTypes, WriteLogType DEF Reserve
<1>3. LoadTypes'
  BY <1>1 DEF Reserve, TypeOK, LoadTypes, MarkerTypes
<1>4. MarkerTypes'
  BY <1>1 DEF Reserve, TypeOK, MarkerTypes
<1>5. SnapTypes'
  BY <1>1 DEF Reserve, TypeOK, SnapTypes
<1>6. ConflictTypes'
  BY <1>1 DEF Reserve, TypeOK, ConflictTypes
<1>7. WorkTypes' /\ CommitTypes'
  BY DEF Reserve, TypeOK, WorkTypes, CommitTypes
<1>8. pc' \in [Txns -> Labels \cup Ended] /\ faults' \in Nat
  BY DEF Reserve, TypeOK, Labels, Ended
<1>9. Position'
  BY DEF Reserve, TypeOK, Position, NumTables, LoadTypes
<1> QED BY <1>2, <1>3, <1>4, <1>5, <1>6, <1>7, <1>8, <1>9 DEF TypeOK

\* ReserveResponseLost keeps the types and the loop positions.
LEMMA ReserveResponseLostType ==
  ASSUME TypeOK, Position, NEW t \in Txns, ReserveResponseLost(t)
  PROVE  TypeOK' /\ Position'
<1>1. Current(t) \in Tables
  BY TableIsATable DEF ReserveResponseLost, Position, Current
<1>2. log' \in [Tables -> [Versions -> Objects]]
  BY <1>1, ObjectTypes, WriteLogType DEF ReserveResponseLost
<1>3. LoadTypes' /\ MarkerTypes' /\ SnapTypes' /\ WorkTypes' /\ ConflictTypes'
     /\ CommitTypes'
  BY DEF ReserveResponseLost, TypeOK, LoadTypes, MarkerTypes, SnapTypes,
       WorkTypes, ConflictTypes, CommitTypes
<1>4. pc' \in [Txns -> Labels \cup Ended] /\ faults' \in Nat
  BY DEF ReserveResponseLost, TypeOK, Labels, Ended, Fault
<1>5. Position'
  BY DEF ReserveResponseLost, TypeOK, Position, NumTables, LoadTypes
<1> QED BY <1>2, <1>3, <1>4, <1>5 DEF TypeOK

\* ReleaseReplaced keeps the types and the loop positions.
LEMMA ReleaseReplacedType ==
  ASSUME TypeOK, Position, NEW t \in Txns, ReleaseReplaced(t)
  PROVE  TypeOK' /\ Position'
<1>1. Current(t) \in Tables
  BY TableIsATable DEF ReleaseReplaced, Position, Current
<1>2. log' \in [Tables -> [Versions -> Objects]]
  BY <1>1, ReplaceType DEF ReleaseReplaced, TypeOK, LoadTypes
<1>3. LoadTypes' /\ MarkerTypes' /\ SnapTypes' /\ WorkTypes' /\ ConflictTypes'
     /\ CommitTypes'
  BY DEF ReleaseReplaced, TypeOK, LoadTypes, MarkerTypes, SnapTypes, WorkTypes,
       ConflictTypes, CommitTypes
<1>4. pc' \in [Txns -> Labels \cup Ended] /\ faults' \in Nat
  BY DEF ReleaseReplaced, TypeOK, Labels, Ended
<1>5. Position'
  BY DEF ReleaseReplaced, TypeOK, Position, NumTables, LoadTypes
<1> QED BY <1>2, <1>3, <1>4, <1>5 DEF TypeOK

\* ParseLogEntry keeps the types and the loop positions.
LEMMA ParseLogEntryType ==
  ASSUME TypeOK, Position, NEW t \in Txns, ParseLogEntry(t)
  PROVE  TypeOK' /\ Position'
<1> DEFINE x == Current(t)
           v == at[t]
<1>1. x \in Tables
  BY TableIsATable DEF ParseLogEntry, Position, Current
<1>2. v \in Versions
  <2>1. v \in Nat /\ markerVersion[t][x] \in 0 .. MaxVersion /\ v <
       markerVersion[t][x]
    BY <1>1 DEF ParseLogEntry, TypeOK, LoadTypes, MarkerTypes, Versions
  <2> QED BY <2>1, ConstantsAssumption DEF Versions
<1>3. log[x][v].by \in Writers
  BY <1>1, <1>2 DEF TypeOK, Objects
<1>4. SnapTypes'
  <2>1. CASE log[x][v].kind # "marker"
    <3>1. /\ seen' = [seen EXCEPT ![t][x] = @ \cup {v}]
          /\ UNCHANGED <<prevMarkers, explicitLog, relation, dependencies>>
      BY <2>1 DEF ParseLogEntry
    <3> QED BY <3>1, <1>1, <1>2 DEF TypeOK, SnapTypes
  <2>2. CASE log[x][v].kind = "marker"
    <3>1. /\ prevMarkers' = [prevMarkers EXCEPT ![t] = @ \cup {<<x, v>>}]
          /\ explicitLog' \in {explicitLog, explicitLog \ {t}}
          /\ relation' = [relation EXCEPT ![t] = IF Level1 THEN @ \cup
               {log[x][v].by} ELSE @]
          /\ dependencies' \in {dependencies, dependencies \cup {t}}
          /\ UNCHANGED seen
      BY <2>2 DEF ParseLogEntry
    <3>2. seen' \in [Txns -> [Tables -> SUBSET Versions]]
      BY <3>1 DEF TypeOK, SnapTypes
    <3>3. prevMarkers' \in [Txns -> SUBSET (Tables \X Versions)]
      BY <3>1, <1>1, <1>2 DEF TypeOK, SnapTypes
    <3>4. relation' \in [Txns -> SUBSET Writers]
      BY <3>1, <1>3 DEF TypeOK, SnapTypes
    <3>5. dependencies' \in SUBSET Txns /\ explicitLog' \in SUBSET Txns
      BY <3>1 DEF TypeOK, SnapTypes
    <3> QED BY <3>2, <3>3, <3>4, <3>5 DEF SnapTypes
  <2> QED BY <2>1, <2>2
<1>5. MarkerTypes' /\ WorkTypes' /\ ConflictTypes' /\ CommitTypes'
  BY DEF ParseLogEntry, TypeOK, MarkerTypes, WorkTypes, ConflictTypes,
       CommitTypes
<1>6. LoadTypes'
  BY <1>2 DEF ParseLogEntry, TypeOK, LoadTypes, Versions
<1>7. Position'
  BY DEF ParseLogEntry, TypeOK, Position, NumTables, LoadTypes
<1> QED BY <1>4, <1>5, <1>6, <1>7 DEF TypeOK, ParseLogEntry

\* TableLoaded keeps the types and the loop positions.
LEMMA TableLoadedType ==
  ASSUME TypeOK, Position, NEW t \in Txns, TableLoaded(t)
  PROVE  TypeOK' /\ Position'
<1>1. LoadTypes'
  BY DEF TableLoaded, LoadedAll, TypeOK, LoadTypes
<1>2. SnapTypes'
  BY DEF TableLoaded, LoadedAll, TypeOK, SnapTypes
<1>3. MarkerTypes' /\ WorkTypes' /\ ConflictTypes' /\ CommitTypes'
  BY DEF TableLoaded, LoadedAll, TypeOK, MarkerTypes, WorkTypes, ConflictTypes,
       CommitTypes
<1>4. pc' \in [Txns -> Labels \cup Ended] /\ faults' \in Nat
  BY DEF TableLoaded, LoadedAll, TypeOK, Labels, Ended
<1>5. Position'
  BY NumTablesIsPositive DEF TableLoaded, LoadedAll, TypeOK, Position,
       NumTables, LoadTypes
<1> QED BY <1>1, <1>2, <1>3, <1>4, <1>5 DEF TypeOK, TableLoaded, LoadedAll

\* LoadFails keeps the types and the loop positions.
LEMMA LoadFailsType ==
  ASSUME TypeOK, Position, NEW t \in Txns, LoadFails(t)
  PROVE  TypeOK' /\ Position'
<1>1. Current(t) \in Tables
  BY TableIsATable DEF LoadFails, Position, Current
<1>2. log' \in [Tables -> [Versions -> Objects]]
  <2>1. CASE t \in reopening
    BY <2>1 DEF LoadFails, TypeOK
  <2>2. CASE t \notin reopening
    <3>1. WriteLog(Current(t), markerVersion[t][Current(t)], EmptyCommit)
      BY <2>2 DEF LoadFails
    <3>2. markerVersion[t][Current(t)] \in Versions
      BY <1>1 DEF TypeOK, MarkerTypes
    <3>3. EmptyCommit \in Objects
      BY DEF EmptyCommit, Object, Objects, Writers
    <3> QED BY <1>1, <3>1, <3>2, <3>3, WriteLogType
  <2> QED BY <2>1, <2>2
<1>3. LoadTypes'
  BY DEF LoadFails, TypeOK, LoadTypes
<1>4. MarkerTypes'
  BY <1>1 DEF LoadFails, TypeOK, MarkerTypes
<1>5. SnapTypes'
  BY DEF LoadFails, TypeOK, SnapTypes
<1>6. WorkTypes' /\ ConflictTypes' /\ CommitTypes'
  BY DEF LoadFails, TypeOK, WorkTypes, ConflictTypes, CommitTypes
<1>7. pc' \in [Txns -> Labels \cup Ended] /\ faults' \in Nat
  BY DEF LoadFails, TypeOK, Labels, Ended, Fault
<1>8. Position'
  BY NumTablesIsPositive DEF LoadFails, TypeOK, Position, NumTables, LoadTypes
<1> QED BY <1>2, <1>3, <1>4, <1>5, <1>6, <1>7, <1>8 DEF TypeOK

\* What a transaction registers are data files.
LEMMA FileType ==
  ASSUME NEW t \in Txns, NEW n \in Nat, NEW k \in BOOLEAN
  PROVE  File(t, n, k) \in Files
BY DEF File, Files, Writers

\* Work keeps the types and the loop positions.
LEMMA WorkType ==
  ASSUME TypeOK, Position, NEW t \in Txns, Work(t)
  PROVE  TypeOK' /\ Position'
<1> DEFINE x == Table(t, idx[t])
<1>1. x \in Tables
  BY TableIsATable DEF Work, Position
<1>2. KeyFiles(t, x) \in SUBSET Files
  BY <1>1, LiveFilesType DEF KeyFiles, KeyFilesIn, TypeOK, SnapTypes
<1>3. createdFiles' \in [Txns -> [Tables -> SUBSET Files]]
  <2>1. File(t, 0, TRUE) \in Files /\ File(t, 0, FALSE) \in Files
    BY FileType
  <2>2. AddedFiles(t, x) \in SUBSET Files
    BY <2>1 DEF AddedFiles
  <2>3. createdFiles' = [createdFiles EXCEPT ![t][x] = AddedFiles(t, x)]
    BY DEF Work
  <2> QED BY <2>2, <2>3, <1>1 DEF TypeOK, WorkTypes
<1>4. deletedFiles' \in [Txns -> [Tables -> SUBSET Files]]
  <2>1. RemovedFiles(t, x) \in SUBSET Files
    BY <1>2 DEF RemovedFiles
  <2>2. deletedFiles' = [deletedFiles EXCEPT ![t][x] = RemovedFiles(t, x)]
    BY DEF Work
  <2> QED BY <2>1, <2>2, <1>1 DEF TypeOK, WorkTypes
<1>5. steps' \in [Txns -> Seq([table : Tables, op : {"update", "delete"}])]
  <2> DEFINE Steps == [table : Tables, op : {"update", "delete"}]
  <2>1. \A op \in {"update", "delete"} : [table |-> x, op |-> op] \in Steps
    BY <1>1
  <2>2. steps \in [Txns -> Seq(Steps)]
    BY DEF TypeOK, WorkTypes
  <2>3. steps' = [steps EXCEPT ![t] = @ \o LoggedSteps(t, x)]
    BY DEF Work
  <2> HIDE DEF Steps
  <2>4. LoggedSteps(t, x) \in Seq(Steps)
    BY <2>1 DEF LoggedSteps
  <2>5. steps[t] \o LoggedSteps(t, x) \in Seq(Steps)
    BY <2>2, <2>4
  <2>6. steps' \in [Txns -> Seq(Steps)]
    BY <2>2, <2>3, <2>5
  <2> QED BY <2>6 DEF Steps
<1>6. wasRead' \in [Txns -> SUBSET Tables]
  <2>1. UNCHANGED wasRead \/ wasRead' = [wasRead EXCEPT ![t] = @ \cup {x}]
    BY DEF Work
  <2>2. wasRead \in [Txns -> SUBSET Tables]
    BY DEF TypeOK, WorkTypes
  <2> QED BY <2>1, <2>2, <1>1
<1>7. observed' \in [Txns -> [Tables -> SUBSET Versions]]
  <2>1. UNCHANGED observed \/ observed' = [observed EXCEPT ![t][x] = seen[t][x]]
    BY DEF Work
  <2>2. /\ observed \in [Txns -> [Tables -> SUBSET Versions]]
        /\ seen[t][x] \in SUBSET Versions
    BY <1>1 DEF TypeOK, WorkTypes, SnapTypes
  <2>3. CASE UNCHANGED observed
    BY <2>2, <2>3
  <2>4. CASE observed' = [observed EXCEPT ![t][x] = seen[t][x]]
    <3>1. [observed[t] EXCEPT ![x] = seen[t][x]] \in [Tables -> SUBSET Versions]
      BY <2>2, <1>1
    <3> QED BY <2>2, <2>4, <3>1
  <2> QED BY <2>1, <2>3, <2>4
<1>8. WorkTypes'
  BY <1>3, <1>4, <1>5, <1>6, <1>7 DEF Work, TypeOK, WorkTypes
<1>9. LoadTypes' /\ MarkerTypes' /\ SnapTypes' /\ ConflictTypes' /\ CommitTypes'
  <2>1. /\ UNCHANGED <<idx, at, reloadVars, markerVars, snapVars,
                       conflictVars, commitVars>>
        /\ UNCHANGED cur \/ cur' = [cur EXCEPT ![t] = idx[t] + 1]
    BY DEF Work
  <2>2. MarkerTypes' /\ SnapTypes' /\ ConflictTypes' /\ CommitTypes'
    BY <2>1 DEF TypeOK, MarkerTypes, SnapTypes, ConflictTypes, CommitTypes
  <2>3. LoadTypes'
    BY <2>1 DEF TypeOK, LoadTypes
  <2> QED BY <2>2, <2>3
<1>10. pc' \in [Txns -> Labels \cup Ended]
  BY DEF Work, TypeOK, Labels
<1>11. Position'
  BY DEF Work, TypeOK, Position, NumTables, LoadTypes
<1> QED BY <1>8, <1>9, <1>10, <1>11 DEF TypeOK, Work

\* A pass of the wait loop, with or without a skipped predecessor.
LEMMA WaitPassType ==
  ASSUME TypeOK, Position, NEW t \in Txns, NEW skipped, WaitPass(t, skipped),
         faults' \in Nat
  PROVE  TypeOK' /\ Position'
<1> DEFINE applied(x) == {v \in Versions : <<x, v>> \in prevMarkers[t] \ skipped}
<1>1. SnapTypes'
  <2>1. \A x \in Tables : seen[t][x] \cup applied(x) \in SUBSET Versions
    BY DEF TypeOK, SnapTypes
  <2>2. seen' = [seen EXCEPT ![t] = [x \in Tables |-> seen[t][x] \cup applied(x)]]
    BY DEF WaitPass
  <2> HIDE DEF applied
  <2>3. seen' \in [Txns -> [Tables -> SUBSET Versions]]
    BY <2>1, <2>2 DEF TypeOK, SnapTypes
  <2> QED BY <2>3 DEF WaitPass, TypeOK, SnapTypes
<1>2. ConflictTypes'
  <2> DEFINE removed(x) == concurrentRemoves[t][x] \cup UNION {log[x][v].remove : v \in applied(x)}
             changed == {x \in Tables : \E v \in applied(x) : ChangesData(x, v)}
  <2>1. \A x \in Tables : removed(x) \in SUBSET Files
    <3>1. \A x \in Tables : \A v \in applied(x) : log[x][v].remove \in SUBSET Files
      BY DEF TypeOK, Objects
    <3>2. \A x \in Tables : concurrentRemoves[t][x] \in SUBSET Files
      BY DEF TypeOK, ConflictTypes
    <3> HIDE DEF applied
    <3> QED BY <3>1, <3>2
  <2>2. concurrentRemoves' = [concurrentRemoves EXCEPT ![t] = [x \in Tables |-> removed(x)]]
    BY DEF WaitPass
  <2>3. /\ changed \in SUBSET Tables
        /\ concurrentChange' = [concurrentChange EXCEPT ![t] = @ \cup changed]
    BY DEF WaitPass
  <2> HIDE DEF removed, changed
  <2>4. concurrentRemoves' \in [Txns -> [Tables -> SUBSET Files]]
    BY <2>1, <2>2 DEF TypeOK, ConflictTypes
  <2>5. concurrentChange' \in [Txns -> SUBSET Tables]
    BY <2>3 DEF TypeOK, ConflictTypes
  <2> QED BY <2>4, <2>5 DEF ConflictTypes
<1>3. LoadTypes' /\ MarkerTypes' /\ WorkTypes' /\ CommitTypes'
  BY DEF WaitPass, TypeOK, LoadTypes, MarkerTypes, WorkTypes, CommitTypes
<1>4. pc' \in [Txns -> Labels \cup Ended] /\ UNCHANGED log
  BY DEF WaitPass, TypeOK, Labels
<1>5. Position'
  BY DEF WaitPass, TypeOK, Position, NumTables, LoadTypes
<1> QED BY <1>1, <1>2, <1>3, <1>4, <1>5 DEF TypeOK

\* Wait keeps the types and the loop positions.
LEMMA WaitType ==
  ASSUME TypeOK, Position, NEW t \in Txns, Wait(t)
  PROVE  TypeOK' /\ Position'
BY WaitPassType DEF Wait, TypeOK

\* WaitMissesOne keeps the types and the loop positions.
LEMMA WaitMissesOneType ==
  ASSUME TypeOK, Position, NEW t \in Txns, WaitMissesOne(t)
  PROVE  TypeOK' /\ Position'
<1>1. PICK p \in prevMarkers[t] : WaitPass(t, {p}) /\ Fault("head")
  BY DEF WaitMissesOne
<1>2. faults' \in Nat
  BY <1>1 DEF Fault, TypeOK
<1> QED BY <1>1, <1>2, WaitPassType

\* TakeOver keeps the types and the loop positions.
LEMMA TakeOverType ==
  ASSUME TypeOK, Position, NEW t \in Txns, TakeOver(t)
  PROVE  TypeOK' /\ Position'
<1>1. PICK p \in prevMarkers[t] : WriteLog(p[1], p[2], EmptyCommit)
  BY DEF TakeOver
<1>2. p[1] \in Tables /\ p[2] \in Versions
  BY DEF TypeOK, SnapTypes
<1>3. log' \in [Tables -> [Versions -> Objects]]
  BY <1>1, <1>2, ObjectTypes, WriteLogType
<1>4. UNCHANGED <<faults, pc, txnVars>>
  BY DEF TakeOver
<1> QED BY <1>3, <1>4 DEF TypeOK, LoadTypes, MarkerTypes, SnapTypes, WorkTypes,
           ConflictTypes, CommitTypes, Position, NumTables

\* GiveUpWaiting keeps the types and the loop positions.
LEMMA GiveUpWaitingType ==
  ASSUME TypeOK, Position, NEW t \in Txns, GiveUpWaiting(t)
  PROVE  TypeOK' /\ Position'
<1>1. LoadTypes'
  <2>1. UNCHANGED <<idx, at, nested, replaced>>
    BY DEF GiveUpWaiting
  <2>2. \/ UNCHANGED <<cur, reopening>>
        \/ cur' = [cur EXCEPT ![t] = 1] /\ reopening' = reopening \cup {t}
    BY DEF GiveUpWaiting
  <2> QED BY <2>1, <2>2 DEF TypeOK, LoadTypes
<1>2. SnapTypes'
  BY DEF GiveUpWaiting, TypeOK, SnapTypes
<1>3. MarkerTypes' /\ WorkTypes' /\ ConflictTypes' /\ CommitTypes'
  BY DEF GiveUpWaiting, TypeOK, MarkerTypes, WorkTypes, ConflictTypes,
       CommitTypes
<1>4. pc' \in [Txns -> Labels \cup Ended] /\ faults' \in Nat
  BY DEF GiveUpWaiting, TypeOK, Labels, Ended, Fault
<1>5. Position'
  BY NumTablesIsPositive DEF GiveUpWaiting, TypeOK, Position, NumTables,
       LoadTypes
<1> QED BY <1>1, <1>2, <1>3, <1>4, <1>5 DEF TypeOK, GiveUpWaiting

\* LeaseHolds keeps the types and the loop positions.
LEMMA LeaseHoldsType ==
  ASSUME TypeOK, Position, NEW t \in Txns, LeaseHolds(t)
  PROVE  TypeOK' /\ Position'
<1>1. LoadTypes'
  BY NumTablesIsPositive DEF LeaseHolds, TypeOK, LoadTypes
<1>2. MarkerTypes' /\ SnapTypes' /\ WorkTypes' /\ ConflictTypes' /\
     CommitTypes'
  BY DEF LeaseHolds, TypeOK, MarkerTypes, SnapTypes, WorkTypes, ConflictTypes,
       CommitTypes
<1>3. pc' \in [Txns -> Labels \cup Ended] /\ faults' \in Nat
  BY DEF LeaseHolds, TypeOK, Labels, Ended
<1>4. Position'
  BY DEF LeaseHolds, TypeOK, Position, NumTables, LoadTypes
<1> QED BY <1>1, <1>2, <1>3, <1>4 DEF TypeOK, LeaseHolds

\* LeasesChecked keeps the types and the loop positions.
LEMMA LeasesCheckedType ==
  ASSUME TypeOK, Position, NEW t \in Txns, LeasesChecked(t)
  PROVE  TypeOK' /\ Position'
<1>1. CommitTypes'
  BY DEF LeasesChecked, TypeOK, CommitTypes
<1>2. LoadTypes' /\ MarkerTypes' /\ SnapTypes' /\ WorkTypes' /\ ConflictTypes'
  BY DEF LeasesChecked, TypeOK, LoadTypes, MarkerTypes, SnapTypes, WorkTypes,
       ConflictTypes
<1>3. pc' \in [Txns -> Labels \cup Ended] /\ faults' \in Nat
  BY DEF LeasesChecked, TypeOK, Labels, Ended
<1>4. Position'
  BY DEF LeasesChecked, TypeOK, Position, NumTables, LoadTypes
<1> QED BY <1>1, <1>2, <1>3, <1>4 DEF TypeOK, LeasesChecked

\* ValidateAsIs keeps the types and the loop positions.
LEMMA ValidateAsIsType ==
  ASSUME TypeOK, Position, NEW t \in Txns, ValidateAsIs(t)
  PROVE  TypeOK' /\ Position'
<1>1. LoadTypes'
  BY DEF ValidateAsIs, StartWriting, TypeOK, LoadTypes
<1>2. MarkerTypes' /\ SnapTypes' /\ WorkTypes' /\ ConflictTypes' /\
     CommitTypes'
  BY DEF ValidateAsIs, StartWriting, TypeOK, MarkerTypes, SnapTypes, WorkTypes,
       ConflictTypes, CommitTypes
<1>3. pc' \in [Txns -> Labels \cup Ended] /\ faults' \in Nat
  BY DEF ValidateAsIs, StartWriting, TypeOK, Labels, Ended
<1>4. Position'
  BY DEF ValidateAsIs, StartWriting, TypeOK, Position, NumTables, LoadTypes
<1> QED BY <1>1, <1>2, <1>3, <1>4 DEF TypeOK, ValidateAsIs, StartWriting

\* Redone keeps the types and the loop positions.
LEMMA RedoneType ==
  ASSUME TypeOK, Position, NEW t \in Txns, Redone(t)
  PROVE  TypeOK' /\ Position'
<1>1. LoadTypes'
  BY DEF Redone, StartWriting, TypeOK, LoadTypes
<1>2. MarkerTypes' /\ SnapTypes' /\ WorkTypes' /\ ConflictTypes' /\
     CommitTypes'
  BY DEF Redone, StartWriting, TypeOK, MarkerTypes, SnapTypes, WorkTypes,
       ConflictTypes, CommitTypes
<1>3. pc' \in [Txns -> Labels \cup Ended] /\ faults' \in Nat
  BY DEF Redone, StartWriting, TypeOK, Labels, Ended
<1>4. Position'
  BY DEF Redone, StartWriting, TypeOK, Position, NumTables, LoadTypes
<1> QED BY <1>1, <1>2, <1>3, <1>4 DEF TypeOK, Redone, StartWriting

\* RoundsUsedUp keeps the types and the loop positions.
LEMMA RoundsUsedUpType ==
  ASSUME TypeOK, Position, NEW t \in Txns, RoundsUsedUp(t)
  PROVE  TypeOK' /\ Position'
<1>1. LoadTypes' /\ MarkerTypes' /\ SnapTypes' /\ WorkTypes' /\ ConflictTypes'
     /\ CommitTypes'
  BY DEF RoundsUsedUp, RedoImpossible, TypeOK, LoadTypes, MarkerTypes,
       SnapTypes, WorkTypes, ConflictTypes, CommitTypes
<1>2. pc' \in [Txns -> Labels \cup Ended] /\ faults' \in Nat
  BY DEF RoundsUsedUp, RedoImpossible, TypeOK, Labels, Ended
<1>3. Position'
  BY DEF RoundsUsedUp, RedoImpossible, TypeOK, Position, NumTables, LoadTypes
<1> QED BY <1>1, <1>2, <1>3 DEF TypeOK, RoundsUsedUp, RedoImpossible

\* RebuildFails keeps the types and the loop positions.
LEMMA RebuildFailsType ==
  ASSUME TypeOK, Position, NEW t \in Txns, RebuildFails(t)
  PROVE  TypeOK' /\ Position'
<1>1. LoadTypes' /\ MarkerTypes' /\ SnapTypes' /\ WorkTypes' /\ ConflictTypes'
     /\ CommitTypes'
  BY DEF RebuildFails, RedoImpossible, TypeOK, LoadTypes, MarkerTypes,
       SnapTypes, WorkTypes, ConflictTypes, CommitTypes
<1>2. pc' \in [Txns -> Labels \cup Ended] /\ faults' \in Nat
  BY DEF RebuildFails, RedoImpossible, TypeOK, Labels, Ended, Fault
<1>3. Position'
  BY DEF RebuildFails, RedoImpossible, TypeOK, Position, NumTables, LoadTypes
<1> QED BY <1>1, <1>2, <1>3 DEF TypeOK, RebuildFails, RedoImpossible

\* AllWritten keeps the types and the loop positions.
LEMMA AllWrittenType ==
  ASSUME TypeOK, Position, NEW t \in Txns, AllWritten(t)
  PROVE  TypeOK' /\ Position'
<1>1. LoadTypes' /\ MarkerTypes' /\ SnapTypes' /\ WorkTypes' /\ ConflictTypes'
     /\ CommitTypes'
  BY DEF AllWritten, TypeOK, LoadTypes, MarkerTypes, SnapTypes, WorkTypes,
       ConflictTypes, CommitTypes
<1>2. pc' \in [Txns -> Labels \cup Ended] /\ faults' \in Nat
  BY DEF AllWritten, TypeOK, Labels, Ended
<1>3. Position'
  BY DEF AllWritten, TypeOK, Position, NumTables, LoadTypes
<1> QED BY <1>1, <1>2, <1>3 DEF TypeOK, AllWritten

\* Released keeps the types and the loop positions.
LEMMA ReleasedType ==
  ASSUME TypeOK, Position, NEW t \in Txns, Released(t)
  PROVE  TypeOK' /\ Position'
<1>1. LoadTypes' /\ MarkerTypes' /\ SnapTypes' /\ WorkTypes' /\ ConflictTypes'
     /\ CommitTypes'
  BY DEF Released, TypeOK, LoadTypes, MarkerTypes, SnapTypes, WorkTypes,
       ConflictTypes, CommitTypes
<1>2. pc' \in [Txns -> Labels \cup Ended] /\ faults' \in Nat
  BY DEF Released, TypeOK, Labels, Ended
<1>3. Position'
  BY DEF Released, TypeOK, Position, NumTables, LoadTypes
<1> QED BY <1>1, <1>2, <1>3 DEF TypeOK, Released

\* Crash keeps the types and the loop positions.
LEMMA CrashType ==
  ASSUME TypeOK, Position, NEW t \in Txns, Crash(t)
  PROVE  TypeOK' /\ Position'
<1>1. LoadTypes' /\ MarkerTypes' /\ SnapTypes' /\ WorkTypes' /\ ConflictTypes'
     /\ CommitTypes'
  BY DEF Crash, TypeOK, LoadTypes, MarkerTypes, SnapTypes, WorkTypes,
       ConflictTypes, CommitTypes
<1>2. pc' \in [Txns -> Labels \cup Ended] /\ faults' \in Nat
  BY DEF Crash, TypeOK, Labels, Ended
<1>3. Position'
  BY DEF Crash, TypeOK, Position, NumTables, LoadTypes
<1> QED BY <1>1, <1>2, <1>3 DEF TypeOK, Crash

\* LeaseExpiring keeps the types and the loop positions.
LEMMA LeaseExpiringType ==
  ASSUME TypeOK, Position, NEW t \in Txns, LeaseExpiring(t)
  PROVE  TypeOK' /\ Position'
<1>1. PICK i \in 1 .. NumTables(t) :
        /\ Continue(t, i)
        /\ \/ Goto(t, "abort") /\ UNCHANGED <<log, held>>
           \/ /\ ReplaceOwnMarker(t, Table(t, i), markerVersion[t][Table(t, i)])
              /\ held' = [held EXCEPT ![t] = @ \ {Table(t, i)}]
              /\ Goto(t, "shift")
  BY DEF LeaseExpiring
<1>2. Table(t, i) \in Tables /\ i \in Nat
  BY TableIsATable, NumTablesIsPositive
<1>3. log' \in [Tables -> [Versions -> Objects]]
  BY <1>1, <1>2, ReplaceType DEF TypeOK, MarkerTypes
<1>4. LoadTypes' /\ MarkerTypes'
  <2>1. LoadTypes'
    BY <1>2 DEF LeaseExpiring, TypeOK, LoadTypes
  <2>2. MarkerTypes'
    BY <1>1, <1>2 DEF LeaseExpiring, TypeOK, MarkerTypes
  <2> QED BY <2>1, <2>2
<1>5. SnapTypes' /\ WorkTypes' /\ ConflictTypes' /\ CommitTypes'
  BY DEF LeaseExpiring, TypeOK, SnapTypes, WorkTypes, ConflictTypes, CommitTypes
<1>6. pc' \in [Txns -> Labels \cup Ended] /\ UNCHANGED faults
  BY <1>1 DEF LeaseExpiring, TypeOK, Labels
<1>7. Position'
  BY <1>1 DEF LeaseExpiring, TypeOK, Position, NumTables, LoadTypes
<1> QED BY <1>3, <1>4, <1>5, <1>6, <1>7 DEF TypeOK

\* Shift keeps the types and the loop positions.
LEMMA ShiftType ==
  ASSUME TypeOK, Position, NEW t \in Txns, Shift(t)
  PROVE  TypeOK' /\ Position'
<1> DEFINE x == Current(t)
           old == markerVersion[t][x]
<1>1. x \in Tables /\ old \in Versions
  BY TableIsATable DEF Shift, Position, Current, TypeOK, MarkerTypes
<1>2. PICK v \in Versions :
        /\ WriteLog(x, v, Marker(t))
        /\ markerVersion' = [markerVersion EXCEPT ![t][x] = v]
        /\ prevMarkers' = [prevMarkers EXCEPT ![t] = @ \cup ({x} \X Between(old, v))]
  BY DEF Shift
<1>3. log' \in [Tables -> [Versions -> Objects]]
  BY <1>1, <1>2, ObjectTypes, WriteLogType
<1>4. MarkerTypes'
  BY <1>1, <1>2 DEF Shift, TypeOK, MarkerTypes
<1>5. SnapTypes'
  <2>1. Between(old, v) \in SUBSET Versions
    BY <1>1, ConstantsAssumption DEF Between, Versions
  <2>2. {x} \X Between(old, v) \in SUBSET (Tables \X Versions)
    BY <1>1, <2>1
  <2>3. prevMarkers' \in [Txns -> SUBSET (Tables \X Versions)]
    BY <1>2, <2>2 DEF TypeOK, SnapTypes
  <2> QED BY <2>3 DEF Shift, TypeOK, SnapTypes
<1>6. LoadTypes' /\ CommitTypes'
  BY DEF Shift, TypeOK, LoadTypes, CommitTypes
<1>7. WorkTypes' /\ ConflictTypes'
  BY DEF Shift, TypeOK, WorkTypes, ConflictTypes
<1>8. pc' \in [Txns -> Labels \cup Ended] /\ UNCHANGED faults
  BY DEF Shift, TypeOK, Labels
<1>9. Position'
  BY DEF Shift, TypeOK, Position, NumTables, LoadTypes
<1> QED BY <1>3, <1>4, <1>5, <1>6, <1>7, <1>8, <1>9 DEF TypeOK

\* Both redos: local changes and reads are replaced by those of a run of redo(1).
LEMMA RedoType ==
  ASSUME TypeOK, NEW t \in Txns,
         NEW base \in [Tables -> SUBSET Versions],
         NEW created \in [Tables -> SUBSET Files],
         NEW deleted \in [Tables -> SUBSET Files],
         Redo(t, base, created, deleted), UNCHANGED <<wasRead, steps>>
  PROVE  WorkTypes' /\ ConflictTypes' /\ redoDone' \in SUBSET Txns
<1> DEFINE found(x) == KeyFilesIn(x, base[x])
           done == RedoneSteps(t, base)
           updated == {steps[t][i].table : i \in {j \in done : steps[t][j].op = "update"}}
           touched == {steps[t][i].table : i \in done}
           newFiles(x) == created[x] \cup (IF x \in updated THEN {File(t, redos[t] + 1, TRUE)} ELSE {})
           gone(x) == deleted[x] \cup (IF x \in touched THEN found(x) ELSE {})
           read(x) == IF x \in touched /\ "read" \notin Ops[t][x] THEN base[x] ELSE observed[t][x]
<1>1. /\ createdFiles' = [createdFiles EXCEPT ![t] = [x \in Tables |-> newFiles(x)]]
      /\ deletedFiles' = [deletedFiles EXCEPT ![t] = [x \in Tables |-> gone(x)]]
      /\ observed' = [observed EXCEPT ![t] = [x \in Tables |-> read(x)]]
      /\ redos' = [redos EXCEPT ![t] = @ + 1]
      /\ redoDone' = redoDone \cup {t}
      /\ concurrentChange' = [concurrentChange EXCEPT ![t] = {}]
      /\ concurrentRemoves' = [concurrentRemoves EXCEPT ![t] = NoFiles]
  BY DEF Redo
<1>2. redos \in [Txns -> Nat] /\ redos' \in [Txns -> Nat]
  BY <1>1 DEF TypeOK, WorkTypes
<1> HIDE DEF updated, touched
<1>3. \A x \in Tables : found(x) \in SUBSET Files
  BY LiveFilesType DEF KeyFilesIn
<1>4. \A x \in Tables : newFiles(x) \in SUBSET Files
  <2>1. redos[t] + 1 \in Nat /\ TRUE \in BOOLEAN
    BY DEF TypeOK, WorkTypes
  <2>2. File(t, redos[t] + 1, TRUE) \in Files
    BY <2>1, FileType
  <2> QED BY <2>2
<1>5. \A x \in Tables : gone(x) \in SUBSET Files
  <2> HIDE DEF found
  <2> QED BY <1>3
<1>6. \A x \in Tables : read(x) \in SUBSET Versions
  BY DEF TypeOK, WorkTypes
<1> HIDE DEF newFiles, gone, read
<1>7. createdFiles' \in [Txns -> [Tables -> SUBSET Files]]
  BY <1>1, <1>4 DEF TypeOK, WorkTypes
<1>8. deletedFiles' \in [Txns -> [Tables -> SUBSET Files]]
  BY <1>1, <1>5 DEF TypeOK, WorkTypes
<1>9. observed' \in [Txns -> [Tables -> SUBSET Versions]]
  BY <1>1, <1>6 DEF TypeOK, WorkTypes
<1>10. WorkTypes'
  BY <1>2, <1>7, <1>8, <1>9 DEF TypeOK, WorkTypes
<1>11. NoFiles \in [Tables -> SUBSET Files]
  BY DEF NoFiles
<1>12. ConflictTypes'
  BY <1>1, <1>11 DEF TypeOK, ConflictTypes
<1>13. redoDone' \in SUBSET Txns
  BY <1>1 DEF TypeOK, CommitTypes
<1> QED BY <1>10, <1>12, <1>13

\* FirstRedo keeps the types and the loop positions.
LEMMA FirstRedoType ==
  ASSUME TypeOK, Position, NEW t \in Txns, FirstRedo(t)
  PROVE  TypeOK' /\ Position'
<1>1. /\ seen[t] \in [Tables -> SUBSET Versions]
      /\ createdFiles[t] \in [Tables -> SUBSET Files]
      /\ deletedFiles[t] \in [Tables -> SUBSET Files]
  BY DEF TypeOK, SnapTypes, WorkTypes
<1>2. Redo(t, seen[t], createdFiles[t], deletedFiles[t]) /\ UNCHANGED <<wasRead, steps>>
  BY DEF FirstRedo
<1>3. WorkTypes' /\ ConflictTypes' /\ redoDone' \in SUBSET Txns
  BY <1>1, <1>2, RedoType
<1>4. LoadTypes' /\ MarkerTypes' /\ SnapTypes' /\ CommitTypes'
  BY <1>3 DEF FirstRedo, TypeOK, LoadTypes, MarkerTypes, SnapTypes, CommitTypes
<1>5. pc' \in [Txns -> Labels \cup Ended] /\ UNCHANGED <<log, faults>>
  BY DEF FirstRedo, TypeOK, Labels
<1>6. Position'
  BY DEF FirstRedo, TypeOK, Position, NumTables, LoadTypes
<1> QED BY <1>3, <1>4, <1>5, <1>6 DEF TypeOK

\* RedoAgain keeps the types and the loop positions.
LEMMA RedoAgainType ==
  ASSUME TypeOK, Position, NEW t \in Txns, RedoAgain(t)
  PROVE  TypeOK' /\ Position'
<1>1. /\ BelowMarkers(t) \in [Tables -> SUBSET Versions]
      /\ NoFiles \in [Tables -> SUBSET Files]
  BY DEF BelowMarkers, NoFiles
<1>2. Redo(t, BelowMarkers(t), NoFiles, NoFiles) /\ UNCHANGED <<wasRead, steps>>
  BY DEF RedoAgain
<1>3. WorkTypes' /\ ConflictTypes' /\ redoDone' \in SUBSET Txns
  BY <1>1, <1>2, RedoType
<1>4. SnapTypes'
  BY <1>1 DEF RedoAgain, TypeOK, SnapTypes
<1>5. CommitTypes'
  BY <1>3 DEF RedoAgain, TypeOK, CommitTypes
<1>6. LoadTypes' /\ MarkerTypes'
  BY DEF RedoAgain, TypeOK, LoadTypes, MarkerTypes
<1>7. pc' \in [Txns -> Labels \cup Ended] /\ UNCHANGED <<log, faults>>
  BY DEF RedoAgain, TypeOK, Labels
<1>8. Position'
  BY DEF RedoAgain, TypeOK, Position, NumTables, LoadTypes
<1> QED BY <1>3, <1>4, <1>5, <1>6, <1>7, <1>8 DEF TypeOK

\* WriteCommit keeps the types and the loop positions.
LEMMA WriteCommitType ==
  ASSUME TypeOK, Position, NEW t \in Txns, WriteCommit(t)
  PROVE  TypeOK' /\ Position'
<1>1. PICK i \in 1 .. NumTables(t) :
        LET x == Table(t, i) IN
        /\ WriteLog(x, markerVersion[t][x], Commit(t, createdFiles[t][x], deletedFiles[t][x]))
        /\ held' = [held EXCEPT ![t] = @ \ {x}]
        /\ committed' = [committed EXCEPT ![t] = @ \cup {x}]
        /\ Continue(t, i + 1)
  BY DEF WriteCommit
<1>2. Table(t, i) \in Tables /\ i \in Nat
  BY TableIsATable, NumTablesIsPositive
<1>3. log' \in [Tables -> [Versions -> Objects]]
  <2>1. createdFiles[t][Table(t, i)] \in SUBSET Files /\ deletedFiles[t][Table(t, i)] \in SUBSET Files
    BY <1>2 DEF TypeOK, WorkTypes
  <2>2. Commit(t, createdFiles[t][Table(t, i)], deletedFiles[t][Table(t, i)]) \in Objects
    BY <2>1, ObjectTypes
  <2> QED BY <1>1, <1>2, <2>2, WriteLogType DEF TypeOK, MarkerTypes
<1>4. LoadTypes' /\ MarkerTypes' /\ CommitTypes'
  BY <1>1, <1>2 DEF WriteCommit, TypeOK, LoadTypes, MarkerTypes, CommitTypes
<1>5. SnapTypes' /\ WorkTypes' /\ ConflictTypes'
  BY DEF WriteCommit, TypeOK, SnapTypes, WorkTypes, ConflictTypes
<1>6. UNCHANGED <<faults, pc>> /\ Position'
  BY DEF WriteCommit, TypeOK, Position, NumTables, LoadTypes
<1> QED BY <1>3, <1>4, <1>5, <1>6 DEF TypeOK

\* WriteLost keeps the types and the loop positions.
LEMMA WriteLostType ==
  ASSUME TypeOK, Position, NEW t \in Txns, WriteLost(t)
  PROVE  TypeOK' /\ Position'
<1>1. PICK i \in 1 .. NumTables(t) :
        held' = [held EXCEPT ![t] = @ \ {Table(t, i)}] /\ Continue(t, i)
  BY DEF WriteLost
<1>2. Table(t, i) \in Tables /\ i \in Nat
  BY TableIsATable, NumTablesIsPositive
<1>3. LoadTypes' /\ MarkerTypes'
  BY <1>1, <1>2 DEF WriteLost, TypeOK, LoadTypes, MarkerTypes
<1>4. SnapTypes' /\ WorkTypes' /\ ConflictTypes' /\ CommitTypes'
  BY DEF WriteLost, TypeOK, SnapTypes, WorkTypes, ConflictTypes, CommitTypes
<1>5. pc' \in [Txns -> Labels \cup Ended] /\ UNCHANGED <<log, faults>>
  BY DEF WriteLost, TypeOK, Labels
<1>6. Position'
  BY <1>1 DEF WriteLost, TypeOK, Position, NumTables, LoadTypes
<1> QED BY <1>3, <1>4, <1>5, <1>6 DEF TypeOK

\* WriteFails keeps the types and the loop positions.
LEMMA WriteFailsType ==
  ASSUME TypeOK, Position, NEW t \in Txns, WriteFails(t)
  PROVE  TypeOK' /\ Position'
<1>1. PICK i \in 1 .. NumTables(t) :
        LET x == Table(t, i) IN
        \/ UNCHANGED log
        \/ WriteLog(x, markerVersion[t][x], Commit(t, createdFiles[t][x], deletedFiles[t][x]))
  BY DEF WriteFails
<1>2. Table(t, i) \in Tables
  BY TableIsATable
<1>3. log' \in [Tables -> [Versions -> Objects]]
  <2>1. createdFiles[t][Table(t, i)] \in SUBSET Files /\ deletedFiles[t][Table(t, i)] \in SUBSET Files
    BY <1>2 DEF TypeOK, WorkTypes
  <2>2. Commit(t, createdFiles[t][Table(t, i)], deletedFiles[t][Table(t, i)]) \in Objects
    BY <2>1, ObjectTypes
  <2> QED BY <1>1, <1>2, <2>2, WriteLogType DEF TypeOK, MarkerTypes
<1>4. LoadTypes' /\ MarkerTypes' /\ SnapTypes' /\ WorkTypes' /\ ConflictTypes' /\ CommitTypes'
  BY DEF WriteFails, TypeOK, LoadTypes, MarkerTypes, SnapTypes, WorkTypes,
         ConflictTypes, CommitTypes
<1>5. pc' \in [Txns -> Labels \cup Ended] /\ faults' \in Nat
  BY DEF WriteFails, TypeOK, Labels, Fault
<1>6. Position'
  BY DEF WriteFails, TypeOK, Position, NumTables, LoadTypes
<1> QED BY <1>3, <1>4, <1>5, <1>6 DEF TypeOK

\* Release keeps the types and the loop positions.
LEMMA ReleaseType ==
  ASSUME TypeOK, Position, NEW t \in Txns, Release(t)
  PROVE  TypeOK' /\ Position'
<1>1. PICK i \in 1 .. idx[t] :
        /\ ReplaceOwnMarker(t, Table(t, i), markerVersion[t][Table(t, i)])
        /\ held' = [held EXCEPT ![t] = @ \ {Table(t, i)}]
  BY DEF Release
<1>2. Table(t, i) \in Tables
  BY TableIsATable, NumTablesIsPositive DEF Position
<1>3. log' \in [Tables -> [Versions -> Objects]]
  BY <1>1, <1>2, ReplaceType DEF TypeOK, MarkerTypes
<1>4. MarkerTypes'
  BY <1>1, <1>2 DEF Release, TypeOK, MarkerTypes
<1>5. LoadTypes' /\ SnapTypes' /\ WorkTypes' /\ ConflictTypes' /\ CommitTypes'
  BY DEF Release, TypeOK, LoadTypes, SnapTypes, WorkTypes, ConflictTypes, CommitTypes
<1>6. UNCHANGED <<faults, pc>> /\ Position'
  BY DEF Release, TypeOK, Position, NumTables, LoadTypes
<1> QED BY <1>3, <1>4, <1>5, <1>6 DEF TypeOK

\* ReleaseFails keeps the types and the loop positions.
LEMMA ReleaseFailsType ==
  ASSUME TypeOK, Position, NEW t \in Txns, ReleaseFails(t)
  PROVE  TypeOK' /\ Position'
<1>1. PICK i \in 1 .. idx[t] : held' = [held EXCEPT ![t] = @ \ {Table(t, i)}]
  BY DEF ReleaseFails
<1>2. MarkerTypes'
  BY <1>1 DEF ReleaseFails, TypeOK, MarkerTypes
<1>3. LoadTypes' /\ SnapTypes' /\ WorkTypes' /\ ConflictTypes' /\ CommitTypes'
  BY DEF ReleaseFails, TypeOK, LoadTypes, SnapTypes, WorkTypes, ConflictTypes, CommitTypes
<1>4. UNCHANGED <<log, pc>> /\ faults' \in Nat /\ Position'
  BY DEF ReleaseFails, TypeOK, Position, NumTables, LoadTypes, Fault
<1> QED BY <1>2, <1>3, <1>4 DEF TypeOK

\* The end of a lease touches one marker and nothing else.
LEMMA LeaseEndsType ==
  ASSUME TypeOK, Position, NEW x \in Tables, NEW v \in Versions, LeaseEnds(x, v)
  PROVE  TypeOK' /\ Position'
<1>1. log' \in [Tables -> [Versions -> Objects]]
  <2>1. [log[x][v] EXCEPT !.ended = TRUE] \in Objects
    <3>1. log[x][v] \in Objects
      BY DEF TypeOK
    <3> QED BY <3>1 DEF Objects
  <2>2. log' = [log EXCEPT ![x] = [@ EXCEPT ![v] = [log[x][v] EXCEPT !.ended = TRUE]]]
    BY DEF LeaseEnds
  <2> QED BY <2>1, <2>2 DEF TypeOK
<1>2. UNCHANGED <<faults, pc, txnVars>>
  BY DEF LeaseEnds
<1> QED BY <1>1, <1>2 DEF TypeOK, LoadTypes, MarkerTypes, SnapTypes, WorkTypes,
           ConflictTypes, CommitTypes, Position, NumTables

-----------------------------------------------------------------------------
(* Type correctness *)

\* The initial state of the clients and of the tables they find.
LEMMA InitTypes == Init => TypeOK /\ Position
<1> SUFFICES ASSUME Init PROVE TypeOK /\ Position
  OBVIOUS
<1>1. 0 \in Versions
  BY ConstantsAssumption DEF Versions
<1>2. log \in [Tables -> [Versions -> Objects]]
  <2>1. NoTxn \in Writers
    BY DEF Writers
  <2>2. File(NoTxn, 0, TRUE) \in Files
    BY <2>1 DEF Files, File
  <2>3. Commit(NoTxn, {File(NoTxn, 0, TRUE)}, {}) \in Objects /\ Absent \in Objects
    BY <2>1, <2>2 DEF Commit, Absent, Object, Objects
  <2> QED BY <2>3 DEF Init
<1>3. NoFiles \in [Tables -> SUBSET Files] /\ NoFiles \in [Tables -> SUBSET Versions]
  BY DEF NoFiles
<1>4. LoadTypes /\ MarkerTypes
  BY <1>1 DEF Init, LoadTypes, MarkerTypes
<1>5. SnapTypes
  BY <1>3 DEF Init, SnapTypes
<1>6. WorkTypes
  BY <1>3 DEF Init, WorkTypes
<1>7. ConflictTypes /\ CommitTypes
  BY <1>3 DEF Init, ConflictTypes, CommitTypes
<1>8. faults \in Nat /\ pc \in [Txns -> Labels \cup Ended]
  BY DEF Init, Labels
<1>9. Position
  <2> SUFFICES ASSUME NEW t \in Txns
               PROVE  /\ idx[t] \in 0 .. NumTables(t)
                      /\ pc[t] = "work" => idx[t] >= 1
                      /\ cur[t] \in 1 .. NumTables(t)
    BY DEF Position
  <2>1. idx[t] = 0 /\ cur[t] = 1 /\ pc[t] = "reserve"
    BY DEF Init
  <2> QED BY <2>1, NumTablesIsPositive
<1> QED BY <1>2, <1>4, <1>5, <1>6, <1>7, <1>8, <1>9 DEF TypeOK

\* Every step keeps the types and the loop positions.
LEMMA NextTypes ==
  ASSUME TypeOK, Position, [Next]_vars
  PROVE  TypeOK' /\ Position'
<1>1. CASE UNCHANGED vars
  BY <1>1 DEF vars, TypeOK, LoadTypes, MarkerTypes, SnapTypes, WorkTypes,
              ConflictTypes, CommitTypes, Position, NumTables
<1>2. ASSUME NEW t \in Txns, Step(t)
      PROVE  TypeOK' /\ Position'
  <2>1. CASE Opening(t)
    BY <2>1, ReserveType, ReleaseReplacedType, ParseLogEntryType,
       TableLoadedType, WorkType DEF Opening
  <2>2. CASE Waiting(t)
    BY <2>2, WaitType, TakeOverType DEF Waiting
  <2>3. CASE Leasing(t)
    BY <2>3, LeaseHoldsType, LeaseExpiringType, ShiftType, LeasesCheckedType
       DEF Leasing
  <2>4. CASE Validating(t)
    BY <2>4, ValidateAsIsType, FirstRedoType, RedoAgainType, RoundsUsedUpType,
       RedoneType DEF Validating
  <2>5. CASE Writing(t)
    BY <2>5, WriteCommitType, WriteLostType, AllWrittenType DEF Writing
  <2>6. CASE Releasing(t)
    BY <2>6, ReleaseType, ReleasedType DEF Releasing
  <2> QED BY <1>2, <2>1, <2>2, <2>3, <2>4, <2>5, <2>6 DEF Step
<1>3. ASSUME NEW t \in Txns, StorageError(t)
      PROVE  TypeOK' /\ Position'
  BY <1>3, ReserveResponseLostType, LoadFailsType, WaitMissesOneType,
     GiveUpWaitingType, WriteFailsType, ReleaseFailsType, RebuildFailsType
     DEF StorageError
<1>4. ASSUME NEW t \in Txns, Crash(t)
      PROVE  TypeOK' /\ Position'
  BY <1>4, CrashType
<1>5. ASSUME NEW x \in Tables, NEW v \in Versions, LeaseEnds(x, v)
      PROVE  TypeOK' /\ Position'
  BY <1>5, LeaseEndsType
<1>6. CASE AllEnded
  BY <1>1, <1>6 DEF AllEnded
<1> QED BY <1>1, <1>2, <1>3, <1>4, <1>5, <1>6 DEF Next

\* Every variable keeps its type, for any number of transactions, tables and
\* versions.  Position is needed because a loop position that leaves
\* this->tables would make Current(t) no table at all.
THEOREM TypeCorrect == Spec => [](TypeOK /\ Position)
BY InitTypes, NextTypes, PTL DEF Spec

-----------------------------------------------------------------------------
(* The log: what a step can do to it *)

Exists(x, v) == log[x][v].kind # "absent"

\* What a step of t, or of time, may do to the log
LogStep(t) ==
  \/ UNCHANGED log
  \/ \E x \in Tables, v \in Versions :
       /\ ~Exists(x, v)
       /\ \A w \in Versions : w < v => Exists(x, w)
       /\ WriteLog(x, v, Marker(t))
  \/ \E x \in Tables, v \in Versions :
       log[x][v].kind = "marker" /\ WriteLog(x, v, EmptyCommit)
  \/ \E x \in Tables, v \in Versions, a, r \in SUBSET Files :
       IsMarkerOf(x, v, t) /\ WriteLog(x, v, Commit(t, a, r))
  \/ \E x \in Tables, v \in Versions :
       log[x][v].kind = "marker" /\ log' = [log EXCEPT ![x][v].ended = TRUE]

\* The parts of the inductive invariant that speak of the log alone ...
LogInv ==
  /\ LogHasNoGaps
  /\ \A x \in Tables : Exists(x, 0)
  /\ \A x \in Tables, v \in Versions : ~Exists(x, v) => log[x][v] = Absent

\* ... and those that relate it to a transaction t: the version it reserved
\* last exists; while it loads a table it holds the marker of that table; what
\* it holds is its marker or was taken over.
ReservedExists(t) == \A x \in Tables : Exists(x, markerVersion[t][x])
LoadsHeld(t) == pc[t] \in {"replace", "parse"} => Current(t) \in held[t]
Over(t) == pc[t] \in {"abort", "aborted", "crashed"}
HoldsOurs(t) ==
  \A x \in Tables : x \in held[t] =>
    LET v == markerVersion[t][x] IN
    \/ IsMarkerOf(x, v, t)
    \/ log[x][v] = EmptyCommit
    \/ Over(t) /\ v \in CommitsOf(t, x)

IInv ==
  /\ TypeOK /\ Position /\ LogInv
  /\ \A t \in Txns : ReservedExists(t) /\ LoadsHeld(t) /\ HoldsOurs(t)

\* The other transactions' variables stay.
OnlyOf(t) ==
  \A u \in Txns \ {t} : /\ pc'[u] = pc[u] /\ cur'[u] = cur[u]
                        /\ held'[u] = held[u]
                        /\ markerVersion'[u] = markerVersion[u]

\* A log step keeps the form of the log, every version that exists, and the
\* content of every final one.
LEMMA LogStepKeepsLog ==
  ASSUME TypeOK, LogInv, NEW t \in Writers, LogStep(t)
  PROVE  /\ LogInv'
         /\ \A x \in Tables, v \in Versions : Exists(x, v) => Exists(x, v)'
         /\ \A x \in Tables, v \in Versions : Final(x, v) => log'[x][v] = log[x][v]
<1>1. CASE UNCHANGED log
  BY <1>1 DEF LogInv, LogHasNoGaps, Exists, Final
<1>2. ASSUME NEW x \in Tables, NEW v \in Versions, NEW o \in Objects,
             WriteLog(x, v, o), o.kind # "absent",
             Exists(x, v) \/ \A w \in Versions : w < v => Exists(x, w),
             ~Final(x, v)
      PROVE  /\ LogInv'
             /\ \A y \in Tables, w \in Versions : Exists(y, w) => Exists(y, w)'
             /\ \A y \in Tables, w \in Versions : Final(y, w) => log'[y][w] = log[y][w]
  <2>1. \A y \in Tables, w \in Versions :
          log'[y][w] = IF y = x /\ w = v THEN o ELSE log[y][w]
    BY <1>2 DEF WriteLog, TypeOK
  <2>2. \A y \in Tables, w \in Versions : Exists(y, w) => Exists(y, w)'
    BY <1>2, <2>1 DEF Exists
  <2>3. \A y \in Tables, w \in Versions : Final(y, w) => log'[y][w] = log[y][w]
    BY <1>2, <2>1
  <2>4. LogHasNoGaps'
    BY <1>2, <2>1, <2>2 DEF LogInv, LogHasNoGaps, Exists
  <2>5. 0 \in Versions
    BY ConstantsAssumption DEF Versions
  <2>6. LogInv'
    BY <1>2, <2>1, <2>2, <2>4, <2>5 DEF LogInv, Exists
  <2> QED BY <2>2, <2>3, <2>6
<1>3. ASSUME NEW x \in Tables, NEW v \in Versions, NEW a \in SUBSET Files, NEW r \in SUBSET Files
      PROVE  /\ Marker(t) \in Objects /\ Marker(t).kind = "marker"
             /\ EmptyCommit \in Objects /\ EmptyCommit.kind = "empty"
             /\ Commit(t, a, r) \in Objects /\ Commit(t, a, r).kind = "commit"
             /\ log[x][v].kind = "marker" => Exists(x, v) /\ ~Final(x, v)
             /\ ~Exists(x, v) => ~Final(x, v)
  BY DEF Marker, EmptyCommit, Commit, Object, Objects, Writers, Exists, Final
<1>4. CASE \E x \in Tables, v \in Versions :
             /\ ~Exists(x, v)
             /\ \A w \in Versions : w < v => Exists(x, w)
             /\ WriteLog(x, v, Marker(t))
  BY <1>2, <1>3, <1>4
<1>5. CASE \E x \in Tables, v \in Versions :
             log[x][v].kind = "marker" /\ WriteLog(x, v, EmptyCommit)
  BY <1>2, <1>3, <1>5
<1>6. CASE \E x \in Tables, v \in Versions, a, r \in SUBSET Files :
             IsMarkerOf(x, v, t) /\ WriteLog(x, v, Commit(t, a, r))
  BY <1>2, <1>3, <1>6 DEF IsMarkerOf
<1>7. CASE \E x \in Tables, v \in Versions :
             log[x][v].kind = "marker" /\ log' = [log EXCEPT ![x][v].ended = TRUE]
  <2>1. PICK x \in Tables, v \in Versions :
          log[x][v].kind = "marker" /\ log' = [log EXCEPT ![x][v].ended = TRUE]
    BY <1>7
  <2>2. log[x][v] \in Objects
    BY DEF TypeOK
  <2>3. [log[x][v] EXCEPT !.ended = TRUE] \in Objects
        /\ [log[x][v] EXCEPT !.ended = TRUE].kind = "marker"
    BY <2>1, <2>2 DEF Objects
  <2>4. WriteLog(x, v, [log[x][v] EXCEPT !.ended = TRUE])
    BY <2>1 DEF WriteLog
  <2> QED BY <1>2, <1>3, <2>1, <2>3, <2>4
<1> QED BY <1>1, <1>4, <1>5, <1>6, <1>7 DEF LogStep

-----------------------------------------------------------------------------
(* What one step of a transaction does to the log and to its own markers *)

Effect(t) == /\ OnlyOf(t) /\ LogStep(t)
             /\ ReservedExists(t)' /\ LoadsHeld(t)' /\ HoldsOurs(t)'

\* The requirement of FirstFree, with the versions below the start of the
\* search, is that of an append to the log.
LEMMA FirstFreeIsNext ==
  ASSUME LogInv, NEW x \in Tables, NEW after \in Versions, NEW v \in Versions,
         Exists(x, after), FirstFree(x, after, v)
  PROVE  ~Exists(x, v) /\ \A w \in Versions : w < v => Exists(x, w)
<1>1. \A w \in Versions : w < after => Exists(x, w)
  BY DEF LogInv, LogHasNoGaps, Exists
<1>2. \A w \in Versions : w \in Nat
  BY ConstantsAssumption DEF Versions
<1> QED BY <1>1, <1>2 DEF FirstFree, Exists

\* What becomes of a marker: it stays, it is given up, or its owner commits.
LEMMA MarkerFate ==
  ASSUME TypeOK, NEW t \in Txns, NEW u \in Txns, NEW x \in Tables, NEW v \in Versions,
         IsMarkerOf(x, v, u), LogStep(t)
  PROVE  \/ IsMarkerOf(x, v, u)'
         \/ log'[x][v] = EmptyCommit
         \/ u = t /\ log'[x][v].kind = "commit" /\ log'[x][v].by = t
<1>1. \A y \in Tables, w \in Versions : \A o :
        WriteLog(y, w, o) => log'[x][v] = IF y = x /\ w = v THEN o ELSE log[x][v]
  BY DEF WriteLog, TypeOK
<1>2. CASE UNCHANGED log
  BY <1>2 DEF IsMarkerOf
<1>3. CASE \E y \in Tables, w \in Versions :
             /\ ~Exists(y, w)
             /\ \A z \in Versions : z < w => Exists(y, z)
             /\ WriteLog(y, w, Marker(t))
  BY <1>1, <1>3 DEF IsMarkerOf, Exists
<1>4. CASE \E y \in Tables, w \in Versions :
             log[y][w].kind = "marker" /\ WriteLog(y, w, EmptyCommit)
  BY <1>1, <1>4 DEF IsMarkerOf
<1>5. CASE \E y \in Tables, w \in Versions, a, r \in SUBSET Files :
             IsMarkerOf(y, w, t) /\ WriteLog(y, w, Commit(t, a, r))
  <2>1. \A a, r : Commit(t, a, r).kind = "commit" /\ Commit(t, a, r).by = t
    BY DEF Commit, Object
  <2> QED BY <1>1, <1>5, <2>1 DEF IsMarkerOf
<1>6. CASE \E y \in Tables, w \in Versions :
             log[y][w].kind = "marker" /\ log' = [log EXCEPT ![y][w].ended = TRUE]
  <2>1. PICK y \in Tables, w \in Versions :
          log' = [log EXCEPT ![y][w].ended = TRUE]
    BY <1>6
  <2>2. log[x][v] \in Objects
    BY DEF TypeOK
  <2>3. WriteLog(y, w, [log[y][w] EXCEPT !.ended = TRUE])
    BY <2>1 DEF WriteLog
  <2>4. /\ [log[x][v] EXCEPT !.ended = TRUE].kind = log[x][v].kind
        /\ [log[x][v] EXCEPT !.ended = TRUE].by = log[x][v].by
    BY <2>2 DEF Objects
  <2> QED BY <1>1, <2>3, <2>4 DEF IsMarkerOf
<1> QED BY <1>2, <1>3, <1>4, <1>5, <1>6 DEF LogStep

\* A transaction keeps what it held, less what it dropped, in every step in
\* which it reserves nothing and stops counting on what it commits.
LEMMA KeepsHolding ==
  ASSUME IInv, NEW t \in Txns, NEW u \in Txns, LogStep(u),
         markerVersion'[t] = markerVersion[t],
         held'[t] \subseteq held[t],
         Over(t) => Over(t)',
         \A x \in held'[t] :
           /\ IsMarkerOf(x, markerVersion[t][x], t)
           /\ log'[x][markerVersion[t][x]].kind = "commit"
           => Over(t)'
  PROVE  ReservedExists(t)' /\ HoldsOurs(t)'
<1>1. /\ TypeOK /\ LogInv /\ ReservedExists(t) /\ HoldsOurs(t)
      /\ \A x \in Tables : markerVersion[t][x] \in Versions
      /\ u \in Writers
  BY DEF IInv, TypeOK, MarkerTypes, Writers
<1>2. ReservedExists(t)'
  BY <1>1, LogStepKeepsLog DEF ReservedExists
<1>3. SUFFICES ASSUME NEW x \in Tables, x \in held'[t]
               PROVE  \/ IsMarkerOf(x, markerVersion[t][x], t)'
                      \/ log'[x][markerVersion[t][x]] = EmptyCommit
                      \/ Over(t)' /\ markerVersion[t][x] \in CommitsOf(t, x)'
  BY <1>2 DEF HoldsOurs, IsMarkerOf
<1> DEFINE v == markerVersion[t][x]
<1>4. v \in Versions /\ x \in held[t]
  BY <1>1, <1>3
<1>5. CASE Final(x, v)
  <2>1. log'[x][v] = log[x][v]
    BY <1>1, <1>4, <1>5, LogStepKeepsLog
  <2> QED BY <1>1, <1>4, <1>5, <2>1 DEF HoldsOurs, IsMarkerOf, Final, CommitsOf, Commits
<1>6. CASE IsMarkerOf(x, v, t)
  <2>1. CASE u = t /\ log'[x][v].kind = "commit" /\ log'[x][v].by = t
    BY <1>3, <1>4, <1>6, <2>1 DEF CommitsOf, Commits
  <2> QED BY <1>1, <1>4, <1>6, <2>1, MarkerFate
<1>7. Final(x, v) \/ IsMarkerOf(x, v, t)
  <2>1. EmptyCommit.kind = "empty"
    BY DEF EmptyCommit, Object
  <2> QED BY <1>1, <1>4, <2>1 DEF HoldsOurs, Final, CommitsOf, Commits
<1> QED BY <1>5, <1>6, <1>7

\* Steps that leave the log alone and reserve nothing
Quiet(t) == \/ ParseLogEntry(t) \/ TableLoaded(t) \/ Work(t) \/ Wait(t)
            \/ WaitMissesOne(t) \/ GiveUpWaiting(t) \/ LeaseHolds(t)
            \/ LeasesChecked(t) \/ ValidateAsIs(t) \/ FirstRedo(t)
            \/ RedoAgain(t) \/ RoundsUsedUp(t) \/ RebuildFails(t) \/ Redone(t)
            \/ WriteLost(t) \/ AllWritten(t) \/ ReleaseFails(t) \/ Released(t)
            \/ Crash(t)

\* A quiet step only drops what the transaction holds, if anything.
LEMMA QuietEffect ==
  ASSUME IInv, NEW t \in Txns, Quiet(t)
  PROVE  Effect(t)
<1> DEFINE Harmless == /\ UNCHANGED <<log, markerVersion>>
                       /\ held'[t] \subseteq held[t]
                       /\ Over(t) => Over(t)'
                       /\ LoadsHeld(t)'
                       /\ OnlyOf(t)
<1> USE DEF IInv, TypeOK, LoadTypes, MarkerTypes, Over, LoadsHeld, Current, OnlyOf
<1>1. ParseLogEntry(t) => Harmless
  BY DEF ParseLogEntry
<1>2. TableLoaded(t) => Harmless
  BY DEF TableLoaded, LoadedAll
<1>3. Work(t) => Harmless
  BY DEF Work
<1>4. Wait(t) => Harmless
  BY DEF Wait, WaitPass
<1>5. WaitMissesOne(t) => Harmless
  BY DEF WaitMissesOne, WaitPass
<1>6. GiveUpWaiting(t) => Harmless
  BY DEF GiveUpWaiting
<1>7. LeaseHolds(t) => Harmless
  BY DEF LeaseHolds
<1>8. LeasesChecked(t) => Harmless
  BY DEF LeasesChecked
<1>9. ValidateAsIs(t) => Harmless
  BY DEF ValidateAsIs, StartWriting
<1>10. FirstRedo(t) => Harmless
  BY DEF FirstRedo
<1>11. RedoAgain(t) => Harmless
  BY DEF RedoAgain
<1>12. RoundsUsedUp(t) => Harmless
  BY DEF RoundsUsedUp, RedoImpossible
<1>13. RebuildFails(t) => Harmless
  BY DEF RebuildFails, RedoImpossible
<1>14. Redone(t) => Harmless
  BY DEF Redone, StartWriting
<1>15. WriteLost(t) => Harmless
  BY DEF WriteLost
<1>16. AllWritten(t) => Harmless
  BY DEF AllWritten
<1>17. ReleaseFails(t) => Harmless
  BY DEF ReleaseFails
<1>18. Released(t) => Harmless
  BY DEF Released
<1>19. Crash(t) => Harmless
  BY DEF Crash, Ended
<1>20. Harmless
  BY <1>1, <1>2, <1>3, <1>4, <1>5, <1>6, <1>7, <1>8, <1>9, <1>10, <1>11, <1>12, <1>13, <1>14, <1>15, <1>16, <1>17, <1>18, <1>19 DEF Quiet
<1> HIDE DEF IInv, TypeOK, LoadTypes, MarkerTypes, Over, LoadsHeld, Current, OnlyOf
<1>21. LogStep(t)
  BY <1>20 DEF LogStep
<1>22. \A x \in held'[t] : ~(/\ IsMarkerOf(x, markerVersion[t][x], t)
                             /\ log'[x][markerVersion[t][x]].kind = "commit")
  BY <1>20 DEF IsMarkerOf
<1> QED BY <1>20, <1>21, <1>22, KeepsHolding DEF Effect

-----------------------------------------------------------------------------
(* The steps that change the log *)

\* A new marker: by Reserve in any table, by Shift above the old one.
LEMMA ReservesNext ==
  ASSUME IInv, NEW t \in Txns, NEW x \in Tables, NEW v \in Versions,
         NEW after \in {0, markerVersion[t][x]},
         FirstFree(x, after, v), WriteLog(x, v, Marker(t))
  PROVE  /\ LogStep(t)
         /\ log'[x][v] = Marker(t)
         /\ \A y \in Tables, w \in Versions : y # x => log'[y][w] = log[y][w]
<1>1. after \in Versions /\ Exists(x, after)
  <2>1. 0 \in Versions
    BY ConstantsAssumption DEF Versions
  <2>2. CASE after = 0
    BY <2>1, <2>2 DEF IInv, LogInv
  <2>3. CASE after = markerVersion[t][x]
    BY <2>3 DEF IInv, TypeOK, MarkerTypes, ReservedExists
  <2> QED BY <2>2, <2>3
<1>2. ~Exists(x, v) /\ \A w \in Versions : w < v => Exists(x, w)
  BY <1>1, FirstFreeIsNext DEF IInv
<1> QED BY <1>2 DEF LogStep, WriteLog, IInv, TypeOK

\* After a reservation the transaction holds its new marker and what it held.
LEMMA NewMarkerEffect ==
  ASSUME IInv, NEW t \in Txns, NEW x \in Tables, NEW v \in Versions,
         NEW after \in {0, markerVersion[t][x]},
         FirstFree(x, after, v), WriteLog(x, v, Marker(t)),
         markerVersion' = [markerVersion EXCEPT ![t][x] = v],
         held' = [held EXCEPT ![t] = @ \cup {x}],
         ~Over(t), LoadsHeld(t)', OnlyOf(t)
  PROVE  Effect(t)
<1>1. TypeOK /\ LogInv /\ ReservedExists(t) /\ HoldsOurs(t)
  BY DEF IInv
<1>2. /\ LogStep(t)
      /\ log'[x][v] = Marker(t)
      /\ \A y \in Tables, w \in Versions : y # x => log'[y][w] = log[y][w]
  BY ReservesNext
<1>3. /\ held'[t] = held[t] \cup {x}
      /\ markerVersion'[t][x] = v
      /\ \A y \in Tables : y # x => markerVersion'[t][y] = markerVersion[t][y]
      /\ \A y \in Tables : markerVersion[t][y] \in Versions
  BY <1>1 DEF TypeOK, MarkerTypes
<1>4. Marker(t).kind = "marker" /\ Marker(t).by = t
  BY DEF Marker, Object
<1>5. ASSUME NEW y \in Tables
      PROVE  Exists(y, markerVersion[t][y])'
  <2>1. CASE y = x
    BY <1>2, <1>3, <1>4, <2>1 DEF Exists
  <2>2. CASE y # x
    BY <1>1, <1>2, <1>3, <2>2 DEF Exists, ReservedExists
  <2> QED BY <2>1, <2>2
<1>6. ASSUME NEW y \in Tables, y \in held'[t]
      PROVE  IsMarkerOf(y, markerVersion[t][y], t)'
             \/ log'[y][markerVersion'[t][y]] = EmptyCommit
  <2>1. CASE y = x
    BY <1>2, <1>3, <1>4, <2>1 DEF IsMarkerOf
  <2>2. CASE y # x
    <3>1. y \in held[t]
      BY <1>3, <1>6, <2>2
    <3>2. IsMarkerOf(y, markerVersion[t][y], t) \/ log[y][markerVersion[t][y]] = EmptyCommit
      BY <1>1, <3>1 DEF HoldsOurs
    <3> QED BY <1>2, <1>3, <2>2, <3>2 DEF IsMarkerOf
  <2> QED BY <2>1, <2>2
<1>7. ReservedExists(t)'
  BY <1>5 DEF ReservedExists
<1>8. HoldsOurs(t)'
  BY <1>6 DEF HoldsOurs
<1> QED BY <1>2, <1>7, <1>8 DEF Effect

\* load_table reserves the first free version ...
LEMMA ReserveEffect ==
  ASSUME IInv, NEW t \in Txns, Reserve(t)
  PROVE  Effect(t)
<1> DEFINE x == Current(t)
<1>1. x \in Tables
  BY TableIsATable DEF IInv, Position, Reserve, Current
<1>2. PICK v \in Versions :
        /\ FirstFree(x, 0, v)
        /\ WriteLog(x, v, Marker(t))
        /\ markerVersion' = [markerVersion EXCEPT ![t][x] = v]
  BY DEF Reserve
<1>3. held' = [held EXCEPT ![t] = @ \cup {x}]
  BY DEF Reserve
<1>4. ~Over(t)
  BY DEF Reserve, Over
<1>5. LoadsHeld(t)'
  BY <1>3 DEF Reserve, LoadsHeld, Current, IInv, TypeOK, MarkerTypes
<1>6. OnlyOf(t)
  BY DEF Reserve, OnlyOf, IInv, TypeOK, MarkerTypes
<1> QED BY <1>1, <1>2, <1>3, <1>4, <1>5, <1>6, NewMarkerEffect

\* ... and shift_marker the first one above its old version.
LEMMA ShiftEffect ==
  ASSUME IInv, NEW t \in Txns, Shift(t)
  PROVE  Effect(t)
<1> DEFINE x == Current(t)
<1>1. x \in Tables
  BY TableIsATable DEF IInv, Position, Shift, Current
<1>2. PICK v \in Versions :
        /\ FirstFree(x, markerVersion[t][x], v)
        /\ WriteLog(x, v, Marker(t))
        /\ markerVersion' = [markerVersion EXCEPT ![t][x] = v]
  BY DEF Shift
<1>3. held' = [held EXCEPT ![t] = @ \cup {x}]
  BY DEF Shift
<1>4. /\ pc[t] \in {"shift", "shiftLost"}
      /\ pc' = [pc EXCEPT ![t] = "lease"] \/ pc' = [pc EXCEPT ![t] = "wait"]
      /\ cur' = [cur EXCEPT ![t] = cur[t] + 1] \/ UNCHANGED cur
  BY DEF Shift
<1>5. ~Over(t) /\ LoadsHeld(t)'
  BY <1>4 DEF Over, LoadsHeld, IInv, TypeOK
<1>6. OnlyOf(t)
  BY <1>2, <1>3, <1>4 DEF OnlyOf, IInv, TypeOK, MarkerTypes, LoadTypes
<1> QED BY <1>1, <1>2, <1>3, <1>5, <1>6, NewMarkerEffect

\* Steps that replace one marker, or none, and reserve nothing
LEMMA ReplaceIsLogStep ==
  ASSUME NEW t \in Txns, NEW x \in Tables, NEW v \in Versions,
         ReplaceOwnMarker(t, x, v)
  PROVE  LogStep(t) /\ (UNCHANGED log \/ WriteLog(x, v, EmptyCommit))
BY DEF ReplaceOwnMarker, LogStep, WriteLog, IsMarkerOf

\* A step of t that commits nothing t still holds
LEMMA DropsOnly ==
  ASSUME IInv, NEW t \in Txns, LogStep(t), OnlyOf(t), LoadsHeld(t)',
         markerVersion'[t] = markerVersion[t], held'[t] \subseteq held[t], ~Over(t) \/ Over(t)',
         \/ Over(t)'
         \/ UNCHANGED log
         \/ \E x \in Tables, v \in Versions, o \in Objects :
              /\ WriteLog(x, v, o)
              /\ o.kind # "commit" \/ x \notin held'[t]
  PROVE  Effect(t)
<1>1. \A x \in held'[t] :
        /\ IsMarkerOf(x, markerVersion[t][x], t)
        /\ log'[x][markerVersion[t][x]].kind = "commit"
        => Over(t)'
  <2>1. CASE Over(t)'
    BY <2>1
  <2>2. CASE UNCHANGED log
    BY <2>2 DEF IsMarkerOf
  <2>3. ASSUME NEW x \in Tables, NEW v \in Versions, NEW o \in Objects,
               WriteLog(x, v, o), o.kind # "commit" \/ x \notin held'[t]
        PROVE  \A y \in held'[t] : ~(/\ IsMarkerOf(y, markerVersion[t][y], t)
                                     /\ log'[y][markerVersion[t][y]].kind = "commit")
    <3>1. /\ \A y \in held'[t] : y \in Tables /\ markerVersion[t][y] \in Versions
          /\ log \in [Tables -> [Versions -> Objects]]
      BY DEF IInv, TypeOK, MarkerTypes
    <3> QED BY <2>3, <3>1 DEF WriteLog, IsMarkerOf
  <2> QED BY <2>1, <2>2, <2>3
<1> QED BY <1>1, KeepsHolding DEF Effect


\* The object of a released version is no commit.
LEMMA ReleasesEmpty ==
  EmptyCommit \in Objects /\ EmptyCommit.kind = "empty" /\ EmptyCommit.kind # "commit"
BY DEF EmptyCommit, Object, Objects, Writers

\* A marker nobody holds appears; the transaction's own are untouched.
LEMMA ReserveResponseLostEffect ==
  ASSUME IInv, NEW t \in Txns, ReserveResponseLost(t)
  PROVE  Effect(t)
<1> DEFINE x == Current(t)
           after == IF pc[t] = "reserve" THEN 0 ELSE markerVersion[t][x]
<1>1. x \in Tables
  BY TableIsATable DEF IInv, Position, ReserveResponseLost, Current
<1>2. PICK v \in Versions : FirstFree(x, after, v) /\ WriteLog(x, v, Marker(t))
  BY DEF ReserveResponseLost
<1>3. LogStep(t)
  <2>1. after \in {0, markerVersion[t][x]}
    OBVIOUS
  <2> QED BY <1>1, <1>2, <2>1, ReservesNext
<1>4. Marker(t) \in Objects /\ Marker(t).kind # "commit"
  BY ObjectTypes DEF Marker, Object
<1>5. UNCHANGED <<pc, cur, held, markerVersion>>
  BY DEF ReserveResponseLost
<1>6. OnlyOf(t) /\ LoadsHeld(t)' /\ (Over(t) => Over(t)')
  BY <1>5 DEF OnlyOf, LoadsHeld, Over, Current, IInv
<1> QED BY <1>1, <1>2, <1>3, <1>4, <1>5, <1>6, DropsOnly

\* The marker of before the reload is given up, not the new one.
LEMMA ReleaseReplacedEffect ==
  ASSUME IInv, NEW t \in Txns, ReleaseReplaced(t)
  PROVE  Effect(t)
<1>1. Current(t) \in Tables /\ replaced[t] \in Versions
  BY TableIsATable DEF IInv, Position, ReleaseReplaced, Current, TypeOK, LoadTypes
<1>2. LogStep(t) /\ (UNCHANGED log \/ WriteLog(Current(t), replaced[t], EmptyCommit))
  BY <1>1, ReplaceIsLogStep DEF ReleaseReplaced
<1>3. /\ UNCHANGED <<cur, held, markerVersion>>
      /\ pc[t] = "replace" /\ pc' = [pc EXCEPT ![t] = "parse"]
  BY DEF ReleaseReplaced
<1>4. OnlyOf(t) /\ LoadsHeld(t)' /\ ~Over(t)
  BY <1>3 DEF OnlyOf, LoadsHeld, Over, Current, IInv, TypeOK
<1> QED BY <1>1, <1>2, <1>3, <1>4, ReleasesEmpty, DropsOnly

\* The unconditional write of a failed open hits its own marker, or the empty
\* commit of a waiter that took it over: the reader still holds the version.
LEMMA LoadFailsEffect ==
  ASSUME IInv, NEW t \in Txns, LoadFails(t)
  PROVE  Effect(t)
<1> DEFINE x == Current(t)
           v == markerVersion[t][x]
<1>1. x \in Tables /\ v \in Versions /\ pc[t] = "parse"
  BY TableIsATable DEF IInv, Position, LoadFails, Current, TypeOK, MarkerTypes
<1>2. /\ \/ UNCHANGED <<log, held>>
         \/ WriteLog(x, v, EmptyCommit) /\ held' = [held EXCEPT ![t] = @ \ {x}]
      /\ UNCHANGED markerVersion
      /\ cur' = [cur EXCEPT ![t] = 1] \/ UNCHANGED cur
      /\ \E l \in {"reserve", "yield", "wait"} : pc' = [pc EXCEPT ![t] = l]
  BY DEF LoadFails
<1>3. LogStep(t)
  <2>1. CASE UNCHANGED log
    BY <2>1 DEF LogStep
  <2>2. CASE WriteLog(x, v, EmptyCommit)
    <3>1. IsMarkerOf(x, v, t) \/ log[x][v] = EmptyCommit
      BY <1>1 DEF IInv, LoadsHeld, HoldsOurs, Over
    <3>2. CASE IsMarkerOf(x, v, t)
      BY <1>1, <2>2, <3>2 DEF LogStep, IsMarkerOf
    <3>3. CASE log[x][v] = EmptyCommit
      <4>1. log' = log
        BY <1>1, <2>2, <3>3 DEF WriteLog, IInv, TypeOK
      <4> QED BY <4>1 DEF LogStep
    <3> QED BY <3>1, <3>2, <3>3
  <2> QED BY <1>2, <2>1, <2>2
<1>4. OnlyOf(t) /\ LoadsHeld(t)' /\ ~Over(t)
  BY <1>1, <1>2 DEF OnlyOf, LoadsHeld, Over, IInv, TypeOK, MarkerTypes, LoadTypes
<1>5. held'[t] \subseteq held[t] /\ markerVersion'[t] = markerVersion[t]
  BY <1>2 DEF IInv, TypeOK, MarkerTypes
<1> QED BY <1>1, <1>2, <1>3, <1>4, <1>5, ReleasesEmpty, DropsOnly

\* The takeover of another marker (or of the own one) leaves an empty commit.
LEMMA TakeOverEffect ==
  ASSUME IInv, NEW t \in Txns, TakeOver(t)
  PROVE  Effect(t)
<1>1. PICK p \in prevMarkers[t] :
        Overdue(p[1], p[2]) /\ WriteLog(p[1], p[2], EmptyCommit)
  BY DEF TakeOver
<1>2. p[1] \in Tables /\ p[2] \in Versions
  BY DEF IInv, TypeOK, SnapTypes
<1>3. LogStep(t)
  BY <1>1, <1>2 DEF LogStep, Overdue
<1>4. UNCHANGED <<pc, cur, held, markerVersion>>
  BY DEF TakeOver
<1>5. OnlyOf(t) /\ LoadsHeld(t)' /\ (Over(t) => Over(t)')
  BY <1>4 DEF OnlyOf, LoadsHeld, Over, Current, IInv
<1> QED BY <1>1, <1>2, <1>3, <1>4, <1>5, ReleasesEmpty, DropsOnly

\* shift_marker releases before it reserves.
LEMMA LeaseExpiringEffect ==
  ASSUME IInv, NEW t \in Txns, LeaseExpiring(t)
  PROVE  Effect(t)
<1>1. PICK i \in 1 .. NumTables(t) :
        \/ UNCHANGED <<log, held>>
        \/ /\ ReplaceOwnMarker(t, Table(t, i), markerVersion[t][Table(t, i)])
           /\ held' = [held EXCEPT ![t] = @ \ {Table(t, i)}]
  BY DEF LeaseExpiring
<1> DEFINE x == Table(t, i)
           v == markerVersion[t][x]
<1>2. x \in Tables /\ v \in Versions
  BY TableIsATable DEF IInv, TypeOK, MarkerTypes
<1>3. /\ UNCHANGED markerVersion
      /\ pc[t] = "lease"
      /\ \E l \in {"abort", "shift"} : pc' = [pc EXCEPT ![t] = l]
      /\ \E j : cur' = [cur EXCEPT ![t] = j]
  BY DEF LeaseExpiring
<1>4. LogStep(t) /\ (UNCHANGED log \/ WriteLog(x, v, EmptyCommit))
  <2>1. CASE UNCHANGED log
    BY <2>1 DEF LogStep
  <2>2. CASE ReplaceOwnMarker(t, x, v)
    BY <1>2, <2>2, ReplaceIsLogStep
  <2> QED BY <1>1, <2>1, <2>2
<1>5. OnlyOf(t) /\ LoadsHeld(t)' /\ ~Over(t) /\ held'[t] \subseteq held[t]
  BY <1>1, <1>3 DEF OnlyOf, LoadsHeld, Over, IInv, TypeOK, MarkerTypes, LoadTypes
<1> QED BY <1>2, <1>3, <1>4, <1>5, ReleasesEmpty, DropsOnly

\* t stops counting on the version it commits.
LEMMA WriteCommitEffect ==
  ASSUME IInv, NEW t \in Txns, WriteCommit(t)
  PROVE  Effect(t)
<1>1. PICK i \in 1 .. NumTables(t) :
        LET x == Table(t, i)
            v == markerVersion[t][x] IN
        /\ IsMarkerOf(x, v, t)
        /\ WriteLog(x, v, Commit(t, createdFiles[t][x], deletedFiles[t][x]))
        /\ held' = [held EXCEPT ![t] = @ \ {x}]
        /\ Continue(t, i + 1)
  BY DEF WriteCommit
<1> DEFINE x == Table(t, i)
           v == markerVersion[t][x]
           a == createdFiles[t][x]
           r == deletedFiles[t][x]
<1>2. /\ x \in Tables /\ v \in Versions
      /\ a \in SUBSET Files /\ r \in SUBSET Files
  BY TableIsATable DEF IInv, TypeOK, MarkerTypes, WorkTypes
<1>3. pc[t] = "write" /\ UNCHANGED <<pc, markerVersion>>
  BY DEF WriteCommit
<1>4. LogStep(t)
  BY <1>1, <1>2 DEF LogStep
<1>5. Commit(t, a, r) \in Objects
  BY <1>2, ObjectTypes
<1>6. OnlyOf(t) /\ LoadsHeld(t)' /\ ~Over(t)
  BY <1>1, <1>3 DEF OnlyOf, LoadsHeld, Over, IInv, TypeOK, MarkerTypes, LoadTypes
<1>7. held'[t] \subseteq held[t] /\ x \notin held'[t]
  BY <1>1 DEF IInv, TypeOK, MarkerTypes
<1> QED BY <1>1, <1>2, <1>3, <1>4, <1>5, <1>6, <1>7, DropsOnly

\* The unanswered commit may have landed: the transaction aborts.
LEMMA WriteFailsEffect ==
  ASSUME IInv, NEW t \in Txns, WriteFails(t)
  PROVE  Effect(t)
<1>1. PICK i \in 1 .. NumTables(t) :
        LET x == Table(t, i)
            v == markerVersion[t][x] IN
        \/ UNCHANGED log
        \/ /\ IsMarkerOf(x, v, t)
           /\ WriteLog(x, v, Commit(t, createdFiles[t][x], deletedFiles[t][x]))
  BY DEF WriteFails
<1>2. /\ Table(t, i) \in Tables
      /\ markerVersion[t][Table(t, i)] \in Versions
      /\ createdFiles[t][Table(t, i)] \in SUBSET Files
      /\ deletedFiles[t][Table(t, i)] \in SUBSET Files
  BY TableIsATable DEF IInv, TypeOK, MarkerTypes, WorkTypes
<1>3. LogStep(t)
  BY <1>1, <1>2 DEF LogStep
<1>4. pc' = [pc EXCEPT ![t] = "abort"] /\ UNCHANGED <<cur, held, markerVersion>>
  BY DEF WriteFails
<1>5. OnlyOf(t) /\ LoadsHeld(t)' /\ Over(t)'
  BY <1>4 DEF OnlyOf, LoadsHeld, Over, IInv, TypeOK
<1> QED BY <1>3, <1>4, <1>5, DropsOnly

\* The transaction forgets the version it releases.
LEMMA ReleaseEffect ==
  ASSUME IInv, NEW t \in Txns, Release(t)
  PROVE  Effect(t)
<1>1. PICK i \in 1 .. idx[t] :
        /\ ReplaceOwnMarker(t, Table(t, i), markerVersion[t][Table(t, i)])
        /\ held' = [held EXCEPT ![t] = @ \ {Table(t, i)}]
  BY DEF Release
<1>2. i \in 1 .. NumTables(t)
  BY NumTablesIsPositive DEF IInv, Position, TypeOK, LoadTypes
<1>3. Table(t, i) \in Tables /\ markerVersion[t][Table(t, i)] \in Versions
  BY <1>2, TableIsATable DEF IInv, TypeOK, MarkerTypes
<1>4. LogStep(t) /\ (UNCHANGED log \/ WriteLog(Table(t, i), markerVersion[t][Table(t, i)], EmptyCommit))
  BY <1>1, <1>3, ReplaceIsLogStep
<1>5. UNCHANGED <<pc, cur, markerVersion>> /\ pc[t] \in {"yield", "abort", "finish"}
  BY DEF Release
<1>6. OnlyOf(t) /\ LoadsHeld(t)' /\ (Over(t) => Over(t)') /\ held'[t] \subseteq held[t]
  BY <1>1, <1>5 DEF OnlyOf, LoadsHeld, Over, IInv, TypeOK, MarkerTypes
<1> QED BY <1>3, <1>4, <1>5, <1>6, ReleasesEmpty, DropsOnly
-----------------------------------------------------------------------------
(* The inductive invariant *)

\* Another transaction u is not disturbed by a step of t: t replaces a marker
\* of u only by the empty commit.
LEMMA OthersKeep ==
  ASSUME IInv, NEW t \in Txns, Effect(t), NEW u \in Txns, u # t
  PROVE  ReservedExists(u)' /\ LoadsHeld(u)' /\ HoldsOurs(u)'
<1>1. /\ LogStep(t)
      /\ pc'[u] = pc[u] /\ cur'[u] = cur[u]
      /\ held'[u] = held[u] /\ markerVersion'[u] = markerVersion[u]
  BY DEF Effect, OnlyOf
<1>2. LoadsHeld(u)' /\ (Over(u) => Over(u)')
  BY <1>1 DEF LoadsHeld, Over, Current, IInv
<1>3. ASSUME NEW x \in held'[u], IsMarkerOf(x, markerVersion[u][x], u)
      PROVE  log'[x][markerVersion[u][x]].kind # "commit"
  <2>1. x \in Tables /\ markerVersion[u][x] \in Versions
    BY <1>1 DEF IInv, TypeOK, MarkerTypes
  <2>2. \/ IsMarkerOf(x, markerVersion[u][x], u)'
        \/ log'[x][markerVersion[u][x]] = EmptyCommit
    BY <1>1, <1>3, <2>1, MarkerFate DEF IInv
  <2> QED BY <1>1, <2>2, ReleasesEmpty DEF IsMarkerOf
<1> QED BY <1>1, <1>2, <1>3, KeepsHolding

\* Passing time takes nothing away from a transaction.
LEMMA LeaseEndsKeeps ==
  ASSUME IInv, NEW x \in Tables, NEW v \in Versions, LeaseEnds(x, v), NEW u \in Txns
  PROVE  LogStep(u) /\ ReservedExists(u)' /\ LoadsHeld(u)' /\ HoldsOurs(u)'
<1>1. LogStep(u)
  BY DEF LeaseEnds, LogStep
<1>2. UNCHANGED <<pc, cur, held, markerVersion>>
  BY DEF LeaseEnds
<1>3. LoadsHeld(u)' /\ (Over(u) => Over(u)')
  BY <1>2 DEF LoadsHeld, Over, Current, IInv
<1>4. ASSUME NEW y \in held'[u]
      PROVE  ~(/\ IsMarkerOf(y, markerVersion[u][y], u)
               /\ log'[y][markerVersion[u][y]].kind = "commit")
  <2>1. y \in Tables /\ markerVersion[u][y] \in Versions /\ log \in [Tables -> [Versions -> Objects]]
    BY <1>2 DEF IInv, TypeOK, MarkerTypes
  <2>2. log'[y][markerVersion[u][y]].kind = log[y][markerVersion[u][y]].kind
    BY <2>1 DEF LeaseEnds, Objects
  <2> QED BY <2>2 DEF IsMarkerOf
<1> QED BY <1>1, <1>2, <1>3, <1>4, KeepsHolding

\* Every step of a transaction, with or without an error, has the effect.
LEMMA StepEffect ==
  ASSUME IInv, NEW t \in Txns, Step(t) \/ StorageError(t) \/ Crash(t)
  PROVE  Effect(t)
<1>1. \/ Quiet(t) \/ Reserve(t) \/ Shift(t)
      \/ ReserveResponseLost(t) \/ ReleaseReplaced(t) \/ LoadFails(t)
      \/ TakeOver(t) \/ LeaseExpiring(t) \/ WriteCommit(t) \/ WriteFails(t) \/ Release(t)
  BY DEF Step, Opening, Waiting, Leasing, Validating, Writing, Releasing, StorageError, Quiet
<1> QED BY <1>1, QuietEffect, ReserveEffect, ShiftEffect, ReserveResponseLostEffect,
           ReleaseReplacedEffect, LoadFailsEffect, TakeOverEffect, LeaseExpiringEffect,
           WriteCommitEffect, WriteFailsEffect, ReleaseEffect

\* Whatever happens, it is a step of the log, of some writer or of time.
LEMMA NextIsLogStep ==
  ASSUME IInv, [Next]_vars
  PROVE  \E t \in Writers : LogStep(t)
<1>1. Txns \subseteq Writers /\ NoTxn \in Writers
  BY DEF Writers
<1>2. CASE UNCHANGED log
  BY <1>1, <1>2 DEF LogStep
<1>3. ASSUME NEW t \in Txns, Step(t) \/ StorageError(t) \/ Crash(t)
      PROVE  LogStep(t)
  BY <1>3, StepEffect DEF Effect
<1>4. ASSUME NEW x \in Tables, NEW v \in Versions, LeaseEnds(x, v)
      PROVE  LogStep(NoTxn)
  BY <1>4 DEF LeaseEnds, LogStep
<1>5. UNCHANGED vars \/ AllEnded => UNCHANGED log
  BY DEF AllEnded, vars
<1> QED BY <1>1, <1>2, <1>3, <1>4, <1>5 DEF Next

\* The invariant holds when no transaction has begun.
LEMMA InitIInv == Init => IInv
<1> SUFFICES ASSUME Init PROVE IInv
  OBVIOUS
<1>1. TypeOK /\ Position
  BY InitTypes
<1>2. /\ \A x \in Tables, v \in Versions :
           log[x][v] = IF v = 0 THEN Commit(NoTxn, {File(NoTxn, 0, TRUE)}, {}) ELSE Absent
      /\ 0 \in Versions
      /\ \A v, w \in Versions : v < w => w # 0
  BY ConstantsAssumption DEF Init, Versions
<1>3. Absent.kind = "absent" /\ Commit(NoTxn, {File(NoTxn, 0, TRUE)}, {}).kind # "absent"
  BY DEF Absent, Commit, Object
<1>4. LogInv
  BY <1>2, <1>3 DEF LogInv, LogHasNoGaps, Exists
<1>5. ASSUME NEW t \in Txns
      PROVE  /\ held[t] = {} /\ pc[t] = "reserve"
             /\ \A x \in Tables : markerVersion[t][x] = 0
  BY DEF Init
<1>6. ASSUME NEW t \in Txns
      PROVE  ReservedExists(t) /\ LoadsHeld(t) /\ HoldsOurs(t)
  BY <1>4, <1>5 DEF ReservedExists, LoadsHeld, HoldsOurs, LogInv
<1> QED BY <1>1, <1>4, <1>6 DEF IInv

\* Every step keeps the invariant.
LEMMA NextIInv == IInv /\ [Next]_vars => IInv'
<1> SUFFICES ASSUME IInv, [Next]_vars PROVE IInv'
  OBVIOUS
<1>1. TypeOK' /\ Position'
  BY NextTypes DEF IInv
<1>2. LogInv'
  BY NextIsLogStep, LogStepKeepsLog DEF IInv
<1>3. ASSUME NEW u \in Txns
      PROVE  ReservedExists(u)' /\ LoadsHeld(u)' /\ HoldsOurs(u)'
  <2>1. CASE UNCHANGED vars \/ AllEnded
    <3>1. UNCHANGED <<log, pc, cur, held, markerVersion>>
      BY <2>1 DEF AllEnded, vars
    <3> QED BY <3>1 DEF IInv, ReservedExists, LoadsHeld, HoldsOurs, Over, Exists,
                        IsMarkerOf, CommitsOf, Commits, Current
  <2>2. ASSUME NEW t \in Txns, Step(t) \/ StorageError(t) \/ Crash(t)
        PROVE  ReservedExists(u)' /\ LoadsHeld(u)' /\ HoldsOurs(u)'
    <3>1. Effect(t)
      BY <2>2, StepEffect
    <3>2. CASE u = t
      BY <3>1, <3>2 DEF Effect
    <3>3. CASE u # t
      BY <3>1, <3>3, OthersKeep
    <3> QED BY <3>2, <3>3
  <2>3. ASSUME NEW x \in Tables, NEW v \in Versions, LeaseEnds(x, v)
        PROVE  ReservedExists(u)' /\ LoadsHeld(u)' /\ HoldsOurs(u)'
    BY <2>3, LeaseEndsKeeps
  <2> QED BY <2>1, <2>2, <2>3 DEF Next
<1> QED BY <1>1, <1>2, <1>3 DEF IInv

\* The inductive invariant holds in every reachable state.
THEOREM Inductive == Spec => []IInv
BY InitIInv, NextIInv, PTL DEF Spec

-----------------------------------------------------------------------------
(* The theorems *)

\* What load_table, shift_marker and commit() rely on: the version a
\* transaction holds is its own marker, or the empty commit of a waiter that
\* took it over; nobody else ever gets it.  The exception is a commit whose
\* response was lost (abort() then releases a version that is committed).
THEOREM ReservedVersionIsSafe == Spec => []ReservedVersionIsOursOrEmpty
<1>1. IInv => ReservedVersionIsOursOrEmpty
  BY DEF IInv, HoldsOurs, ReservedVersionIsOursOrEmpty, Over
<1> QED BY <1>1, Inductive, PTL

\* The versions reserve_version and shift_marker take leave no gap: a reader
\* that finds a version finds all versions below it.
THEOREM NoGaps == Spec => []LogHasNoGaps
<1>1. IInv => LogHasNoGaps
  BY DEF IInv, LogInv
<1> QED BY <1>1, Inductive, PTL

\* No action, neither the conditional writes of commit, abort and takeover nor
\* the unconditional write of a failed open, changes a version that others may
\* have read as final.
THEOREM FinalForGood == Spec => VersionsAreFinal
<1>1. ASSUME IInv, [Next]_vars
      PROVE  \A x \in Tables, v \in Versions : Final(x, v) => log'[x][v] = log[x][v]
  BY <1>1, NextIsLogStep, LogStepKeepsLog DEF IInv
<1>2. IInv /\ [Next]_vars =>
        [\A x \in Tables, v \in Versions : Final(x, v) => log'[x][v] = log[x][v]]_vars
  BY <1>1
<1> QED BY <1>2, Inductive, PTL DEF Spec, VersionsAreFinal

-----------------------------------------------------------------------------
(* Refinement of the abstract log *)

\* The abstract entry of a version, and the versions themselves
LEMMA EntryOf ==
  ASSUME TypeOK, NEW x \in Tables, NEW v \in Versions
  PROVE  /\ entry[x][v] = [kind |-> log[x][v].kind, by |-> log[x][v].by]
         /\ VL!Versions = Versions
BY DEF entry, VL!Versions, Versions

\* An object that replaces another one replaces its entry.
LEMMA EntryWritten ==
  ASSUME TypeOK, NEW x \in Tables, NEW v \in Versions, NEW o, WriteLog(x, v, o)
  PROVE  entry' = [entry EXCEPT ![x][v] = [kind |-> o.kind, by |-> o.by]]
<1>1. \A y \in Tables, w \in Versions :
        log'[y][w] = IF y = x /\ w = v THEN o ELSE log[y][w]
  BY DEF WriteLog, TypeOK
<1> DEFINE e == [kind |-> o.kind, by |-> o.by]
<1>2. \A y \in Tables, w \in Versions :
        entry'[y][w] = [kind |-> log'[y][w].kind, by |-> log'[y][w].by]
  BY DEF entry
<1>3. \A y \in Tables, w \in Versions :
        entry[y][w] = [kind |-> log[y][w].kind, by |-> log[y][w].by]
  BY DEF entry
<1>4. \A y \in Tables, w \in Versions :
        entry'[y][w] = IF y = x /\ w = v THEN e ELSE entry[y][w]
  <2> TAKE y \in Tables, w \in Versions
  <2>1. CASE y = x /\ w = v
    <3>1. log'[y][w] = o
      BY <1>1, <2>1
    <3>2. entry'[y][w] = e
      BY <1>2, <3>1
    <3> HIDE DEF e
    <3> QED BY <2>1, <3>2
  <2>2. CASE ~(y = x /\ w = v)
    <3>1. log'[y][w] = log[y][w]
      BY <1>1, <2>2
    <3>2. entry'[y][w] = [kind |-> log[y][w].kind, by |-> log[y][w].by]
      BY <1>2, <3>1
    <3>3. entry'[y][w] = entry[y][w]
      BY <1>3, <3>2
    <3> HIDE DEF e
    <3> QED BY <2>2, <3>3
  <2> QED BY <2>1, <2>2
<1>5. /\ entry = [y \in Tables |-> [w \in Versions |-> entry[y][w]]]
      /\ entry' = [y \in Tables |-> [w \in Versions |-> entry'[y][w]]]
  BY DEF entry
<1> HIDE DEF e
<1>6. entry' = [entry EXCEPT ![x][v] = e]
  BY <1>4, <1>5
<1> QED BY <1>6 DEF e

\* The five kinds of log steps are the abstract steps, and a stutter when a
\* lease ends.
LEMMA LogStepIsVLStep ==
  ASSUME IInv, NEW t \in Writers, LogStep(t)
  PROVE  [VL!Next]_entry
<1> USE DEF IInv
<1>1. CASE UNCHANGED log
  BY <1>1 DEF entry
<1>2. CASE \E x \in Tables, v \in Versions :
             /\ ~Exists(x, v)
             /\ \A w \in Versions : w < v => Exists(x, w)
             /\ WriteLog(x, v, Marker(t))
  <2>1. PICK x \in Tables, v \in Versions :
             /\ ~Exists(x, v)
             /\ \A w \in Versions : w < v => Exists(x, w)
             /\ WriteLog(x, v, Marker(t))
    BY <1>2
  <2>2. entry[x][v] = VL!Free
    BY <2>1, EntryOf DEF LogInv, VL!Free, Absent, Object
  <2>3. \A w \in Versions : w < v => entry[x][w] # VL!Free
    <3> TAKE w \in Versions
    <3> HAVE w < v
    <3>1. log[x][w].kind # "absent"
      BY <2>1 DEF Exists
    <3>2. entry[x][w].kind = log[x][w].kind
      BY DEF entry
    <3>3. VL!Free.kind = "absent"
      BY DEF VL!Free
    <3> QED BY <3>1, <3>2, <3>3
  <2>4. entry' = [entry EXCEPT ![x][v] = VL!Reserved(t)]
    BY <2>1, EntryWritten DEF VL!Reserved, Marker, Object
  <2>5. VL!Reserve(x, v, t)
    BY <2>2, <2>3, <2>4 DEF VL!Reserve, VL!IsNext, VL!Versions, Versions
  <2> QED BY <2>5, EntryOf DEF VL!Next
<1>3. CASE \E x \in Tables, v \in Versions :
             log[x][v].kind = "marker" /\ WriteLog(x, v, EmptyCommit)
  <2>1. PICK x \in Tables, v \in Versions :
             log[x][v].kind = "marker" /\ WriteLog(x, v, EmptyCommit)
    BY <1>3
  <2>2. log[x][v].by \in Writers
    BY DEF TypeOK, Objects
  <2>3. entry[x][v] = VL!Reserved(log[x][v].by)
    BY <2>1, EntryOf DEF VL!Reserved
  <2>4. entry' = [entry EXCEPT ![x][v] = VL!Void]
    BY <2>1, EntryWritten DEF VL!Void, EmptyCommit, Object
  <2>5. VL!GiveUp(x, v, log[x][v].by)
    BY <2>3, <2>4 DEF VL!GiveUp
  <2> QED BY <2>2, <2>5, EntryOf DEF VL!Next
<1>4. CASE \E x \in Tables, v \in Versions, a, r \in SUBSET Files :
             IsMarkerOf(x, v, t) /\ WriteLog(x, v, Commit(t, a, r))
  <2>1. PICK x \in Tables, v \in Versions, a, r \in SUBSET Files :
             IsMarkerOf(x, v, t) /\ WriteLog(x, v, Commit(t, a, r))
    BY <1>4
  <2>2. entry[x][v] = VL!Reserved(t)
    BY <2>1, EntryOf DEF VL!Reserved, IsMarkerOf
  <2>3. entry' = [entry EXCEPT ![x][v] = VL!Committed(t)]
    BY <2>1, EntryWritten DEF VL!Committed, Commit, Object
  <2>4. VL!CommitReserved(x, v, t)
    BY <2>2, <2>3 DEF VL!CommitReserved
  <2> QED BY <2>4, EntryOf DEF VL!Next
<1>5. CASE \E x \in Tables, v \in Versions :
             log[x][v].kind = "marker" /\ log' = [log EXCEPT ![x][v].ended = TRUE]
  <2>1. PICK x \in Tables, v \in Versions :
             log[x][v].kind = "marker" /\ log' = [log EXCEPT ![x][v].ended = TRUE]
    BY <1>5
  <2>2. ASSUME NEW y \in Tables, NEW w \in Versions
        PROVE  log'[y][w].kind = log[y][w].kind /\ log'[y][w].by = log[y][w].by
    BY <2>1 DEF TypeOK, Objects
  <2>3. entry' = entry
    BY <2>2 DEF entry
  <2> QED BY <2>3
<1> QED BY <1>1, <1>2, <1>3, <1>4, <1>5 DEF LogStep

\* The marker protocol implements the abstract log: conditional writes are
\* enough for each version to be reserved once and decided once.
THEOREM Refinement == Spec => ImplementsVersionLog
<1>1. Init => VL!Init
  <2> SUFFICES ASSUME Init PROVE VL!Init
    OBVIOUS
  <2>1. \A x \in Tables, v \in Versions :
          entry[x][v] = IF v = 0 THEN VL!Committed(NoTxn) ELSE VL!Free
    BY DEF Init, entry, Commit, Absent, Object, VL!Committed, VL!Free
  <2> QED BY <2>1 DEF VL!Init, entry, VL!Versions, Versions
<1>2. IInv /\ [Next]_vars => [VL!Next]_entry
  BY NextIsLogStep, LogStepIsVLStep
<1> QED BY <1>1, <1>2, Inductive, PTL DEF Spec, ImplementsVersionLog, VL!Spec
=============================================================================
