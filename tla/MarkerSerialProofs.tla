------------------------- MODULE MarkerSerialProofs -------------------------
(***************************************************************************)
(* Proofs about what the transactions of MarkerCommit read and remove when *)
(* each of them opens one table: no update is lost, a commit comes from    *)
(* what lies below it, and the order of the versions is a serial order.    *)
(*                                                                         *)
(* With several tables none of the three holds, see the README: a table    *)
(* that is loaded again forgets the concurrent changes found so far, and   *)
(* keeps the files that were deleted.                                      *)
(***************************************************************************)
EXTENDS MarkerOutcomeProofs, WellFoundedInduction

USE DEF reloadVars, loadVars, markerVars, snapVars, workVars,
        conflictVars, commitVars, txnVars, Goto, Continue

-----------------------------------------------------------------------------
(* Transactions on one table *)

\* Every transaction opens one table, and every HEAD request of a wait is
\* answered, before the waiter loses patience.
OneTable == \A t \in Txns : NumTables(t) = 1
WaitsAreAnswered == FaultKinds \cap {"head", "giveup"} = {}

\* The table of t, and the version that t has reserved last
TableOf(t) == Table(t, 1)
VersionOf(t) == markerVersion[t][TableOf(t)]

\* The table is opened, or opened anew after an error, before anything else,
\* and only then.
Phases(t) ==
  /\ t \notin reopening /\ pc[t] \notin {"replace", "yield"}
  /\ pc[t] \in {"reserve", "parse"} => idx[t] = 0 /\ cur[t] = 1
  /\ pc[t] = "reserve" => held[t] = {}
  /\ pc[t] \notin {"reserve", "parse", "crashed"} => idx[t] = 1
  /\ t \in shifted => pc[t] \in {"lease", "shift", "abort", "aborted", "crashed"}

\* commit() finds the version held, and commits to it once.
HoldsUntilCommit(t) ==
  /\ pc[t] \in {"work", "wait", "lease", "validate", "redone", "write"} =>
       TableOf(t) \in held[t] \cup committed[t]
  /\ committed[t] \subseteq {TableOf(t)}
  /\ committed[t] # {} => pc[t] \in {"write", "finish", "committed", "crashed"}
CommitsThere(t) ==
  \A y \in Tables : \A v \in CommitsOf(t, y) :
    /\ y = TableOf(t) /\ v = VersionOf(t)
    /\ y \in committed[t] \/ Over(t)

\* Before the work there are no local changes; what is only logged removes
\* nothing until it is redone; what is removed was added below.
LocalChanges(t) ==
  /\ pc[t] \in {"reserve", "parse", "work"} => deletedFiles[t][TableOf(t)] = {}
  /\ t \notin explicitLog /\ t \notin redoDone => deletedFiles[t][TableOf(t)] = {}
  /\ \A f \in createdFiles[t][TableOf(t)] : f.by = t
  /\ \A f \in deletedFiles[t][TableOf(t)] : \E w \in Versions :
       w < VersionOf(t) /\ Final(TableOf(t), w) /\ f \in log[TableOf(t)][w].add

\* The snapshot has final versions below the reserved one.  Those that are
\* not in it are waited for, or are empty: a version given up for a later one.
SeenIsFinal(t) ==
  /\ \A w \in seen[t][TableOf(t)] : w < VersionOf(t) /\ Final(TableOf(t), w)
  /\ \A p \in prevMarkers[t] : p[1] = TableOf(t) /\ p[2] < VersionOf(t)
SeenOrEmpty(t, w) == w \in seen[t][TableOf(t)] \/ log[TableOf(t)][w].kind = "empty"
Committing == {"wait", "lease", "shift", "shiftLost", "validate", "redone", "write"}
Covered(t) ==
  \A w \in Versions :
    \/ pc[t] = "parse" /\ w < at[t]
    \/ pc[t] \in {"work"} \cup Committing /\ w < VersionOf(t)
    => SeenOrEmpty(t, w) \/ <<TableOf(t), w>> \in prevMarkers[t]
GivenUp(t) == pc[t] \in {"shift", "shiftLost"} => log[TableOf(t)][VersionOf(t)].kind = "empty"

\* After a wait the snapshot has everything below the reserved version, ...
Known(t) ==
  pc[t] \in {"validate", "redone", "write"} \/ (pc[t] = "lease" /\ t \notin shifted) =>
    \A w \in Versions : w < VersionOf(t) => SeenOrEmpty(t, w)

\* ... and what removes a file that the transaction removes too counts as
\* concurrent, which the validation has excluded.
ConcurrentKnown(t) ==
  pc[t] \in Committing =>
    \A w \in seen[t][TableOf(t)] :
      log[TableOf(t)][w].remove \cap deletedFiles[t][TableOf(t)]
        \subseteq concurrentRemoves[t][TableOf(t)]
Validated(t) ==
  pc[t] \in {"redone", "write"} =>
    deletedFiles[t][TableOf(t)] \cap concurrentRemoves[t][TableOf(t)] = {}

\* A commit is written when all versions below it are final; it removes files
\* that one of them added, and that none of them removed.
CommitsInOrder ==
  \A x \in Tables, v \in Versions :
    /\ log[x][v].kind # "commit" => log[x][v].add = {} /\ log[x][v].remove = {}
    /\ log[x][v].kind = "commit" =>
         /\ log[x][v].by = NoTxn => v = 0
         /\ ChangesData(x, v)
         /\ \A f \in log[x][v].add : f.by = log[x][v].by
         /\ \A w \in Versions : w < v => /\ Final(x, w)
                                         /\ log[x][w].remove \cap log[x][v].remove = {}
         /\ \A f \in log[x][v].remove : \E w \in Versions : w < v /\ f \in log[x][w].add

TableInv(t) ==
  /\ HeldOpened(t) /\ Phases(t) /\ HoldsUntilCommit(t) /\ CommitsThere(t) /\ LocalChanges(t) /\ SeenIsFinal(t)
  /\ Covered(t) /\ GivenUp(t) /\ Known(t) /\ ConcurrentKnown(t) /\ Validated(t)

\* With level 0, a transaction that reads or appends besides its updates keeps
\* what it read or appended when its updates are redone.
RedoesAll ==
  Level0 => \A t \in Txns, x \in Tables :
              Ops[t][x] \subseteq {"append"} \/ Ops[t][x] \subseteq {"update", "delete"}

\* What was read: the versions below the reserved one that were known at the
\* last look at the table.  A later change counts as concurrent.
ReadsBelow(t) ==
  /\ wasRead[t] \subseteq {TableOf(t)}
  /\ pc[t] \in {"reserve", "parse", "work"} => wasRead[t] = {}
  /\ \A w \in observed[t][TableOf(t)] : w < VersionOf(t)
RedoneOnly(t) == Ops[t][TableOf(t)] \subseteq {"update", "delete"} /\ Ops[t][TableOf(t)] # {}
NothingYet(t) ==
  /\ ~Level0 => t \in explicitLog
  /\ Level0 /\ wasRead[t] # {} => RedoneOnly(t)
  /\ wasRead[t] # {} /\ t \notin explicitLog /\ t \notin redoDone => ~Changed(t, TableOf(t))
ChangesKnown(t) ==
  pc[t] \in Committing /\ TableOf(t) \in wasRead[t] /\ (NothingIsRedone \/ Changed(t, TableOf(t))) =>
    \A w \in seen[t][TableOf(t)] :
      \/ w \in observed[t][TableOf(t)] \/ w \notin Commits(TableOf(t))
      \/ TableOf(t) \in concurrentChange[t]
ReadsValidated(t) ==
  pc[t] \in {"redone", "write"} => wasRead[t] \cap concurrentChange[t] = {}
ReadsPredecessors(t) ==
  \A v \in CommitsOf(t, TableOf(t)) : \A w \in Commits(TableOf(t)) :
    TableOf(t) \in wasRead[t] /\ w < v => w \in observed[t][TableOf(t)]
ReadInv(t) == /\ ReadsBelow(t) /\ NothingYet(t) /\ ChangesKnown(t) /\ ReadsValidated(t)
              /\ ReadsPredecessors(t)

\* The version of an acknowledged transaction is its place in the serial
\* order: nobody else's, with all commits below it read.
OwnVersion(t) ==
  /\ pc[t] \notin {"reserve", "crashed"} => VersionOf(t) # 0
  /\ VersionOf(t) # 0 => \/ log[TableOf(t)][VersionOf(t)].by = t
                         \/ log[TableOf(t)][VersionOf(t)].kind = "empty"
PlaceInOrder(t) ==
  pc[t] \in {"finish", "committed"} /\ t \notin ReadOnly =>
    /\ VersionOf(t) # 0
    /\ \A w \in Versions : w < VersionOf(t) =>
         /\ Final(TableOf(t), w)
         /\ w \in Commits(TableOf(t)) /\ TableOf(t) \in wasRead[t] => w \in observed[t][TableOf(t)]

\* With one table the loops over this->tables stand at the first.
LEMMA AtTheTable ==
  ASSUME IInv, OneTable, NEW t \in Txns
  PROVE  /\ NumTables(t) = 1 /\ TableOf(t) \in Tables /\ VersionOf(t) \in Versions
         /\ idx[t] \in {0, 1}
         /\ pc[t] \in {"reserve", "replace", "parse", "yield", "shift", "shiftLost"} =>
              cur[t] = 1 /\ Current(t) = TableOf(t)
         /\ \A i \in 1 .. NumTables(t) : Table(t, i) = TableOf(t)
<1>1. NumTables(t) = 1
  BY DEF OneTable
<1>2. TableOf(t) \in Tables
  BY <1>1, TableIsATable DEF TableOf
<1>3. VersionOf(t) \in Versions
  BY <1>2 DEF VersionOf, IInv, TypeOK, MarkerTypes
<1>4. /\ idx[t] \in 0 .. 1
      /\ pc[t] \in {"reserve", "replace", "parse", "yield", "shift", "shiftLost"} => cur[t] \in 1 .. 1
  BY <1>1 DEF IInv, Position
<1>5. \A i \in 1 .. NumTables(t) : i = 1
  BY <1>1
<1> QED BY <1>1, <1>2, <1>3, <1>4, <1>5 DEF TableOf, Current

\* The table is loaded once, and the version held until it is used.
LEMMA PhasesKept ==
  ASSUME IInv, OneTable, WaitsAreAnswered, NEW t \in Txns, Step(t) \/ StorageError(t) \/ Crash(t),
         HeldOpened(t), Phases(t)
  PROVE  Phases(t)'
<1>a. /\ DOMAIN pc = Txns /\ DOMAIN idx = Txns /\ DOMAIN cur = Txns /\ DOMAIN held = Txns
      /\ NumTables(t) = 1 /\ idx[t] \in {0, 1}
      /\ held[t] \subseteq {TableOf(t)}
      /\ pc[t] = "work" => ~(idx[t] < NumTables(t))
      /\ pc[t] \in {"reserve", "replace", "parse", "yield", "shift", "shiftLost"} =>
              cur[t] = 1 /\ Current(t) = TableOf(t)
  BY AtTheTable DEF IInv, TypeOK, LoadTypes, MarkerTypes, HeldOpened, Phases
<1> USE <1>a DEF Phases
<1>1. Reserve(t) => Phases(t)'
  BY DEF Reserve, Ended
<1>2. ReleaseReplaced(t) => Phases(t)'
  BY DEF ReleaseReplaced, Ended
<1>3. ParseLogEntry(t) => Phases(t)'
  BY DEF ParseLogEntry, Ended
<1>4. TableLoaded(t) => Phases(t)'
  BY DEF TableLoaded, LoadedAll, Ended
<1>5. Work(t) => Phases(t)'
  BY DEF Work, Ended
<1>6. Wait(t) => Phases(t)'
  BY DEF Wait, WaitPass, Ended
<1>7. TakeOver(t) => Phases(t)'
  BY DEF TakeOver, Ended
<1>8. LeaseHolds(t) => Phases(t)'
  BY DEF LeaseHolds, Ended
<1>9. LeaseExpiring(t) => Phases(t)'
  BY DEF LeaseExpiring, Ended
<1>10. Shift(t) => Phases(t)'
  BY DEF Shift, Ended
<1>11. LeasesChecked(t) => Phases(t)'
  BY DEF LeasesChecked, Ended
<1>12. ValidateAsIs(t) => Phases(t)'
  BY DEF ValidateAsIs, StartWriting, Ended
<1>13. FirstRedo(t) => Phases(t)'
  BY DEF FirstRedo, Redo, Ended
<1>14. RedoAgain(t) => Phases(t)'
  BY DEF RedoAgain, Redo, Ended
<1>15. RoundsUsedUp(t) => Phases(t)'
  BY DEF RoundsUsedUp, RedoImpossible, Ended
<1>16. Redone(t) => Phases(t)'
  BY DEF Redone, StartWriting, Ended
<1>17. WriteCommit(t) => Phases(t)'
  BY DEF WriteCommit, Ended
<1>18. WriteLost(t) => Phases(t)'
  BY DEF WriteLost, Ended
<1>19. AllWritten(t) => Phases(t)'
  BY DEF AllWritten, Ended
<1>20. Release(t) => Phases(t)'
  BY DEF Release, Ended
<1>21. Released(t) => Phases(t)'
  BY DEF Released, Ended
<1>22. ReserveResponseLost(t) => Phases(t)'
  BY DEF ReserveResponseLost, Ended
<1>23. LoadFails(t) => Phases(t)'
  BY DEF LoadFails, Ended
<1>24. WaitMissesOne(t) => Phases(t)'
  BY DEF WaitMissesOne, WaitPass, Ended
<1>25. GiveUpWaiting(t) => Phases(t)'
  BY DEF GiveUpWaiting, Fault, WaitsAreAnswered
<1>26. WriteFails(t) => Phases(t)'
  BY DEF WriteFails, Ended
<1>27. ReleaseFails(t) => Phases(t)'
  BY DEF ReleaseFails, Ended
<1>28. RebuildFails(t) => Phases(t)'
  BY DEF RebuildFails, RedoImpossible, Ended
<1>29. Crash(t) => Phases(t)'
  BY DEF Crash, Ended
<1> QED BY <1>1, <1>2, <1>3, <1>4, <1>5, <1>6, <1>7, <1>8, <1>9, <1>10, <1>11, <1>12,
           <1>13, <1>14, <1>15, <1>16, <1>17, <1>18, <1>19, <1>20, <1>21, <1>22, <1>23,
           <1>24, <1>25, <1>26, <1>27, <1>28, <1>29
     DEF Step, Opening, Waiting, Leasing, Validating, Writing, Releasing, StorageError

\* No error makes commit() go on without its version, or commit twice.
LEMMA HoldsUntilCommitKept ==
  ASSUME IInv, OneTable, NEW t \in Txns, Step(t) \/ StorageError(t) \/ Crash(t),
         Phases(t), HoldsUntilCommit(t)
  PROVE  HoldsUntilCommit(t)'
<1>a. /\ DOMAIN pc = Txns /\ DOMAIN held = Txns /\ DOMAIN committed = Txns
      /\ NumTables(t) = 1
      /\ pc[t] \in {"reserve", "replace", "parse", "yield", "shift", "shiftLost"} =>
              cur[t] = 1 /\ Current(t) = TableOf(t)
      /\ pc[t] = "parse" => TableOf(t) \in held[t]
      /\ \A i \in 1 .. NumTables(t) : Table(t, i) = TableOf(t)
      /\ committed[t] \subseteq Tables
      /\ TableOf(t)' = TableOf(t)
  BY AtTheTable DEF IInv, TypeOK, LoadTypes, MarkerTypes, CommitTypes, LoadsHeld, TableOf, Table
<1> USE <1>a DEF HoldsUntilCommit, Phases
<1>1. Reserve(t) => HoldsUntilCommit(t)'
  BY DEF Reserve, Ended
<1>2. ReleaseReplaced(t) => HoldsUntilCommit(t)'
  BY DEF ReleaseReplaced, Ended
<1>3. ParseLogEntry(t) => HoldsUntilCommit(t)'
  BY DEF ParseLogEntry, Ended
<1>4. TableLoaded(t) => HoldsUntilCommit(t)'
  BY DEF TableLoaded, LoadedAll, Ended
<1>5. Work(t) => HoldsUntilCommit(t)'
  BY DEF Work, Ended
<1>6. Wait(t) => HoldsUntilCommit(t)'
  BY DEF Wait, WaitPass, Ended
<1>7. TakeOver(t) => HoldsUntilCommit(t)'
  BY DEF TakeOver, Ended
<1>8. LeaseHolds(t) => HoldsUntilCommit(t)'
  BY DEF LeaseHolds, Ended
<1>9. LeaseExpiring(t) => HoldsUntilCommit(t)'
  BY DEF LeaseExpiring, Ended
<1>10. Shift(t) => HoldsUntilCommit(t)'
  BY DEF Shift, Ended
<1>11. LeasesChecked(t) => HoldsUntilCommit(t)'
  BY DEF LeasesChecked, Ended
<1>12. ValidateAsIs(t) => HoldsUntilCommit(t)'
  BY DEF ValidateAsIs, StartWriting, Ended
<1>13. FirstRedo(t) => HoldsUntilCommit(t)'
  BY DEF FirstRedo, Redo, Ended
<1>14. RedoAgain(t) => HoldsUntilCommit(t)'
  BY DEF RedoAgain, Redo, Ended
<1>15. RoundsUsedUp(t) => HoldsUntilCommit(t)'
  BY DEF RoundsUsedUp, RedoImpossible, Ended
<1>16. Redone(t) => HoldsUntilCommit(t)'
  BY DEF Redone, StartWriting, Ended
<1>17. WriteCommit(t) => HoldsUntilCommit(t)'
  <2> SUFFICES ASSUME WriteCommit(t) PROVE HoldsUntilCommit(t)'
    OBVIOUS
  <2>1. committed'[t] = committed[t] \cup {TableOf(t)} /\ pc'[t] = "write"
    BY DEF WriteCommit
  <2> QED BY <2>1
<1>18. WriteLost(t) => HoldsUntilCommit(t)'
  <2> SUFFICES ASSUME WriteLost(t) PROVE HoldsUntilCommit(t)'
    OBVIOUS
  <2>1. TableOf(t) \notin committed[t] /\ pc'[t] \in {"shiftLost", "abort"} /\ UNCHANGED committed
    BY DEF WriteLost, NextIn, ToCommit
  <2> QED BY <2>1
<1>19. AllWritten(t) => HoldsUntilCommit(t)'
  BY DEF AllWritten, Ended
<1>20. Release(t) => HoldsUntilCommit(t)'
  BY DEF Release, Ended
<1>21. Released(t) => HoldsUntilCommit(t)'
  BY DEF Released, Ended
<1>22. ReserveResponseLost(t) => HoldsUntilCommit(t)'
  BY DEF ReserveResponseLost, Ended
<1>23. LoadFails(t) => HoldsUntilCommit(t)'
  BY DEF LoadFails, Ended
<1>24. WaitMissesOne(t) => HoldsUntilCommit(t)'
  BY DEF WaitMissesOne, WaitPass, Ended
<1>25. GiveUpWaiting(t) => HoldsUntilCommit(t)'
  BY DEF GiveUpWaiting, Ended
<1>26. WriteFails(t) => HoldsUntilCommit(t)'
  <2> SUFFICES ASSUME WriteFails(t) PROVE HoldsUntilCommit(t)'
    OBVIOUS
  <2>1. TableOf(t) \notin committed[t] /\ pc'[t] = "abort" /\ UNCHANGED committed
    BY DEF WriteFails, NextIn, ToCommit
  <2> QED BY <2>1
<1>27. ReleaseFails(t) => HoldsUntilCommit(t)'
  BY DEF ReleaseFails, Ended
<1>28. RebuildFails(t) => HoldsUntilCommit(t)'
  BY DEF RebuildFails, RedoImpossible, Ended
<1>29. Crash(t) => HoldsUntilCommit(t)'
  BY DEF Crash, Ended
<1> QED BY <1>1, <1>2, <1>3, <1>4, <1>5, <1>6, <1>7, <1>8, <1>9, <1>10, <1>11, <1>12,
           <1>13, <1>14, <1>15, <1>16, <1>17, <1>18, <1>19, <1>20, <1>21, <1>22, <1>23,
           <1>24, <1>25, <1>26, <1>27, <1>28, <1>29
     DEF Step, Opening, Waiting, Leasing, Validating, Writing, Releasing, StorageError

\* A transaction moves on to another version from a reservation only, and
\* then to a higher one.
LEMMA VersionsGrow ==
  ASSUME IInv, OneTable, NEW t \in Txns, Step(t) \/ StorageError(t) \/ Crash(t)
  PROVE  /\ VersionOf(t)' \in Versions /\ VersionOf(t) <= VersionOf(t)'
         /\ pc[t] \notin {"reserve", "shift", "shiftLost"} => VersionOf(t)' = VersionOf(t)
<1>a. /\ DOMAIN markerVersion = Txns /\ DOMAIN markerVersion[t] = Tables
      /\ TableOf(t) \in Tables /\ VersionOf(t) \in Versions /\ LogInv /\ Exists(TableOf(t), VersionOf(t))
      /\ pc[t] \in {"reserve", "shift", "shiftLost"} => Current(t) = TableOf(t)
      /\ \A v \in Versions : v \in Nat
  BY AtTheTable, ConstantsAssumption
     DEF IInv, TypeOK, MarkerTypes, ReservedExists, VersionOf, Versions
<1>b. UNCHANGED markerVersion => VersionOf(t)' = VersionOf(t)
  BY DEF VersionOf, TableOf, Table
<1> DEFINE Grows == /\ VersionOf(t)' \in Versions /\ VersionOf(t) <= VersionOf(t)'
                    /\ pc[t] \notin {"reserve", "shift", "shiftLost"} => VersionOf(t)' = VersionOf(t)
<1>c. UNCHANGED markerVersion => Grows
  BY <1>a, <1>b
<1>d. ASSUME NEW v \in Versions, markerVersion' = [markerVersion EXCEPT ![t][Current(t)] = v],
             pc[t] \in {"reserve", "shift", "shiftLost"}, log[Current(t)][v].kind = "absent"
      PROVE  Grows
  <2>1. VersionOf(t)' = v
    BY <1>a, <1>d DEF VersionOf, TableOf, Table
  <2>2. ~Exists(TableOf(t), v)
    BY <1>a, <1>d DEF Exists
  <2>3. ~(v < VersionOf(t)) /\ v # VersionOf(t)
    BY <1>a, <2>2 DEF LogInv, LogHasNoGaps, Exists
  <2> QED BY <1>a, <1>d, <2>1, <2>3
<1> HIDE DEF Grows
<1> USE <1>c
<1>1. Reserve(t) => Grows
  BY <1>d DEF Reserve, FirstFree
<1>2. ReleaseReplaced(t) => Grows
  BY DEF ReleaseReplaced
<1>3. ParseLogEntry(t) => Grows
  BY DEF ParseLogEntry
<1>4. TableLoaded(t) => Grows
  BY DEF TableLoaded, LoadedAll
<1>5. Work(t) => Grows
  BY DEF Work
<1>6. Wait(t) => Grows
  BY DEF Wait, WaitPass
<1>7. TakeOver(t) => Grows
  BY DEF TakeOver
<1>8. LeaseHolds(t) => Grows
  BY DEF LeaseHolds
<1>9. LeaseExpiring(t) => Grows
  BY DEF LeaseExpiring
<1>10. Shift(t) => Grows
  BY <1>d DEF Shift, FirstFree
<1>11. LeasesChecked(t) => Grows
  BY DEF LeasesChecked
<1>12. ValidateAsIs(t) => Grows
  BY DEF ValidateAsIs, StartWriting
<1>13. FirstRedo(t) => Grows
  BY DEF FirstRedo, Redo
<1>14. RedoAgain(t) => Grows
  BY DEF RedoAgain, Redo
<1>15. RoundsUsedUp(t) => Grows
  BY DEF RoundsUsedUp, RedoImpossible
<1>16. Redone(t) => Grows
  BY DEF Redone, StartWriting
<1>17. WriteCommit(t) => Grows
  BY DEF WriteCommit
<1>18. WriteLost(t) => Grows
  BY DEF WriteLost
<1>19. AllWritten(t) => Grows
  BY DEF AllWritten
<1>20. Release(t) => Grows
  BY DEF Release
<1>21. Released(t) => Grows
  BY DEF Released
<1>22. ReserveResponseLost(t) => Grows
  BY DEF ReserveResponseLost
<1>23. LoadFails(t) => Grows
  BY DEF LoadFails
<1>24. WaitMissesOne(t) => Grows
  BY DEF WaitMissesOne, WaitPass
<1>25. GiveUpWaiting(t) => Grows
  BY DEF GiveUpWaiting
<1>26. WriteFails(t) => Grows
  BY DEF WriteFails
<1>27. ReleaseFails(t) => Grows
  BY DEF ReleaseFails
<1>28. RebuildFails(t) => Grows
  BY DEF RebuildFails, RedoImpossible
<1>29. Crash(t) => Grows
  BY DEF Crash
<1> QED BY <1>1, <1>2, <1>3, <1>4, <1>5, <1>6, <1>7, <1>8, <1>9, <1>10, <1>11, <1>12,
           <1>13, <1>14, <1>15, <1>16, <1>17, <1>18, <1>19, <1>20, <1>21, <1>22, <1>23,
           <1>24, <1>25, <1>26, <1>27, <1>28, <1>29
     DEF Step, Opening, Waiting, Leasing, Validating, Writing, Releasing, StorageError, Grows

\* A version is committed once, and the transaction moves on from uncommitted
\* versions only.
LEMMA CommitsThereKept ==
  ASSUME IInv, OneTable, NEW t \in Txns, Step(t) \/ StorageError(t) \/ Crash(t),
         HoldsUntilCommit(t), CommitsThere(t)
  PROVE  CommitsThere(t)'
<1>a. /\ DOMAIN pc = Txns /\ DOMAIN committed = Txns
      /\ TableOf(t) \in Tables
      /\ \A i \in 1 .. NumTables(t) : Table(t, i) = TableOf(t)
  BY AtTheTable DEF IInv, TypeOK, CommitTypes
<1>b. TableOf(t)' = TableOf(t) /\ TypeOK
  BY DEF TableOf, Table, IInv
<1> DEFINE NoCommit == \A y \in Tables : CommitsOf(t, y) = {}
           Same == \A y \in Tables : CommitsOf(t, y)' \subseteq CommitsOf(t, y)
           Goal == /\ NoCommit \/ (committed'[t] = committed[t] /\ (Over(t) => Over(t)'))
                   /\ pc[t] = "write" /\ ~Same => TableOf(t) \in committed'[t] \/ Over(t)'
<1>c. pc[t] # "write" => Same
  BY CommitsKept
<1>d. UNCHANGED log => Same
  BY DEF CommitsOf, Commits
<1>e. committed[t] = {} /\ ~Over(t) => NoCommit
  BY DEF CommitsThere
<1>f. pc[t] \in {"write", "validate"} => ~Over(t)
  BY DEF Over
<1>g. \/ pc[t] = "write"
      \/ committed[t] = {}
      \/ pc[t] \in {"finish", "committed", "crashed"}
  BY DEF HoldsUntilCommit
<1>z. Goal
  <2> HIDE DEF NoCommit, Same
  <2> USE <1>a, <1>c, <1>d, <1>e, <1>f, <1>g DEF Over
  <2>1. Reserve(t) => Goal
    BY DEF Reserve, Ended
  <2>2. ReleaseReplaced(t) => Goal
    BY DEF ReleaseReplaced, Ended
  <2>3. ParseLogEntry(t) => Goal
    BY DEF ParseLogEntry, Ended
  <2>4. TableLoaded(t) => Goal
    BY DEF TableLoaded, LoadedAll, Ended
  <2>5. Work(t) => Goal
    BY DEF Work, Ended
  <2>6. Wait(t) => Goal
    BY DEF Wait, WaitPass, Ended
  <2>7. TakeOver(t) => Goal
    BY DEF TakeOver, Ended
  <2>8. LeaseHolds(t) => Goal
    BY DEF LeaseHolds, Ended
  <2>9. LeaseExpiring(t) => Goal
    BY DEF LeaseExpiring, Ended
  <2>10. Shift(t) => Goal
    BY DEF Shift, Ended
  <2>11. LeasesChecked(t) => Goal
    BY DEF LeasesChecked, Ended
  <2>12. ValidateAsIs(t) => Goal
    BY DEF ValidateAsIs, StartWriting, Ended
  <2>13. FirstRedo(t) => Goal
    BY DEF FirstRedo, Redo, Ended
  <2>14. RedoAgain(t) => Goal
    BY DEF RedoAgain, Redo, Ended
  <2>15. RoundsUsedUp(t) => Goal
    BY DEF RoundsUsedUp, RedoImpossible, Ended
  <2>16. Redone(t) => Goal
    BY DEF Redone, StartWriting, Ended
  <2>17. WriteCommit(t) => Goal
    <3> SUFFICES ASSUME WriteCommit(t) PROVE Goal
      OBVIOUS
    <3>1. committed'[t] = committed[t] \cup {TableOf(t)} /\ pc[t] = "write" /\ TableOf(t) \notin committed[t]
      BY DEF WriteCommit, NextIn, ToCommit
    <3>2. committed[t] = {}
      BY <3>1 DEF HoldsUntilCommit
    <3> QED BY <3>1, <3>2
  <2>18. WriteLost(t) => Goal
    BY DEF WriteLost, Ended
  <2>19. AllWritten(t) => Goal
    BY DEF AllWritten, Ended
  <2>20. Release(t) => Goal
    BY DEF Release, Ended
  <2>21. Released(t) => Goal
    BY DEF Released, Ended
  <2>22. ReserveResponseLost(t) => Goal
    BY DEF ReserveResponseLost, Ended
  <2>23. LoadFails(t) => Goal
    BY DEF LoadFails, Ended
  <2>24. WaitMissesOne(t) => Goal
    BY DEF WaitMissesOne, WaitPass, Ended
  <2>25. GiveUpWaiting(t) => Goal
    BY DEF GiveUpWaiting, Ended
  <2>26. WriteFails(t) => Goal
    BY DEF WriteFails, Ended
  <2>27. ReleaseFails(t) => Goal
    BY DEF ReleaseFails, Ended
  <2>28. RebuildFails(t) => Goal
    BY DEF RebuildFails, RedoImpossible, Ended
  <2>29. Crash(t) => Goal
    BY DEF Crash, Ended
  <2> QED BY <2>1, <2>2, <2>3, <2>4, <2>5, <2>6, <2>7, <2>8, <2>9, <2>10, <2>11, <2>12,
             <2>13, <2>14, <2>15, <2>16, <2>17, <2>18, <2>19, <2>20, <2>21, <2>22,
             <2>23, <2>24, <2>25, <2>26, <2>27, <2>28, <2>29
       DEF Step, Opening, Waiting, Leasing, Validating, Writing, Releasing, StorageError
<1>h. NoCommit \/ VersionOf(t)' = VersionOf(t)
  BY <1>e, <1>g, VersionsGrow DEF Over
<1>i. ASSUME NEW y \in Tables, NEW v \in CommitsOf(t, y)', v \in CommitsOf(t, y)
      PROVE  y = TableOf(t)' /\ v = VersionOf(t)' /\ (y \in committed'[t] \/ Over(t)')
  BY <1>b, <1>h, <1>i, <1>z DEF CommitsThere
<1>j. ASSUME NEW y \in Tables, NEW v \in CommitsOf(t, y)', v \notin CommitsOf(t, y)
      PROVE  y = TableOf(t)' /\ v = VersionOf(t)' /\ (y \in committed'[t] \/ Over(t)')
  <2>1. pc[t] = "write" /\ ~Same
    BY <1>c, <1>j
  <2>2. StepWritesTo(t)
    BY StepWrites
  <2>3. v \in Versions /\ log'[y][v].kind = "commit" /\ log'[y][v] # log[y][v]
    BY <1>j DEF CommitsOf, Commits
  <2>4. y = TableOf(t) /\ v = VersionOf(t)
    <3>1. Marker(t).kind # "commit" /\ EmptyCommit.kind # "commit"
      BY DEF Marker, EmptyCommit, Object
    <3>2. \A x \in Tables, w \in Versions : \A o : WriteLog(x, w, o) /\ o.kind # "commit" => FALSE
      BY <1>b, <2>3 DEF WriteLog, TypeOK
    <3>3. \A x \in Tables : \A o : WriteLog(x, markerVersion[t][x], o) => y = x /\ v = markerVersion[t][x]
      BY <1>b, <2>3 DEF WriteLog, TypeOK
    <3> QED BY <1>a, <2>2, <2>3, <3>1, <3>2, <3>3 DEF StepWritesTo, VersionOf
  <2>5. VersionOf(t)' = VersionOf(t)
    BY <2>1, VersionsGrow
  <2> QED BY <1>b, <1>z, <2>1, <2>4, <2>5
<1> HIDE DEF NoCommit, Same
<1> QED BY <1>i, <1>j DEF CommitsThere

\* The files of a snapshot were added by its versions.
LEMMA LiveFilesWereAdded ==
  ASSUME NEW x \in Tables, NEW S, NEW f \in KeyFilesIn(x, S)
  PROVE  \E w \in S : f \in log[x][w].add /\ \A v \in S : f \in log[x][v].remove => v < w
BY DEF KeyFilesIn, LiveFiles

\* What a step changes in the log is not final.
LEMMA FinalStays ==
  ASSUME IInv, NEW t \in Txns, Step(t) \/ StorageError(t) \/ Crash(t)
  PROVE  \A x \in Tables, w \in Versions : Final(x, w) => log'[x][w] = log[x][w] /\ Final(x, w)'
<1>1. LogStep(t) /\ t \in Writers
  BY StepEffect DEF Effect, Writers
<1> QED BY <1>1, LogStepKeepsLog DEF IInv, Final

\* The local changes of a transaction: what the work and the redo make them
LEMMA LocalChangesKept ==
  ASSUME IInv, OneTable, WaitsAreAnswered, NEW t \in Txns, Step(t) \/ StorageError(t) \/ Crash(t),
         Phases(t), SeenIsFinal(t), LocalChanges(t)
  PROVE  LocalChanges(t)'
<1> DEFINE x == TableOf(t)
           AddedBelow(f) == \E w \in Versions : w < VersionOf(t) /\ Final(x, w) /\ f \in log[x][w].add
           ByT(f) == f.by = t
<1>a0. /\ x \in Tables /\ VersionOf(t) \in Versions /\ NumTables(t) = 1
       /\ \A w \in Versions : w \in Nat
  BY AtTheTable, ConstantsAssumption DEF Versions
<1>a. /\ DOMAIN pc = Txns /\ DOMAIN createdFiles = Txns /\ DOMAIN createdFiles[t] = Tables
      /\ DOMAIN deletedFiles = Txns /\ DOMAIN deletedFiles[t] = Tables
      /\ seen[t][x] \in SUBSET Versions
  BY <1>a0 DEF IInv, TypeOK, WorkTypes, SnapTypes
<1>a1. TableOf(t)' = x
  BY DEF TableOf, Table
<1>b. \A f : AddedBelow(f) => AddedBelow(f)'
  BY <1>a0, <1>a1, FinalStays, VersionsGrow
<1>c. \A f \in KeyFilesIn(x, seen[t][x]) : AddedBelow(f)
  <2>1. \A w \in seen[t][x] : w \in Versions /\ w < VersionOf(t) /\ Final(x, w)
    BY <1>a DEF SeenIsFinal
  <2> QED BY <1>a0, <2>1, LiveFilesWereAdded
<1>d. \A f \in KeyFilesIn(x, BelowMarkers(t)[x]) : AddedBelow(f)
  <2>1. \A w \in BelowMarkers(t)[x] : w \in Versions /\ w < VersionOf(t) /\ Final(x, w)
    BY <1>a0 DEF BelowMarkers, VersionOf
  <2> QED BY <1>a0, <2>1, LiveFilesWereAdded
<1> DEFINE Goal ==
      /\ pc'[t] \in {"reserve", "parse", "work"} => deletedFiles'[t][x] = {}
      /\ t \notin explicitLog' /\ t \notin redoDone' => deletedFiles'[t][x] = {}
      /\ \A f \in createdFiles'[t][x] : ByT(f)
      /\ \A f \in deletedFiles'[t][x] : AddedBelow(f)
<1>f. /\ pc[t] \in {"reserve", "parse", "work"} => deletedFiles[t][x] = {}
      /\ t \notin explicitLog /\ t \notin redoDone => deletedFiles[t][x] = {}
      /\ \A f \in createdFiles[t][x] : ByT(f)
      /\ \A f \in deletedFiles[t][x] : AddedBelow(f)
  BY DEF LocalChanges
<1>g. Goal => LocalChanges(t)'
  BY <1>a1, <1>b DEF LocalChanges
<1>h. x = Table(t, 1)
  BY DEF TableOf
<1>z. Goal
  <2> HIDE DEF AddedBelow, ByT, x
  <2> USE <1>a0, <1>a, <1>f DEF Phases
  <2>1. Reserve(t) => Goal
    BY DEF Reserve, Ended
  <2>2. ReleaseReplaced(t) => Goal
    BY DEF ReleaseReplaced, Ended
  <2>3. ParseLogEntry(t) => Goal
    BY DEF ParseLogEntry, Ended
  <2>4. TableLoaded(t) => Goal
    BY DEF TableLoaded, LoadedAll, Ended
  <2>5. Work(t) => Goal
    <3> SUFFICES ASSUME Work(t) PROVE Goal
      OBVIOUS
    <3>0. idx[t] = 1 /\ Table(t, idx[t]) = x
      BY <1>h DEF Work
    <3>1. createdFiles'[t][x] = AddedFiles(t, x) /\ deletedFiles'[t][x] = RemovedFiles(t, x)
      BY <3>0 DEF Work
    <3>5. pc'[t] \in {"finish", "wait"} /\ UNCHANGED <<explicitLog, redoDone>>
      BY <3>0 DEF Work
    <3>2. \A f \in AddedFiles(t, x) : ByT(f)
      BY DEF AddedFiles, File, ByT
    <3>3. \A f \in RemovedFiles(t, x) : AddedBelow(f)
      BY <1>c DEF RemovedFiles, KeyFiles
    <3>4. t \notin explicitLog => RemovedFiles(t, x) = {}
      BY DEF RemovedFiles, Executed
    <3> QED BY <3>1, <3>2, <3>3, <3>4, <3>5
  <2>6. Wait(t) => Goal
    BY DEF Wait, WaitPass, Ended
  <2>7. TakeOver(t) => Goal
    BY DEF TakeOver, Ended
  <2>8. LeaseHolds(t) => Goal
    BY DEF LeaseHolds, Ended
  <2>9. LeaseExpiring(t) => Goal
    BY DEF LeaseExpiring, Ended
  <2>10. Shift(t) => Goal
    BY DEF Shift, Ended
  <2>11. LeasesChecked(t) => Goal
    BY DEF LeasesChecked, Ended
  <2>12. ValidateAsIs(t) => Goal
    BY DEF ValidateAsIs, StartWriting, Ended
  <2>13. FirstRedo(t) => Goal
    <3> SUFFICES ASSUME FirstRedo(t) PROVE Goal
      OBVIOUS
    <3>1. pc'[t] = "redone" /\ Redo(t, seen[t], createdFiles[t], deletedFiles[t])
      BY DEF FirstRedo
    <3>2. /\ t \in redoDone'
          /\ \A f \in createdFiles'[t][x] : f \in createdFiles[t][x] \/ ByT(f)
          /\ deletedFiles'[t][x] \subseteq deletedFiles[t][x] \cup KeyFilesIn(x, seen[t][x])
      BY <3>1 DEF Redo, File, ByT
    <3> QED BY <3>1, <3>2, <1>c
  <2>14. RedoAgain(t) => Goal
    <3> SUFFICES ASSUME RedoAgain(t) PROVE Goal
      OBVIOUS
    <3>1. pc'[t] = "redone" /\ Redo(t, BelowMarkers(t), NoFiles, NoFiles)
      BY DEF RedoAgain
    <3>2. /\ t \in redoDone' /\ NoFiles[x] = {}
          /\ \A f \in createdFiles'[t][x] : f \in NoFiles[x] \/ ByT(f)
          /\ deletedFiles'[t][x] \subseteq NoFiles[x] \cup KeyFilesIn(x, BelowMarkers(t)[x])
      BY <3>1 DEF Redo, NoFiles, File, ByT
    <3> QED BY <3>1, <3>2, <1>d
  <2>15. RoundsUsedUp(t) => Goal
    BY DEF RoundsUsedUp, RedoImpossible, Ended
  <2>16. Redone(t) => Goal
    BY DEF Redone, StartWriting, Ended
  <2>17. WriteCommit(t) => Goal
    BY DEF WriteCommit, Ended
  <2>18. WriteLost(t) => Goal
    BY DEF WriteLost, Ended
  <2>19. AllWritten(t) => Goal
    BY DEF AllWritten, Ended
  <2>20. Release(t) => Goal
    BY DEF Release, Ended
  <2>21. Released(t) => Goal
    BY DEF Released, Ended
  <2>22. ReserveResponseLost(t) => Goal
    BY DEF ReserveResponseLost, Ended
  <2>23. LoadFails(t) => Goal
    BY DEF LoadFails, Ended
  <2>24. WaitMissesOne(t) => Goal
    BY DEF WaitMissesOne, WaitPass, Ended
  <2>25. GiveUpWaiting(t) => Goal
    BY DEF GiveUpWaiting, Fault, WaitsAreAnswered
  <2>26. WriteFails(t) => Goal
    BY DEF WriteFails, Ended
  <2>27. ReleaseFails(t) => Goal
    BY DEF ReleaseFails, Ended
  <2>28. RebuildFails(t) => Goal
    BY DEF RebuildFails, RedoImpossible, Ended
  <2>29. Crash(t) => Goal
    BY DEF Crash, Ended
  <2> QED BY <2>1, <2>2, <2>3, <2>4, <2>5, <2>6, <2>7, <2>8, <2>9, <2>10, <2>11, <2>12,
             <2>13, <2>14, <2>15, <2>16, <2>17, <2>18, <2>19, <2>20, <2>21, <2>22,
             <2>23, <2>24, <2>25, <2>26, <2>27, <2>28, <2>29
       DEF Step, Opening, Waiting, Leasing, Validating, Writing, Releasing, StorageError
<1> HIDE DEF Goal
<1> QED BY <1>g, <1>z

\* What the snapshot has and what it does not
LEMMA SnapshotKept ==
  ASSUME IInv, OneTable, WaitsAreAnswered, NEW t \in Txns, Step(t) \/ StorageError(t) \/ Crash(t),
         Phases(t), HoldsUntilCommit(t), SeenIsFinal(t), Covered(t), GivenUp(t), Known(t)
  PROVE  SeenIsFinal(t)' /\ Covered(t)' /\ GivenUp(t)' /\ Known(t)'
<1> DEFINE x == TableOf(t)
           m == VersionOf(t)
           Out(w) == log[x][w].kind = "empty"
           Out2(w) == log'[x][w].kind = "empty"
           Loading == pc[t] = "parse"
           Loaded == pc[t] \in {"work"} \cup Committing
           Shifting == pc[t] \in {"shift", "shiftLost"}
           Waited == pc[t] \in {"validate", "redone", "write"} \/ (pc[t] = "lease" /\ t \notin shifted)
<1>a0. /\ x \in Tables /\ m \in Versions /\ NumTables(t) = 1
       /\ \A w \in Versions : w \in Nat
  BY AtTheTable, ConstantsAssumption DEF Versions
<1>a. /\ DOMAIN pc = Txns /\ DOMAIN seen = Txns /\ DOMAIN seen[t] = Tables
      /\ DOMAIN prevMarkers = Txns /\ DOMAIN at = Txns /\ at[t] \in Nat
      /\ prevMarkers[t] \subseteq Tables \X Versions /\ seen[t][x] \subseteq Versions
      /\ pc[t] \in {"reserve", "parse", "shift", "shiftLost"} => Current(t) = x
      /\ \A w \in Versions : log[x][w].kind \in {"absent", "marker", "commit", "empty"}
  BY <1>a0, AtTheTable DEF IInv, TypeOK, LoadTypes, SnapTypes, Objects
<1>b. TableOf(t)' = x
  BY DEF TableOf, Table
<1>c. /\ VersionOf(t)' \in Versions /\ m <= VersionOf(t)'
      /\ pc[t] \notin {"reserve", "shift", "shiftLost"} => VersionOf(t)' = m
  BY VersionsGrow
<1>d. \A w \in Versions : /\ Final(x, w) => Final(x, w)'
                          /\ Out(w) => Final(x, w) /\ Out2(w)
  BY <1>a0, <1>b, FinalStays DEF Final
<1> DEFINE m2 == VersionOf(t)'
           Seen2(w) == w \in seen'[t][x] \/ Out2(w)
           Goal == /\ \A w \in seen'[t][x] : w < m2 /\ Final(x, w)'
                   /\ \A p \in prevMarkers'[t] : p[1] = x /\ p[2] < m2
                   /\ \A w \in Versions :
                        (Loading' /\ w < at'[t]) \/ (Loaded' /\ w < m2)
                          => Seen2(w) \/ <<x, w>> \in prevMarkers'[t]
                   /\ Shifting' => Out2(m2)
                   /\ Waited' => \A w \in Versions : w < m2 => Seen2(w)
           Seen1(w) == w \in seen[t][x] \/ Out(w)
           Now ==  /\ \A w \in seen[t][x] : w < m /\ Final(x, w)
                   /\ \A p \in prevMarkers[t] : p[1] = x /\ p[2] < m
                   /\ \A w \in Versions :
                        (Loading /\ w < at[t]) \/ (Loaded /\ w < m)
                          => Seen1(w) \/ <<x, w>> \in prevMarkers[t]
                   /\ Shifting => Out(m)
                   /\ Waited => \A w \in Versions : w < m => Seen1(w)
<1>e. Now
  BY DEF SeenIsFinal, Covered, GivenUp, Known, SeenOrEmpty
<1>f. Goal => SeenIsFinal(t)' /\ Covered(t)' /\ GivenUp(t)' /\ Known(t)'
  BY <1>b DEF SeenIsFinal, Covered, GivenUp, Known, SeenOrEmpty
<1> DEFINE Quiet1 == /\ UNCHANGED <<seen, prevMarkers, markerVersion>>
                     /\ Loading' => Loading /\ at'[t] = at[t]
                     /\ Loaded' => Loaded \/ (Loading /\ at[t] = m)
                     /\ Shifting' => Shifting
                     /\ Waited' => Waited
<1>q. Quiet1 => Goal
  <2>1. SUFFICES ASSUME Quiet1 PROVE Goal
    OBVIOUS
  <2>2. m2 = m
    BY <2>1 DEF VersionOf, TableOf, Table
  <2>3. \A w \in Versions : Seen1(w) => Seen2(w)
    BY <2>1, <1>d
  <2>4. seen'[t] = seen[t] /\ prevMarkers'[t] = prevMarkers[t]
    BY <2>1
  <2>5. \A w \in seen'[t][x] : w < m2 /\ Final(x, w)'
    BY <1>a, <1>d, <1>e, <2>2, <2>4
  <2> HIDE DEF Seen1, Seen2, Out, Out2, Loading, Loaded, Shifting, Waited, m, m2
  <2>6. \A p \in prevMarkers'[t] : p[1] = x /\ p[2] < m2
    BY <1>e, <2>2, <2>4
  <2>7. \A w \in Versions :
          (Loading' /\ w < at'[t]) \/ (Loaded' /\ w < m2)
             => Seen2(w) \/ <<x, w>> \in prevMarkers'[t]
    BY <1>e, <2>1, <2>2, <2>3, <2>4
  <2>8. (Shifting' => Out2(m2)) /\ (Waited' => \A w \in Versions : w < m2 => Seen2(w))
    <3>1. Shifting' => Out2(m)
      BY <1>a0, <1>d, <1>e, <2>1
    <3>2. Out2(m) => Out2(m2)
      BY <2>1 DEF m, m2, VersionOf, TableOf, Table
    <3> QED BY <1>e, <2>1, <2>2, <2>3, <3>1, <3>2
  <2> QED BY <2>5, <2>6, <2>7, <2>8
<1>r. ASSUME UNCHANGED <<seen, prevMarkers, markerVersion>>, Loaded,
             pc'[t] \in {"shift", "shiftLost"} => Out2(m),
             pc'[t] \in {"shift", "shiftLost", "abort"}
      PROVE  Goal
  <2>1. m2 = m /\ seen'[t] = seen[t] /\ prevMarkers'[t] = prevMarkers[t]
    BY <1>r DEF VersionOf, TableOf, Table
  <2>2. ~Loading' /\ ~Waited'
    BY <1>r
  <2>3. \A w \in seen'[t][x] : w < m2 /\ Final(x, w)'
    BY <1>a, <1>d, <1>e, <2>1
  <2>4. \A w \in Versions : w < m2 => Seen2(w) \/ <<x, w>> \in prevMarkers'[t]
    BY <1>d, <1>e, <1>r, <2>1
  <2>5. Out2(m) => Out2(m2)
    BY <1>r DEF VersionOf, TableOf, Table
  <2>6. \A p \in prevMarkers'[t] : p[1] = x /\ p[2] < m2
    BY <1>e, <2>1
  <2> QED BY <1>r, <2>2, <2>3, <2>4, <2>5, <2>6
<1>h. \A i \in 1 .. NumTables(t) : Table(t, i) = x
  BY AtTheTable
<1>z. Goal
  <2>q. Quiet1 => Goal
    BY <1>q
  <2>r. ASSUME UNCHANGED <<seen, prevMarkers, markerVersion>>, Loaded,
               pc'[t] \in {"shift", "shiftLost"} => Out2(m),
               pc'[t] \in {"shift", "shiftLost", "abort"}
        PROVE  Goal
    BY <1>r, <2>r
  <2>c. pc[t] \notin {"reserve", "shift", "shiftLost"} => m2 = m
    BY <1>c
  <2> HIDE DEF Goal, Quiet1
  <2>1. Reserve(t) => Goal
    <3> SUFFICES ASSUME Reserve(t) PROVE Goal
      OBVIOUS
    <3>0. Current(t) = x /\ x \notin held[t]
      BY <1>a DEF Reserve, Phases
    <3>1. /\ pc'[t] = "parse" /\ at'[t] = 0 /\ seen'[t][x] = {} /\ prevMarkers'[t] = prevMarkers[t]
      <4>1. pc'[t] = "parse" /\ at'[t] = 0 /\ prevMarkers'[t] = prevMarkers[t]
        BY <1>a, <3>0 DEF Reserve
      <4>2. seen' = [seen EXCEPT ![t][x] = {}]
        BY <3>0 DEF Reserve
      <4> QED BY <1>a, <1>a0, <4>1, <4>2
    <3>2. \A p \in prevMarkers[t] : p[2] \in Nat
      BY <1>a, <1>a0
    <3>3. m \in Nat /\ m2 \in Nat /\ m <= m2
      BY <1>a0, <1>c
    <3>4. \A p \in prevMarkers'[t] : p[1] = x /\ p[2] < m2
      BY <1>e, <3>1, <3>2, <3>3
    <3>5. ~Loaded' /\ ~Shifting' /\ ~Waited' /\ \A w \in Versions : ~(w < at'[t])
      BY <1>a0, <3>1 DEF Committing
    <3> QED BY <3>1, <3>4, <3>5 DEF Goal
  <2>2. ReleaseReplaced(t) => Goal
    BY <1>a, <2>q DEF ReleaseReplaced, Phases, Quiet1, Committing, Ended
  <2>3. ParseLogEntry(t) => Goal
    <3> SUFFICES ASSUME ParseLogEntry(t) PROVE Goal
      OBVIOUS
    <3> DEFINE v == at[t]
    <3>0. Current(t) = x /\ markerVersion[t][Current(t)] = m
      BY <1>a DEF ParseLogEntry, VersionOf
    <3>1. /\ pc[t] = "parse" /\ pc'[t] = "parse" /\ v < m /\ at'[t] = v + 1 /\ m2 = m
          /\ UNCHANGED log
      <4>1. /\ pc[t] = "parse" /\ pc'[t] = "parse" /\ v < markerVersion[t][Current(t)]
            /\ at'[t] = v + 1 /\ UNCHANGED log
        BY <1>a DEF ParseLogEntry
      <4> QED BY <2>c, <3>0, <4>1
    <3>2. v \in Versions
      BY <1>a, <1>a0, <3>1, ConstantsAssumption DEF Versions
    <3>3. CASE /\ log[x][v].kind # "marker" /\ prevMarkers'[t] = prevMarkers[t]
               /\ seen'[t][x] = seen[t][x] \cup {v}
      <4>1. Final(x, v)
        <5>1. Exists(x, m)
          BY <1>a0 DEF IInv, ReservedExists, VersionOf
        <5>2. Exists(x, v)
          BY <1>a0, <3>1, <3>2, <5>1 DEF IInv, LogInv, LogHasNoGaps, Exists
        <5> QED BY <1>a, <3>2, <3>3, <5>2 DEF Exists, Final
      <4>2. \A w \in seen'[t][x] : w < m2 /\ Final(x, w)'
        BY <1>a, <1>d, <1>e, <3>1, <3>2, <3>3, <4>1
      <4>3. \A w \in Versions : w < at'[t] => Seen2(w) \/ <<x, w>> \in prevMarkers'[t]
        <5> SUFFICES ASSUME NEW w \in Versions, w < v + 1 PROVE Seen2(w) \/ <<x, w>> \in prevMarkers'[t]
          BY <3>1
        <5>1. w < v \/ w = v
          BY <1>a, <1>a0
        <5> QED BY <5>1, <1>d, <1>e, <3>1, <3>3
      <4>4. \A p \in prevMarkers'[t] : p[1] = x /\ p[2] < m2
        BY <1>e, <3>1, <3>3
      <4>5. ~Loaded' /\ ~Shifting' /\ ~Waited'
        BY <3>1 DEF Committing
      <4> QED BY <4>2, <4>3, <4>4, <4>5 DEF Goal
    <3>4. CASE seen'[t] = seen[t] /\ prevMarkers'[t] = prevMarkers[t] \cup {<<x, v>>}
      <4>2. \A w \in seen'[t][x] : w < m2 /\ Final(x, w)'
        BY <1>a, <1>d, <1>e, <3>1, <3>4
      <4>3. \A w \in Versions : w < at'[t] => Seen2(w) \/ <<x, w>> \in prevMarkers'[t]
        <5> SUFFICES ASSUME NEW w \in Versions, w < v + 1 PROVE Seen2(w) \/ <<x, w>> \in prevMarkers'[t]
          BY <3>1
        <5>1. w < v \/ w = v
          BY <1>a, <1>a0
        <5> QED BY <5>1, <1>d, <1>e, <3>1, <3>4
      <4>4. \A p \in prevMarkers'[t] : p[1] = x /\ p[2] < m2
        BY <1>e, <3>1, <3>4
      <4>5. ~Loaded' /\ ~Shifting' /\ ~Waited'
        BY <3>1 DEF Committing
      <4> QED BY <4>2, <4>3, <4>4, <4>5 DEF Goal
    <3>5. \/ /\ log[x][v].kind # "marker" /\ prevMarkers' = prevMarkers
             /\ seen' = [seen EXCEPT ![t][x] = @ \cup {v}]
          \/ seen' = seen /\ prevMarkers' = [prevMarkers EXCEPT ![t] = @ \cup {<<x, v>>}]
      BY <3>0 DEF ParseLogEntry
    <3> QED BY <1>a, <1>a0, <3>3, <3>4, <3>5
  <2>4. TableLoaded(t) => Goal
    <3>1. TableLoaded(t) => at[t] = m
      BY <1>a DEF TableLoaded, VersionOf
    <3>2. TableLoaded(t) => Quiet1
      BY <1>a, <3>1 DEF TableLoaded, LoadedAll, Phases, Quiet1, Committing
    <3> QED BY <2>q, <3>2
  <2>5. Work(t) => Goal
    BY <1>a, <2>q DEF Work, Phases, Quiet1, Committing, Ended
  <2>6. Wait(t) => Goal
    <3> SUFFICES ASSUME Wait(t) PROVE Goal
      OBVIOUS
    <3> DEFINE applied == {v \in Versions : <<x, v>> \in prevMarkers[t]}
    <3>1. /\ pc[t] = "wait" /\ pc'[t] = "lease" /\ UNCHANGED <<log, prevMarkers, markerVersion>>
          /\ seen'[t][x] = seen[t][x] \cup applied
          /\ \A p \in prevMarkers[t] : Final(p[1], p[2])
      <4>1. /\ pc[t] = "wait" /\ pc'[t] = "lease" /\ UNCHANGED <<log, prevMarkers, markerVersion>>
            /\ \A p \in prevMarkers[t] \ {} : Final(p[1], p[2])
            /\ seen' = [seen EXCEPT ![t] = [y \in Tables |->
                          @[y] \cup {v \in Versions : <<y, v>> \in prevMarkers[t] \ {}}]]
        BY <1>a DEF Wait, WaitPass
      <4>2. seen'[t][x] = seen[t][x] \cup {v \in Versions : <<x, v>> \in prevMarkers[t] \ {}}
        BY <1>a, <1>a0, <4>1
      <4> QED BY <4>1, <4>2
    <3>2. m2 = m
      BY <1>c, <3>1
    <3>3. \A w \in applied : w \in Versions /\ w < m /\ Final(x, w)
      BY <1>e, <3>1
    <3>4. \A w \in seen'[t][x] : w < m2 /\ Final(x, w)'
      BY <1>a, <1>d, <1>e, <3>1, <3>2, <3>3
    <3>5. \A w \in Versions : w < m2 => Seen2(w)
      BY <1>d, <1>e, <3>1, <3>2 DEF Committing
    <3>6. \A p \in prevMarkers'[t] : p[1] = x /\ p[2] < m2
      BY <1>e, <3>1, <3>2
    <3> QED BY <3>1, <3>4, <3>5, <3>6 DEF Goal
  <2>7. TakeOver(t) => Goal
    BY <1>a, <2>q DEF TakeOver, Phases, Quiet1, Committing, Ended
  <2>8. LeaseHolds(t) => Goal
    BY <1>a, <2>q DEF LeaseHolds, Phases, Quiet1, Committing, Ended
  <2>9. LeaseExpiring(t) => Goal
    <3> SUFFICES ASSUME LeaseExpiring(t) PROVE Goal
      OBVIOUS
    <3>1. /\ UNCHANGED <<seen, prevMarkers, markerVersion>> /\ pc[t] = "lease" /\ pc'[t] \in {"shift", "abort"}
          /\ x \in held[t]
      BY <1>a, <1>h DEF LeaseExpiring, NextIn, Leased
    <3>2. IsMarkerOf(x, m, t) \/ log[x][m] = EmptyCommit
      BY <1>a0, <3>1 DEF IInv, HoldsOurs, Over, VersionOf
    <3>3. pc'[t] = "shift" => Out2(m)
      <4>1. pc'[t] = "shift" => ReplaceOwnMarker(t, x, m)
        BY <1>a, <1>h DEF LeaseExpiring, VersionOf
      <4>2. EmptyCommit.kind = "empty"
        BY DEF EmptyCommit, Object
      <4>3. log \in [Tables -> [Versions -> Objects]]
        BY DEF IInv, TypeOK
      <4> QED BY <1>a0, <3>2, <4>1, <4>2, <4>3 DEF ReplaceOwnMarker
    <3>4. Loaded
      BY <3>1 DEF Committing
    <3> QED BY <2>r, <3>1, <3>3, <3>4
  <2>10. Shift(t) => Goal
    <3> SUFFICES ASSUME Shift(t) PROVE Goal
      OBVIOUS
    <3>1. /\ pc[t] \in {"shift", "shiftLost"} /\ seen' = seen
          /\ (pc'[t] = "lease" /\ t \in shifted') \/ pc'[t] = "wait"
      BY <1>a DEF Shift
    <3>2. PICK v \in Versions : /\ v > m
                                /\ markerVersion' = [markerVersion EXCEPT ![t][x] = v]
                                /\ prevMarkers'[t] = prevMarkers[t] \cup ({x} \X Between(m, v))
      BY <1>a, <3>1 DEF Shift, FirstFree, VersionOf
    <3>3. m2 = v
      <4>1. DOMAIN markerVersion = Txns /\ DOMAIN markerVersion[t] = Tables
        BY DEF IInv, TypeOK, MarkerTypes
      <4> QED BY <1>a0, <1>b, <3>2, <4>1 DEF VersionOf
    <3>4. Loaded /\ Shifting /\ Out(m)
      BY <1>e, <3>1 DEF Committing
    <3>5. \A w \in seen'[t][x] : w < m2 /\ Final(x, w)'
      <4> SUFFICES ASSUME NEW w \in seen[t][x] PROVE w < v /\ Final(x, w)'
        BY <3>1, <3>3
      <4>1. w \in Versions /\ w < m /\ Final(x, w)
        BY <1>a, <1>e
      <4> QED BY <4>1, <1>a0, <1>d, <3>2
    <3>6. \A p \in prevMarkers'[t] : p[1] = x /\ p[2] < m2
      <4>1. \A p \in prevMarkers[t] : p[1] = x /\ p[2] < m /\ p[2] \in Nat
        BY <1>a, <1>a0, <1>e
      <4>2. \A p \in {x} \X Between(m, v) : p[1] = x /\ p[2] < v
        BY <1>a0 DEF Between
      <4>3. m \in Nat /\ v \in Nat
        BY <1>a0
      <4> QED BY <3>2, <3>3, <4>1, <4>2, <4>3
    <3>7. \A w \in Versions : w < m2 => Seen2(w) \/ <<x, w>> \in prevMarkers'[t]
      <4> SUFFICES ASSUME NEW w \in Versions, w < v PROVE Seen2(w) \/ <<x, w>> \in prevMarkers'[t]
        BY <3>3
      <4>1. w < m \/ w = m \/ w \in Between(m, v)
        BY <1>a0 DEF Between
      <4> QED BY <4>1, <1>a0, <1>d, <1>e, <3>1, <3>2, <3>4
    <3>8. ~Loading' /\ ~Shifting' /\ ~Waited'
      BY <3>1
    <3> QED BY <3>5, <3>6, <3>7, <3>8 DEF Goal
  <2>11. LeasesChecked(t) => Goal
    BY <1>a, <2>q DEF LeasesChecked, Phases, Quiet1, Committing, Ended
  <2>12. ValidateAsIs(t) => Goal
    BY <1>a, <2>q DEF ValidateAsIs, StartWriting, Phases, Quiet1, Committing, Ended
  <2>13. FirstRedo(t) => Goal
    BY <1>a, <2>q DEF FirstRedo, Redo, Phases, Quiet1, Committing, Ended
  <2>14. RedoAgain(t) => Goal
    <3> SUFFICES ASSUME RedoAgain(t) PROVE Goal
      OBVIOUS
    <3>1. /\ pc[t] = "validate" /\ pc'[t] = "redone" /\ UNCHANGED <<log, prevMarkers, markerVersion>>
          /\ seen'[t] = BelowMarkers(t)
      BY <1>a DEF RedoAgain
    <3>2. m2 = m
      BY <1>c, <3>1
    <3>3. seen'[t][x] = {w \in Versions : w < m /\ Final(x, w)}
      BY <1>a0, <3>1 DEF BelowMarkers, VersionOf
    <3>4. \A w \in seen'[t][x] : w < m2 /\ Final(x, w)'
      BY <1>d, <3>2, <3>3
    <3>5. \A w \in Versions : w < m2 => Seen2(w)
      <4> SUFFICES ASSUME NEW w \in Versions, w < m PROVE Seen2(w)
        BY <3>2
      <4>1. Seen1(w)
        BY <1>e, <3>1
      <4>2. Final(x, w)
        BY <4>1, <1>d, <1>e
      <4> QED BY <3>3, <4>2
    <3>6. \A p \in prevMarkers'[t] : p[1] = x /\ p[2] < m2
      BY <1>e, <3>1, <3>2
    <3> QED BY <3>1, <3>4, <3>5, <3>6 DEF Goal
  <2>15. RoundsUsedUp(t) => Goal
    BY <1>a, <2>q DEF RoundsUsedUp, RedoImpossible, Phases, Quiet1, Committing, Ended
  <2>16. Redone(t) => Goal
    BY <1>a, <2>q DEF Redone, StartWriting, Phases, Quiet1, Committing, Ended
  <2>17. WriteCommit(t) => Goal
    BY <1>a, <2>q DEF WriteCommit, Phases, Quiet1, Committing, Ended
  <2>18. WriteLost(t) => Goal
    <3> SUFFICES ASSUME WriteLost(t) PROVE Goal
      OBVIOUS
    <3>1. /\ UNCHANGED <<seen, prevMarkers, markerVersion>> /\ pc[t] = "write" /\ pc'[t] \in {"shiftLost", "abort"}
          /\ x \in held[t]
      BY <1>a, <1>h DEF WriteLost, NextIn, ToCommit, HoldsUntilCommit
    <3>2. IsMarkerOf(x, m, t) \/ log[x][m] = EmptyCommit
      BY <1>a0, <3>1 DEF IInv, HoldsOurs, Over, VersionOf
    <3>3. Out2(m)
      <4>1. ~IsMarkerOf(x, m, t) /\ UNCHANGED log
        BY <1>h DEF WriteLost, VersionOf
      <4>2. EmptyCommit.kind = "empty"
        BY DEF EmptyCommit, Object
      <4> QED BY <1>a0, <3>2, <4>1, <4>2
    <3>4. Loaded
      BY <3>1 DEF Committing
    <3> QED BY <2>r, <3>1, <3>3, <3>4
  <2>19. AllWritten(t) => Goal
    BY <1>a, <2>q DEF AllWritten, Phases, Quiet1, Committing, Ended
  <2>20. Release(t) => Goal
    BY <1>a, <2>q DEF Release, Phases, Quiet1, Committing, Ended
  <2>21. Released(t) => Goal
    BY <1>a, <2>q DEF Released, Phases, Quiet1, Committing, Ended
  <2>22. ReserveResponseLost(t) => Goal
    BY <1>a, <2>q DEF ReserveResponseLost, Phases, Quiet1, Committing, Ended
  <2>23. LoadFails(t) => Goal
    BY <1>a, <2>q DEF LoadFails, Phases, Quiet1, Committing, Ended
  <2>24. WaitMissesOne(t) => Goal
    BY DEF WaitMissesOne, Fault, WaitsAreAnswered
  <2>25. GiveUpWaiting(t) => Goal
    BY DEF GiveUpWaiting, Fault, WaitsAreAnswered
  <2>26. WriteFails(t) => Goal
    BY <1>a, <2>q DEF WriteFails, Phases, Quiet1, Committing, Ended
  <2>27. ReleaseFails(t) => Goal
    BY <1>a, <2>q DEF ReleaseFails, Phases, Quiet1, Committing, Ended
  <2>28. RebuildFails(t) => Goal
    BY <1>a, <2>q DEF RebuildFails, RedoImpossible, Phases, Quiet1, Committing, Ended
  <2>29. Crash(t) => Goal
    BY <1>a, <2>q DEF Crash, Phases, Quiet1, Committing, Ended
  <2> QED BY <2>1, <2>2, <2>3, <2>4, <2>5, <2>6, <2>7, <2>8, <2>9, <2>10, <2>11, <2>12,
             <2>13, <2>14, <2>15, <2>16, <2>17, <2>18, <2>19, <2>20, <2>21, <2>22,
             <2>23, <2>24, <2>25, <2>26, <2>27, <2>28, <2>29
       DEF Step, Opening, Waiting, Leasing, Validating, Writing, Releasing, StorageError
<1> HIDE DEF Goal
<1> QED BY <1>f, <1>z

\* No two versions of a table add the same file: it has one writer, and that
\* one commits once.
LEMMA AddedOnce ==
  ASSUME TypeOK, CommitsInOrder, \A u \in Txns : CommitsThere(u),
         NEW x \in Tables, NEW v \in Versions, NEW w \in Versions,
         NEW f, f \in log[x][v].add, f \in log[x][w].add
  PROVE  v = w
<1> DEFINE by == log[x][v].by
<1>1. /\ log[x][v].kind = "commit" /\ log[x][w].kind = "commit"
      /\ by = f.by /\ log[x][w].by = by
  BY DEF CommitsInOrder
<1>2. by \in Txns \/ by = NoTxn
  BY DEF TypeOK, Objects, Writers
<1>3. CASE by = NoTxn
  BY <1>1, <1>3 DEF CommitsInOrder
<1>4. CASE by \in Txns
  BY <1>1, <1>4 DEF CommitsThere, CommitsOf, Commits
<1> QED BY <1>2, <1>3, <1>4

\* What the snapshot finds under the key none of its versions has removed.
LEMMA KeyFilesAreNotRemoved ==
  ASSUME TypeOK, ConstantsAssumption, CommitsInOrder, \A u \in Txns : CommitsThere(u),
         NEW x \in Tables, NEW S \in SUBSET Versions, NEW w \in S
  PROVE  log[x][w].remove \cap KeyFilesIn(x, S) = {}
<1> SUFFICES ASSUME NEW f \in KeyFilesIn(x, S), f \in log[x][w].remove PROVE FALSE
  OBVIOUS
<1>1. PICK a \in S : f \in log[x][a].add /\ w < a
  BY LiveFilesWereAdded
<1>2. log[x][w].kind = "commit"
  BY DEF CommitsInOrder
<1>3. PICK b \in Versions : b < w /\ f \in log[x][b].add
  BY <1>2 DEF CommitsInOrder
<1>4. a = b
  BY <1>1, <1>3, AddedOnce
<1>5. a \in Nat /\ w \in Nat
  BY <1>1, ConstantsAssumption DEF Versions
<1> QED BY <1>1, <1>3, <1>4, <1>5

\* The conflicts with what a transaction removes are known to it.
LEMMA ConflictsKept ==
  ASSUME IInv, OneTable, WaitsAreAnswered, CommitsInOrder, \A u \in Txns : CommitsThere(u),
         NEW t \in Txns, Step(t) \/ StorageError(t) \/ Crash(t),
         Phases(t), LocalChanges(t), SeenIsFinal(t), ConcurrentKnown(t), Validated(t)
  PROVE  ConcurrentKnown(t)' /\ Validated(t)'
<1> DEFINE x == TableOf(t)
           Removed(w) == log[x][w].remove
           Removed2(w) == log'[x][w].remove
           Loading == pc[t] \in {"reserve", "parse", "work"}
           Loading2 == pc'[t] \in {"reserve", "parse", "work"}
<1>a0. /\ x \in Tables /\ VersionOf(t) \in Versions /\ NumTables(t) = 1
       /\ \A w \in Versions : w \in Nat
       /\ x = Table(t, 1)
       /\ TypeOK
  BY AtTheTable, ConstantsAssumption DEF Versions, TableOf, IInv
<1>a. /\ DOMAIN pc = Txns /\ DOMAIN seen = Txns /\ DOMAIN seen[t] = Tables
      /\ DOMAIN deletedFiles = Txns /\ DOMAIN deletedFiles[t] = Tables
      /\ DOMAIN concurrentRemoves = Txns /\ DOMAIN concurrentRemoves[t] = Tables
      /\ seen[t][x] \in SUBSET Versions /\ DOMAIN idx = Txns
  BY <1>a0 DEF TypeOK, WorkTypes, SnapTypes, ConflictTypes, LoadTypes
<1>b. TableOf(t)' = x
  BY DEF TableOf, Table
<1>c. \A w \in Versions : Final(x, w) => Removed2(w) = Removed(w)
  BY <1>a0, FinalStays
<1> DEFINE Goal == /\ pc'[t] \in Committing => \A w \in seen'[t][x] :
                        Removed2(w) \cap deletedFiles'[t][x] \subseteq concurrentRemoves'[t][x]
                   /\ pc'[t] \in {"redone", "write"} =>
                        deletedFiles'[t][x] \cap concurrentRemoves'[t][x] = {}
           Frame == /\ seen'[t][x] = seen[t][x] /\ deletedFiles'[t][x] = deletedFiles[t][x]
                    /\ concurrentRemoves'[t][x] = concurrentRemoves[t][x]
           Quiet1 == /\ Frame
                     /\ pc'[t] \in Committing => pc[t] \in Committing
                     /\ pc'[t] \in {"redone", "write"} => pc[t] \in {"redone", "write"}
<1>d. /\ pc[t] \in Committing => \A w \in seen[t][x] :
           Removed(w) \cap deletedFiles[t][x] \subseteq concurrentRemoves[t][x]
      /\ pc[t] \in {"redone", "write"} => deletedFiles[t][x] \cap concurrentRemoves[t][x] = {}
      /\ \A w \in seen[t][x] : w \in Versions /\ Removed2(w) = Removed(w)
  BY <1>a, <1>c DEF ConcurrentKnown, Validated, SeenIsFinal
<1>e. Goal => ConcurrentKnown(t)' /\ Validated(t)'
  BY <1>b DEF ConcurrentKnown, Validated, Committing
<1>q. Quiet1 => Goal
  BY <1>d
<1>l. \A w \in seen[t][x] : Removed2(w) \cap KeyFilesIn(x, seen[t][x]) = {}
  BY <1>a0, <1>a, <1>d, KeyFilesAreNotRemoved, ConstantsAssumption
<1> DEFINE below == BelowMarkers(t)[x]
<1>m. \A w \in below : Removed2(w) \cap KeyFilesIn(x, below) = {}
  <2>1. below \subseteq Versions /\ \A w \in below : Final(x, w)
    BY <1>a0 DEF BelowMarkers
  <2>2. \A w \in below : Removed(w) \cap KeyFilesIn(x, below) = {}
    BY <1>a0, <2>1, KeyFilesAreNotRemoved, ConstantsAssumption
  <2> QED BY <1>c, <2>1, <2>2
<1>z. Goal
  <2>q. Quiet1 => Goal
    BY <1>q
  <2> HIDE DEF Goal, x, Removed, Removed2
  <2>1. Reserve(t) => Goal
    <3> SUFFICES ASSUME Reserve(t) PROVE Goal
      OBVIOUS
    <3>1. pc'[t] \in {"replace", "parse"}
      BY <1>a DEF Reserve
    <3> QED BY <3>1 DEF Goal, Committing
  <2>2. ReleaseReplaced(t) => Goal
    BY <1>a, <1>a0, <2>q DEF ReleaseReplaced, Phases, Quiet1, Frame, Committing, Ended
  <2>3. ParseLogEntry(t) => Goal
    <3> SUFFICES ASSUME ParseLogEntry(t) PROVE Goal
      OBVIOUS
    <3>1. pc'[t] = "parse"
      BY <1>a DEF ParseLogEntry
    <3> QED BY <3>1 DEF Goal, Committing
  <2>4. TableLoaded(t) => Goal
    BY <1>a, <1>a0, <2>q DEF TableLoaded, LoadedAll, Phases, Quiet1, Frame, Committing, Ended
  <2>5. Work(t) => Goal
    <3> SUFFICES ASSUME Work(t) PROVE Goal
      OBVIOUS
    <3>0. idx[t] = 1 /\ Table(t, idx[t]) = x
      BY <1>a0 DEF Work, Phases
    <3>1. /\ deletedFiles'[t][x] = RemovedFiles(t, x) /\ seen'[t][x] = seen[t][x]
          /\ pc'[t] \notin {"redone", "write"}
      BY <1>a0, <1>a, <3>0 DEF Work
    <3>2. RemovedFiles(t, x) \subseteq KeyFilesIn(x, seen[t][x])
      BY DEF RemovedFiles, KeyFiles
    <3> QED BY <1>l, <3>1, <3>2 DEF Goal
  <2>6. Wait(t) => Goal
    <3> SUFFICES ASSUME Wait(t) PROVE Goal
      OBVIOUS
    <3> DEFINE applied == {v \in Versions : <<x, v>> \in prevMarkers[t]}
    <3>1. /\ pc[t] = "wait" /\ pc'[t] = "lease" /\ UNCHANGED <<log, deletedFiles>>
          /\ \A p \in prevMarkers[t] \ {} : Final(p[1], p[2])
          /\ seen' = [seen EXCEPT ![t] = [y \in Tables |->
                        @[y] \cup {v \in Versions : <<y, v>> \in prevMarkers[t] \ {}}]]
          /\ concurrentRemoves' = [concurrentRemoves EXCEPT ![t] = [y \in Tables |->
               @[y] \cup UNION {log[y][v].remove : v \in {w \in Versions : <<y, w>> \in prevMarkers[t] \ {}}}]]
      BY <1>a DEF Wait, WaitPass
    <3>2. seen'[t][x] = seen[t][x] \cup applied
      <4>1. seen'[t][x] = seen[t][x] \cup {v \in Versions : <<x, v>> \in prevMarkers[t] \ {}}
        BY <1>a, <1>a0, <3>1
      <4> QED BY <4>1
    <3>3. concurrentRemoves'[t][x] = concurrentRemoves[t][x] \cup UNION {Removed(v) : v \in applied}
      <4>1. concurrentRemoves'[t][x] = concurrentRemoves[t][x]
              \cup UNION {log[x][v].remove : v \in {w \in Versions : <<x, w>> \in prevMarkers[t] \ {}}}
        BY <1>a, <1>a0, <3>1
      <4>2. {w \in Versions : <<x, w>> \in prevMarkers[t] \ {}} = applied
        OBVIOUS
      <4> QED BY <4>1, <4>2 DEF Removed
    <3>4. \A w \in applied : Removed2(w) = Removed(w)
      BY <3>1 DEF Removed, Removed2
    <3>5. deletedFiles'[t][x] = deletedFiles[t][x]
      BY <3>1
    <3>6. ASSUME NEW w \in seen'[t][x] PROVE Removed2(w) \cap deletedFiles[t][x] \subseteq concurrentRemoves'[t][x]
      <4>1. CASE w \in seen[t][x]
        BY <1>d, <3>1, <3>3, <4>1 DEF Committing
      <4>2. CASE w \in applied
        BY <3>3, <3>4, <4>2
      <4> QED BY <3>2, <3>6, <4>1, <4>2
    <3> QED BY <3>1, <3>5, <3>6 DEF Goal
  <2>7. TakeOver(t) => Goal
    BY <1>a, <1>a0, <2>q DEF TakeOver, Phases, Quiet1, Frame, Committing, Ended
  <2>8. LeaseHolds(t) => Goal
    BY <1>a, <1>a0, <2>q DEF LeaseHolds, Phases, Quiet1, Frame, Committing, Ended
  <2>9. LeaseExpiring(t) => Goal
    BY <1>a, <1>a0, <2>q DEF LeaseExpiring, Phases, Quiet1, Frame, Committing, Ended
  <2>10. Shift(t) => Goal
    BY <1>a, <1>a0, <2>q DEF Shift, Phases, Quiet1, Frame, Committing, Ended
  <2>11. LeasesChecked(t) => Goal
    BY <1>a, <1>a0, <2>q DEF LeasesChecked, Phases, Quiet1, Frame, Committing, Ended
  <2>12. ValidateAsIs(t) => Goal
    <3> SUFFICES ASSUME ValidateAsIs(t) PROVE Goal
      OBVIOUS
    <3>1. /\ Frame /\ pc[t] = "validate"
          /\ pc'[t] = "abort" \/ (pc'[t] = "write" /\ ~Conflict(t))
      BY <1>a DEF ValidateAsIs, StartWriting
    <3>2. ~Conflict(t) => deletedFiles[t][x] \cap concurrentRemoves[t][x] = {}
      BY <1>a0 DEF Conflict, WriteConflict
    <3> QED BY <1>d, <3>1, <3>2 DEF Goal, Committing
  <2>13. FirstRedo(t) => Goal
    <3> SUFFICES ASSUME FirstRedo(t) PROVE Goal
      OBVIOUS
    <3>1. /\ pc'[t] = "redone" /\ Redo(t, seen[t], createdFiles[t], deletedFiles[t])
          /\ seen' = seen /\ t \notin explicitLog /\ t \notin redoDone
      BY <1>a DEF FirstRedo, CanRedo
    <3>2. deletedFiles[t][x] = {}
      BY <3>1 DEF LocalChanges, x
    <3>3. /\ deletedFiles'[t][x] \subseteq deletedFiles[t][x] \cup KeyFilesIn(x, seen[t][x])
          /\ concurrentRemoves'[t][x] = {}
      BY <3>1, <1>a, <1>a0 DEF Redo, NoFiles
    <3> QED BY <1>l, <3>1, <3>2, <3>3 DEF Goal
  <2>14. RedoAgain(t) => Goal
    <3> SUFFICES ASSUME RedoAgain(t) PROVE Goal
      OBVIOUS
    <3>1. /\ pc'[t] = "redone" /\ Redo(t, BelowMarkers(t), NoFiles, NoFiles)
          /\ seen'[t][x] = below
      BY <1>a DEF RedoAgain
    <3>2. /\ deletedFiles'[t][x] \subseteq NoFiles[x] \cup KeyFilesIn(x, below)
          /\ concurrentRemoves'[t][x] = {} /\ NoFiles[x] = {}
      BY <3>1, <1>a, <1>a0 DEF Redo, NoFiles
    <3> QED BY <1>m, <3>1, <3>2 DEF Goal
  <2>15. RoundsUsedUp(t) => Goal
    BY <1>a, <1>a0, <2>q DEF RoundsUsedUp, RedoImpossible, Phases, Quiet1, Frame, Committing, Ended
  <2>16. Redone(t) => Goal
    BY <1>a, <1>a0, <2>q DEF Redone, StartWriting, Phases, Quiet1, Frame, Committing, Ended
  <2>17. WriteCommit(t) => Goal
    BY <1>a, <1>a0, <2>q DEF WriteCommit, Phases, Quiet1, Frame, Committing, Ended
  <2>18. WriteLost(t) => Goal
    BY <1>a, <1>a0, <2>q DEF WriteLost, Phases, Quiet1, Frame, Committing, Ended
  <2>19. AllWritten(t) => Goal
    BY <1>a, <1>a0, <2>q DEF AllWritten, Phases, Quiet1, Frame, Committing, Ended
  <2>20. Release(t) => Goal
    BY <1>a, <1>a0, <2>q DEF Release, Phases, Quiet1, Frame, Committing, Ended
  <2>21. Released(t) => Goal
    BY <1>a, <1>a0, <2>q DEF Released, Phases, Quiet1, Frame, Committing, Ended
  <2>22. ReserveResponseLost(t) => Goal
    BY <1>a, <1>a0, <2>q DEF ReserveResponseLost, Phases, Quiet1, Frame, Committing, Ended
  <2>23. LoadFails(t) => Goal
    BY <1>a, <1>a0, <2>q DEF LoadFails, Phases, Quiet1, Frame, Committing, Ended
  <2>24. WaitMissesOne(t) => Goal
    BY DEF WaitMissesOne, Fault, WaitsAreAnswered
  <2>25. GiveUpWaiting(t) => Goal
    BY DEF GiveUpWaiting, Fault, WaitsAreAnswered
  <2>26. WriteFails(t) => Goal
    BY <1>a, <1>a0, <2>q DEF WriteFails, Phases, Quiet1, Frame, Committing, Ended
  <2>27. ReleaseFails(t) => Goal
    BY <1>a, <1>a0, <2>q DEF ReleaseFails, Phases, Quiet1, Frame, Committing, Ended
  <2>28. RebuildFails(t) => Goal
    BY <1>a, <1>a0, <2>q DEF RebuildFails, RedoImpossible, Phases, Quiet1, Frame, Committing, Ended
  <2>29. Crash(t) => Goal
    BY <1>a, <1>a0, <2>q DEF Crash, Phases, Quiet1, Frame, Committing, Ended
  <2> QED BY <2>1, <2>2, <2>3, <2>4, <2>5, <2>6, <2>7, <2>8, <2>9, <2>10, <2>11, <2>12,
             <2>13, <2>14, <2>15, <2>16, <2>17, <2>18, <2>19, <2>20, <2>21, <2>22,
             <2>23, <2>24, <2>25, <2>26, <2>27, <2>28, <2>29
       DEF Step, Opening, Waiting, Leasing, Validating, Writing, Releasing, StorageError
<1> HIDE DEF Goal
<1> QED BY <1>e, <1>z

\* Commits stay in order: when a transaction writes its commit it has seen all
\* versions below, and has found no conflict with any of them.
LEMMA CommitsInOrderKept ==
  ASSUME IInv, OneTable, CommitsInOrder, NEW t \in Txns, Step(t) \/ StorageError(t) \/ Crash(t),
         TableInv(t)
  PROVE  CommitsInOrder'
<1>a. /\ TypeOK /\ TableOf(t) \in Tables /\ VersionOf(t) \in Versions
      /\ \A i \in 1 .. NumTables(t) : Table(t, i) = TableOf(t)
  BY AtTheTable DEF IInv
<1> DEFINE Ordered(x, v) ==
      /\ log[x][v].kind # "commit" => log[x][v].add = {} /\ log[x][v].remove = {}
      /\ log[x][v].kind = "commit" =>
         /\ log[x][v].by = NoTxn => v = 0
         /\ ChangesData(x, v)
         /\ \A f \in log[x][v].add : f.by = log[x][v].by
         /\ \A w \in Versions : w < v => /\ Final(x, w)
                                         /\ log[x][w].remove \cap log[x][v].remove = {}
         /\ \A f \in log[x][v].remove : \E w \in Versions : w < v /\ f \in log[x][w].add
<1>b. \A x \in Tables, v \in Versions : Ordered(x, v)
  BY DEF CommitsInOrder
<1>c. \A x \in Tables, w \in Versions : Final(x, w) => log'[x][w] = log[x][w] /\ Final(x, w)'
  BY FinalStays
<1>d. ASSUME NEW x \in Tables, NEW v \in Versions, log'[x][v] = log[x][v]
      PROVE  Ordered(x, v)'
  <2>1. CASE log[x][v].kind # "commit"
    BY <1>b, <1>d, <2>1
  <2>2. CASE log[x][v].kind = "commit"
    <3>1. ChangesData(x, v)'
      BY <1>b, <1>d, <2>2 DEF ChangesData
    <3>2. ASSUME NEW w \in Versions, w < v
          PROVE  Final(x, w)' /\ log'[x][w].remove \cap log'[x][v].remove = {}
      BY <1>b, <1>c, <1>d, <2>2, <3>2
    <3>3. ASSUME NEW f \in log'[x][v].remove
          PROVE  \E w \in Versions : w < v /\ f \in log'[x][w].add
      <4>1. PICK w \in Versions : w < v /\ f \in log[x][w].add
        BY <1>b, <1>d, <2>2, <3>3
      <4> QED BY <1>b, <1>c, <2>2, <4>1
    <3> QED BY <1>b, <1>d, <2>2, <3>1, <3>2, <3>3
  <2> QED BY <2>1, <2>2
<1>e. ASSUME NEW x \in Tables, NEW v \in Versions,
             log'[x][v] \in {Marker(t), EmptyCommit}
      PROVE  Ordered(x, v)'
  BY <1>e DEF Marker, EmptyCommit, Object
<1>f. ASSUME NEW x \in Tables, NEW v \in Versions, x = TableOf(t), v = VersionOf(t),
             pc[t] = "write", x \in ToCommit(t),
             WriteLog(x, v, Commit(t, createdFiles[t][x], deletedFiles[t][x]))
      PROVE  Ordered(x, v)'
  <2> DEFINE created == createdFiles[t][x]
             deleted == deletedFiles[t][x]
  <2>1. log'[x][v] = Commit(t, created, deleted)
    BY <1>a, <1>f DEF WriteLog, TypeOK
  <2>2. /\ log'[x][v].kind = "commit" /\ log'[x][v].by = t
        /\ log'[x][v].add = created /\ log'[x][v].remove = deleted
    BY <2>1 DEF Commit, Object
  <2>3. created # {} \/ deleted # {}
    BY <1>f DEF ToCommit, Changed
  <2>4. /\ \A f \in created : f.by = t
        /\ \A f \in deleted : \E w \in Versions : w < v /\ Final(x, w) /\ f \in log[x][w].add
    BY <1>f DEF TableInv, LocalChanges
  <2>5. ASSUME NEW w \in Versions, w < v
        PROVE  Final(x, w) /\ log[x][w].remove \cap deleted = {}
    <3>1. w \in seen[t][x] \/ log[x][w].kind = "empty"
      BY <1>f, <2>5 DEF TableInv, Known, SeenOrEmpty
    <3>2. CASE w \in seen[t][x]
      <4>1. Final(x, w)
        BY <1>f, <3>2 DEF TableInv, SeenIsFinal
      <4>2. log[x][w].remove \cap deleted \subseteq concurrentRemoves[t][x]
        BY <1>f, <3>2 DEF TableInv, ConcurrentKnown, Committing
      <4>3. deleted \cap concurrentRemoves[t][x] = {}
        BY <1>f DEF TableInv, Validated
      <4> QED BY <4>1, <4>2, <4>3
    <3>3. CASE log[x][w].kind = "empty"
      BY <1>a, <1>b, <3>3 DEF Final
    <3> QED BY <3>1, <3>2, <3>3
  <2>6. \A w \in Versions : w < v => /\ Final(x, w)'
                                     /\ log'[x][w].remove \cap log'[x][v].remove = {}
    BY <1>a, <1>c, <2>2, <2>5
  <2>7. \A f \in log'[x][v].remove : \E w \in Versions : w < v /\ f \in log'[x][w].add
    <3> SUFFICES ASSUME NEW f \in deleted PROVE \E w \in Versions : w < v /\ f \in log'[x][w].add
      BY <2>2
    <3>1. PICK w \in Versions : w < v /\ Final(x, w) /\ f \in log[x][w].add
      BY <2>4
    <3> QED BY <1>a, <1>c, <3>1
  <2>8. ChangesData(x, v)'
    BY <2>2, <2>3 DEF ChangesData
  <2>9. t # NoTxn
    BY ConstantsAssumption
  <2> QED BY <2>2, <2>4, <2>6, <2>7, <2>8, <2>9
<1>g. \A x \in Tables, v \in Versions : \A o :
        WriteLog(x, v, o) => \A y \in Tables, w \in Versions :
           log'[y][w] = IF y = x /\ w = v THEN o ELSE log[y][w]
  BY <1>a DEF WriteLog, TypeOK
<1>h. \A x \in Tables, v \in Versions : Ordered(x, v)'
  <2> SUFFICES ASSUME NEW y \in Tables, NEW w \in Versions, log'[y][w] # log[y][w]
               PROVE  Ordered(y, w)'
    BY <1>d
  <2> HIDE DEF Ordered
  <2>1. StepWritesTo(t)
    BY StepWrites
  <2>2. CASE \E x \in Tables, v \in Versions : WriteLog(x, v, Marker(t)) \/ WriteLog(x, v, EmptyCommit)
    BY <1>e, <1>g, <2>2
  <2>3. CASE /\ pc[t] = "write" /\ TableOf(t) \in ToCommit(t)
             /\ WriteLog(TableOf(t), VersionOf(t),
                         Commit(t, createdFiles[t][TableOf(t)], deletedFiles[t][TableOf(t)]))
    <3>1. y = TableOf(t) /\ w = VersionOf(t)
      BY <1>a, <1>g, <2>3
    <3> QED BY <1>f, <2>3, <3>1
  <2> QED BY <1>a, <2>1, <2>2, <2>3 DEF StepWritesTo, NextIn, VersionOf
<1> QED BY <1>h DEF CommitsInOrder

\* The end of a lease is no change to an order of commits.
LEMMA TimeKeepsOrder ==
  ASSUME TypeOK, CommitsInOrder, NEW x \in Tables, NEW v \in Versions, LeaseEnds(x, v)
  PROVE  CommitsInOrder'
<1>1. \A y \in Tables, w \in Versions :
        /\ log'[y][w].kind = log[y][w].kind /\ log'[y][w].by = log[y][w].by
        /\ log'[y][w].add = log[y][w].add /\ log'[y][w].remove = log[y][w].remove
  BY DEF TypeOK, Objects, LeaseEnds
<1> QED BY <1>1 DEF CommitsInOrder, Final, ChangesData

\* What is said of a transaction stays true when only others take steps.
LEMMA OthersTableInv ==
  ASSUME TypeOK, OneTable, NEW u \in Txns, TableInv(u), Stays(u),
         TableOf(u) \in Tables,
         \A x \in Tables, w \in Versions : Final(x, w) => log'[x][w] = log[x][w] /\ Final(x, w)',
         \A x \in Tables : CommitsOf(u, x)' \subseteq CommitsOf(u, x)
  PROVE  TableInv(u)'
<1>a. TableOf(u)' = TableOf(u) /\ VersionOf(u)' = VersionOf(u)
  BY DEF Stays, TableOf, VersionOf, Table
<1>b. \A w \in Versions : log[TableOf(u)][w].kind = "empty" => log'[TableOf(u)][w].kind = "empty"
  BY DEF Final
<1>c. \A w \in Versions : SeenOrEmpty(u, w) => SeenOrEmpty(u, w)'
  BY <1>a, <1>b DEF SeenOrEmpty, Stays
<1>d. seen[u][TableOf(u)] \subseteq Versions
  BY DEF TypeOK, SnapTypes
<1>e. VersionOf(u) \in Versions
  BY DEF VersionOf, TypeOK, MarkerTypes
<1>1. HeldOpened(u)' /\ Phases(u)' /\ HoldsUntilCommit(u)' /\ CommitsThere(u)'
  BY <1>a DEF TableInv, Stays, HeldOpened, Phases, HoldsUntilCommit, CommitsThere, Over,
              Table, NumTables
<1>2. LocalChanges(u)'
  <2>1. \A f \in deletedFiles[u][TableOf(u)] : \E w \in Versions :
           w < VersionOf(u) /\ Final(TableOf(u), w)' /\ f \in log'[TableOf(u)][w].add
    <3> SUFFICES ASSUME NEW f \in deletedFiles[u][TableOf(u)]
                 PROVE  \E w \in Versions :
                          w < VersionOf(u) /\ Final(TableOf(u), w)' /\ f \in log'[TableOf(u)][w].add
      OBVIOUS
    <3>1. PICK w \in Versions : w < VersionOf(u) /\ Final(TableOf(u), w) /\ f \in log[TableOf(u)][w].add
      BY DEF TableInv, LocalChanges
    <3> QED BY <3>1
  <2> QED BY <1>a, <2>1 DEF TableInv, Stays, LocalChanges
<1>3. SeenIsFinal(u)'
  BY <1>a, <1>d DEF TableInv, Stays, SeenIsFinal
<1>4. Covered(u)' /\ Known(u)'
  BY <1>a, <1>c DEF TableInv, Stays, Covered, Known, Committing
<1>5. GivenUp(u)'
  BY <1>a, <1>b, <1>e DEF TableInv, Stays, GivenUp
<1>6. ConcurrentKnown(u)'
  <2>1. \A w \in seen[u][TableOf(u)] : log'[TableOf(u)][w] = log[TableOf(u)][w]
    BY <1>d DEF TableInv, SeenIsFinal
  <2> QED BY <1>a, <2>1 DEF TableInv, Stays, ConcurrentKnown, Committing
<1>7. Validated(u)'
  BY <1>a DEF TableInv, Stays, Validated
<1> QED BY <1>1, <1>2, <1>3, <1>4, <1>5, <1>6, <1>7 DEF TableInv

\* A step of a transaction, a crash or the end of a lease: what it does to a
\* transaction u that does not take it
LEMMA StepOfOthers ==
  ASSUME IInv, NEW u \in Txns,
         \/ UNCHANGED vars \/ AllEnded \/ \E x \in Tables, v \in Versions : LeaseEnds(x, v)
         \/ \E t \in Txns \ {u} : Step(t) \/ StorageError(t) \/ Crash(t)
  PROVE  /\ Stays(u)
         /\ \A x \in Tables, w \in Versions : Final(x, w) => log'[x][w] = log[x][w] /\ Final(x, w)'
         /\ \A x \in Tables : CommitsOf(u, x)' \subseteq CommitsOf(u, x)
<1>1. TypeOK /\ LogInv
  BY DEF IInv
<1>2. CASE UNCHANGED vars \/ AllEnded
  BY <1>2 DEF vars, AllEnded, Stays, CommitsOf, Commits, Final
<1>3. ASSUME NEW x \in Tables, NEW v \in Versions, LeaseEnds(x, v)
      PROVE  /\ Stays(u)
             /\ \A y \in Tables, w \in Versions : Final(y, w) => log'[y][w] = log[y][w] /\ Final(y, w)'
             /\ \A y \in Tables : CommitsOf(u, y)' \subseteq CommitsOf(u, y)
  <2>1. Stays(u)
    BY <1>3 DEF LeaseEnds, Stays
  <2>2. \A y \in Tables, w \in Versions : Final(y, w) => log'[y][w] = log[y][w]
    BY <1>1, <1>3 DEF LeaseEnds, TypeOK, Final
  <2>3. \A y \in Tables, w \in Versions :
          log'[y][w].kind = log[y][w].kind /\ log'[y][w].by = log[y][w].by
    BY <1>1, <1>3 DEF LeaseEnds, TypeOK, Objects
  <2> QED BY <2>1, <2>2, <2>3 DEF Final, CommitsOf, Commits
<1>4. ASSUME NEW t \in Txns \ {u}, Step(t) \/ StorageError(t) \/ Crash(t)
      PROVE  /\ Stays(u)
             /\ \A x \in Tables, w \in Versions : Final(x, w) => log'[x][w] = log[x][w] /\ Final(x, w)'
             /\ \A x \in Tables : CommitsOf(u, x)' \subseteq CommitsOf(u, x)
  <2>1. LogStep(t) /\ t \in Writers
    BY <1>4, StepEffect DEF Effect, Writers
  <2>2. Stays(u)
    BY <1>1, <1>4, OthersVariablesStay DEF OthersStay
  <2> QED BY <1>1, <1>4, <2>1, <2>2, FinalStays, OthersCommits
<1> QED BY <1>2, <1>3, <1>4

\* Every step keeps the order of the commits and what is said about every
\* transaction.
LEMMA NextTableInv ==
  ASSUME OneTable, WaitsAreAnswered, IInv, CommitsInOrder, \A u \in Txns : TableInv(u), [Next]_vars
  PROVE  CommitsInOrder' /\ \A u \in Txns : TableInv(u)'
<1>1. TypeOK /\ \A u \in Txns : TableOf(u) \in Tables
  BY AtTheTable DEF IInv
<1>2. CommitsInOrder'
  <2>1. CASE UNCHANGED vars \/ AllEnded
    BY <2>1 DEF vars, AllEnded, CommitsInOrder, Final, ChangesData
  <2>2. ASSUME NEW x \in Tables, NEW v \in Versions, LeaseEnds(x, v) PROVE CommitsInOrder'
    BY <1>1, <2>2, TimeKeepsOrder
  <2>3. ASSUME NEW t \in Txns, Step(t) \/ StorageError(t) \/ Crash(t) PROVE CommitsInOrder'
    BY <2>3, CommitsInOrderKept
  <2> QED BY <2>1, <2>2, <2>3 DEF Next
<1>3. ASSUME NEW u \in Txns PROVE TableInv(u)'
  <2>1. CASE \/ UNCHANGED vars \/ AllEnded \/ \E x \in Tables, v \in Versions : LeaseEnds(x, v)
             \/ \E t \in Txns \ {u} : Step(t) \/ StorageError(t) \/ Crash(t)
    BY <1>1, <2>1, StepOfOthers, OthersTableInv
  <2>2. CASE Step(u) \/ StorageError(u) \/ Crash(u)
    <3>1. /\ HeldOpened(u) /\ Phases(u) /\ HoldsUntilCommit(u) /\ CommitsThere(u) /\ LocalChanges(u)
          /\ SeenIsFinal(u) /\ Covered(u) /\ GivenUp(u) /\ Known(u) /\ ConcurrentKnown(u) /\ Validated(u)
          /\ \A v \in Txns : CommitsThere(v)
          /\ Position
      BY DEF TableInv, IInv
    <3>2. HeldOpened(u)' /\ Phases(u)' /\ HoldsUntilCommit(u)' /\ CommitsThere(u)'
      BY <1>1, <2>2, <3>1, HeldOpenedKept, PhasesKept, HoldsUntilCommitKept, CommitsThereKept
    <3>3. LocalChanges(u)'
      BY <2>2, <3>1, LocalChangesKept
    <3>4. SeenIsFinal(u)' /\ Covered(u)' /\ GivenUp(u)' /\ Known(u)'
      BY <2>2, <3>1, SnapshotKept
    <3>5. ConcurrentKnown(u)' /\ Validated(u)'
      BY <2>2, <3>1, ConflictsKept
    <3> QED BY <3>2, <3>3, <3>4, <3>5 DEF TableInv
  <2> QED BY <2>1, <2>2 DEF Next
<1> QED BY <1>2, <1>3

\* The initial log has the commit that created the table.
LEMMA InitTableInv ==
  ASSUME OneTable, Init
  PROVE  CommitsInOrder /\ \A t \in Txns : TableInv(t)
<1>1. IInv
  BY InitIInv
<1>2. \A x \in Tables, v \in Versions :
        log[x][v] = IF v = 0 THEN Commit(NoTxn, {File(NoTxn, 0, TRUE)}, {}) ELSE Absent
  BY DEF Init
<1>3. \A x \in Tables, v \in Versions :
        /\ log[x][v].kind = "commit" <=> v = 0
        /\ log[x][v].by = NoTxn /\ log[x][v].remove = {}
        /\ v # 0 => log[x][v].add = {}
        /\ v = 0 => log[x][v].add # {} /\ \A f \in log[x][v].add : f.by = NoTxn
  <2> SUFFICES ASSUME NEW x \in Tables, NEW v \in Versions
               PROVE  /\ log[x][v].kind = "commit" <=> v = 0
                      /\ log[x][v].by = NoTxn /\ log[x][v].remove = {}
                      /\ v # 0 => log[x][v].add = {}
                      /\ v = 0 => log[x][v].add # {} /\ \A f \in log[x][v].add : f.by = NoTxn
    OBVIOUS
  <2> DEFINE first == File(NoTxn, 0, TRUE)
  <2>1. first.by = NoTxn
    BY DEF File
  <2> HIDE DEF first
  <2>2. log[x][v] = IF v = 0 THEN Commit(NoTxn, {first}, {}) ELSE Absent
    BY <1>2 DEF first
  <2> QED BY <2>1, <2>2 DEF Commit, Absent, Object
<1>4. CommitsInOrder
  BY <1>3, ConstantsAssumption DEF CommitsInOrder, Versions, ChangesData
<1>5. ASSUME NEW t \in Txns PROVE TableInv(t)
  <2> DEFINE x == TableOf(t)
  <2>1. /\ pc[t] = "reserve" /\ idx[t] = 0 /\ cur[t] = 1 /\ t \notin reopening /\ t \notin shifted
        /\ held[t] = {} /\ committed[t] = {} /\ prevMarkers[t] = {}
    BY DEF Init
  <2>2. x \in Tables
    BY <1>1, AtTheTable
  <2>3. deletedFiles[t][x] = {} /\ createdFiles[t][x] = {} /\ seen[t][x] = {}
    BY <2>2 DEF Init, NoFiles
  <2>4. \A y \in Tables : CommitsOf(t, y) = {}
    BY <1>3, ConstantsAssumption DEF CommitsOf, Commits
  <2>5. HeldOpened(t) /\ Phases(t) /\ HoldsUntilCommit(t) /\ CommitsThere(t)
    BY <2>1, <2>4 DEF HeldOpened, Phases, HoldsUntilCommit, CommitsThere
  <2>6. LocalChanges(t) /\ SeenIsFinal(t)
    BY <2>1, <2>3 DEF LocalChanges, SeenIsFinal
  <2>7. Covered(t) /\ GivenUp(t) /\ Known(t) /\ ConcurrentKnown(t) /\ Validated(t)
    BY <2>1 DEF Covered, GivenUp, Known, ConcurrentKnown, Validated, Committing
  <2> QED BY <2>5, <2>6, <2>7 DEF TableInv
<1> QED BY <1>4, <1>5

\* What holds of the log, and of every transaction on its one table
TableInvs == CommitsInOrder /\ \A t \in Txns : TableInv(t)

\* It holds at the start and every step keeps it.
LEMMA TableInductive ==
  ASSUME OneTable, WaitsAreAnswered
  PROVE  Spec => [](IInv /\ TableInvs)
<1>1. Init => TableInvs
  BY InitTableInv DEF TableInvs
<1>2. IInv /\ TableInvs /\ [Next]_vars => TableInvs'
  BY NextTableInv DEF TableInvs
<1> QED BY <1>1, <1>2, Inductive, PTL DEF Spec

\* No two commits to a table remove the same file: no update is lost, with
\* either isolation level, through every redo, takeover, shift and crash, when
\* a transaction opens one table and every wait is answered.
THEOREM NoUpdateIsLost ==
  ASSUME OneTable, WaitsAreAnswered
  PROVE  Spec => []NoFileRemovedTwice
<1>1. IInv /\ TableInvs => NoFileRemovedTwice
  <2> SUFFICES ASSUME CommitsInOrder, NEW x \in Tables, NEW v \in Commits(x), NEW w \in Commits(x), v # w
               PROVE  log[x][v].remove \cap log[x][w].remove = {}
    BY DEF TableInvs, NoFileRemovedTwice
  <2>1. v \in Versions /\ w \in Versions /\ (v < w \/ w < v)
    BY ConstantsAssumption DEF Commits, Versions
  <2> QED BY <2>1 DEF CommitsInOrder, Commits
<1> QED BY <1>1, TableInductive, PTL

-----------------------------------------------------------------------------
(* Serializable transactions on one table: what they have read *)

\* What is read lies below the reserved version.
LEMMA ReadsKept ==
  ASSUME IInv, OneTable, WaitsAreAnswered, RedoesAll,
         NEW t \in Txns, Step(t) \/ StorageError(t) \/ Crash(t),
         Phases(t), SeenIsFinal(t), ReadsBelow(t), NothingYet(t)
  PROVE  ReadsBelow(t)' /\ NothingYet(t)'
<1> DEFINE x == TableOf(t)
           m == VersionOf(t)
           m2 == VersionOf(t)'
           Before == pc[t] \in {"reserve", "parse", "work"}
           Unchanging == createdFiles[t][x] = {} /\ deletedFiles[t][x] = {}
<1>a0. /\ x \in Tables /\ m \in Versions /\ NumTables(t) = 1
       /\ \A w \in Versions : w \in Nat
       /\ x = Table(t, 1)
  BY AtTheTable, ConstantsAssumption DEF Versions, TableOf
<1>a. /\ DOMAIN pc = Txns /\ DOMAIN seen = Txns /\ DOMAIN wasRead = Txns
      /\ DOMAIN observed = Txns /\ DOMAIN observed[t] = Tables
      /\ DOMAIN createdFiles = Txns /\ DOMAIN createdFiles[t] = Tables
      /\ DOMAIN deletedFiles = Txns /\ DOMAIN deletedFiles[t] = Tables
      /\ seen[t][x] \subseteq Versions /\ observed[t][x] \subseteq Versions
      /\ {Level0} \subseteq BOOLEAN
  BY <1>a0, ConstantsAssumption DEF IInv, TypeOK, WorkTypes, SnapTypes
<1>b. TableOf(t)' = x
  BY DEF TableOf, Table
<1>c. m2 \in Versions /\ m <= m2
  BY VersionsGrow
<1>d. \A w \in seen[t][x] : w < m
  BY DEF SeenIsFinal
<1> DEFINE Goal == /\ wasRead'[t] \subseteq {x}
                   /\ Before' => wasRead'[t] = {}
                   /\ \A w \in observed'[t][x] : w < m2
                   /\ ~Level0 => t \in explicitLog'
                   /\ Level0 /\ wasRead'[t] # {} => RedoneOnly(t)
                   /\ wasRead'[t] # {} /\ t \notin explicitLog' /\ t \notin redoDone' => Unchanging'
<1>e. /\ wasRead[t] \subseteq {x}
      /\ Before => wasRead[t] = {}
      /\ \A w \in observed[t][x] : w < m
      /\ ~Level0 => t \in explicitLog
      /\ Level0 /\ wasRead[t] # {} => RedoneOnly(t)
      /\ wasRead[t] # {} /\ t \notin explicitLog /\ t \notin redoDone => Unchanging
  BY DEF ReadsBelow, NothingYet, Changed
<1>f. Goal => ReadsBelow(t)' /\ NothingYet(t)'
  BY <1>b DEF ReadsBelow, NothingYet, RedoneOnly, Changed
<1> DEFINE Quiet1 == /\ UNCHANGED <<wasRead, observed, createdFiles, deletedFiles, redoDone>>
                     /\ Before' => Before
                     /\ UNCHANGED explicitLog
                        \/ (Before /\ (~Level0 => UNCHANGED explicitLog))
<1>q. Quiet1 => Goal
  <2> SUFFICES ASSUME Quiet1 PROVE Goal
    OBVIOUS
  <2>1. \A w \in observed'[t][x] : w < m2
    BY <1>a, <1>a0, <1>c, <1>e
  <2>2. wasRead'[t] = wasRead[t]
    OBVIOUS
  <2>3. Unchanging => Unchanging'
    BY <1>b
  <2> HIDE DEF Unchanging, m2
  <2> QED BY <1>e, <2>1, <2>2, <2>3
<1>r. ASSUME NEW base \in [Tables -> SUBSET Versions], NEW created, NEW deleted,
             Redo(t, base, created, deleted), UNCHANGED <<wasRead, explicitLog>>,
             pc'[t] = "redone", \A w \in base[x] : w < m
      PROVE  Goal
  <2>1. /\ t \in redoDone'
        /\ observed'[t][x] \in {base[x], observed[t][x]}
    BY <1>a, <1>a0, <1>r DEF Redo
  <2>2. \A w \in observed'[t][x] : w < m /\ w \in Nat
    BY <1>a, <1>a0, <1>e, <1>r, <2>1
  <2>3. \A w \in observed'[t][x] : w < m2
    BY <1>a0, <1>c, <2>2
  <2> HIDE DEF m2
  <2> QED BY <1>e, <1>r, <2>1, <2>3
<1>z. Goal
  <2>q. Quiet1 => Goal
    BY <1>q
  <2> HIDE DEF Goal, x, m, m2
  <2>1. Reserve(t) => Goal
    BY <1>a, <1>a0, <2>q DEF Reserve, Phases, Quiet1, Ended
  <2>2. ReleaseReplaced(t) => Goal
    BY <1>a, <1>a0, <2>q DEF ReleaseReplaced, Phases, Quiet1, Ended
  <2>3. ParseLogEntry(t) => Goal
    <3> SUFFICES ASSUME ParseLogEntry(t) PROVE Goal
      OBVIOUS
    <3>1. /\ UNCHANGED <<wasRead, observed, createdFiles, deletedFiles, redoDone, pc>>
          /\ pc[t] = "parse"
      BY DEF ParseLogEntry
    <3>2. ~Level0 => UNCHANGED explicitLog
      BY DEF ParseLogEntry
    <3> QED BY <2>q, <3>1, <3>2
  <2>4. TableLoaded(t) => Goal
    BY <1>a, <1>a0, <2>q DEF TableLoaded, LoadedAll, Phases, Quiet1, Ended
  <2>5. Work(t) => Goal
    <3> SUFFICES ASSUME Work(t) PROVE Goal
      OBVIOUS
    <3>0. idx[t] = 1 /\ Table(t, idx[t]) = x /\ pc[t] = "work"
      BY <1>a0 DEF Work, Phases
    <3>1. /\ createdFiles'[t][x] = AddedFiles(t, x) /\ deletedFiles'[t][x] = RemovedFiles(t, x)
          /\ pc'[t] \in {"wait", "finish"} /\ UNCHANGED <<explicitLog, redoDone>>
      BY <1>a0, <1>a, <3>0 DEF Work
    <3>2. \/ ~Reads(t, x) /\ UNCHANGED <<wasRead, observed>>
          \/ /\ Reads(t, x)
             /\ wasRead'[t] = wasRead[t] \cup {x} /\ observed'[t][x] = seen[t][x]
      BY <1>a0, <1>a, <3>0 DEF Work
    <3>3. m2 = m
      BY <3>0, VersionsGrow DEF m, m2
    <3>4. Level0 /\ Reads(t, x) => RedoneOnly(t)
      BY <1>a0 DEF RedoesAll, Reads, RedoneOnly, x
    <3>5. ~Level0 => t \in explicitLog
      BY <1>e
    <3>6. Reads(t, x) /\ t \notin explicitLog => Unchanging'
      <4>1. Reads(t, x) /\ t \notin explicitLog => AddedFiles(t, x) = {} /\ RemovedFiles(t, x) = {}
        BY <3>4, <3>5, <1>a DEF AddedFiles, RemovedFiles, Executed, RedoneOnly, x
      <4> QED BY <1>b, <3>1, <4>1 DEF x
    <3>7. wasRead[t] = {}
      BY <1>e, <3>0
    <3>8. \A w \in observed'[t][x] : w < m2
      BY <1>d, <1>e, <3>2, <3>3
    <3>9. ~Before'
      BY <3>1
    <3> HIDE DEF Unchanging, Before
    <3> QED BY <3>1, <3>2, <3>4, <3>5, <3>6, <3>7, <3>8, <3>9 DEF Goal
  <2>6. Wait(t) => Goal
    BY <1>a, <1>a0, <2>q DEF Wait, WaitPass, Phases, Quiet1, Ended
  <2>7. TakeOver(t) => Goal
    BY <1>a, <1>a0, <2>q DEF TakeOver, Phases, Quiet1, Ended
  <2>8. LeaseHolds(t) => Goal
    BY <1>a, <1>a0, <2>q DEF LeaseHolds, Phases, Quiet1, Ended
  <2>9. LeaseExpiring(t) => Goal
    BY <1>a, <1>a0, <2>q DEF LeaseExpiring, Phases, Quiet1, Ended
  <2>10. Shift(t) => Goal
    BY <1>a, <1>a0, <2>q DEF Shift, Phases, Quiet1, Ended
  <2>11. LeasesChecked(t) => Goal
    BY <1>a, <1>a0, <2>q DEF LeasesChecked, Phases, Quiet1, Ended
  <2>12. ValidateAsIs(t) => Goal
    BY <1>a, <1>a0, <2>q DEF ValidateAsIs, StartWriting, Phases, Quiet1, Ended
  <2>13. FirstRedo(t) => Goal
    <3> SUFFICES ASSUME FirstRedo(t) PROVE Goal
      OBVIOUS
    <3>1. /\ Redo(t, seen[t], createdFiles[t], deletedFiles[t]) /\ UNCHANGED <<wasRead, explicitLog>>
          /\ pc'[t] = "redone" /\ seen[t] \in [Tables -> SUBSET Versions]
      BY <1>a DEF FirstRedo, IInv, TypeOK, SnapTypes
    <3> QED BY <1>d, <1>r, <3>1
  <2>14. RedoAgain(t) => Goal
    <3> SUFFICES ASSUME RedoAgain(t) PROVE Goal
      OBVIOUS
    <3>1. /\ Redo(t, BelowMarkers(t), NoFiles, NoFiles) /\ UNCHANGED <<wasRead, explicitLog>>
          /\ pc'[t] = "redone"
      BY <1>a DEF RedoAgain
    <3>2. /\ BelowMarkers(t) \in [Tables -> SUBSET Versions]
          /\ \A w \in BelowMarkers(t)[x] : w < m
      BY <1>a0 DEF BelowMarkers, VersionOf, m, x
    <3> QED BY <1>r, <3>1, <3>2
  <2>15. RoundsUsedUp(t) => Goal
    BY <1>a, <1>a0, <2>q DEF RoundsUsedUp, RedoImpossible, Phases, Quiet1, Ended
  <2>16. Redone(t) => Goal
    BY <1>a, <1>a0, <2>q DEF Redone, StartWriting, Phases, Quiet1, Ended
  <2>17. WriteCommit(t) => Goal
    BY <1>a, <1>a0, <2>q DEF WriteCommit, Phases, Quiet1, Ended
  <2>18. WriteLost(t) => Goal
    BY <1>a, <1>a0, <2>q DEF WriteLost, Phases, Quiet1, Ended
  <2>19. AllWritten(t) => Goal
    BY <1>a, <1>a0, <2>q DEF AllWritten, Phases, Quiet1, Ended
  <2>20. Release(t) => Goal
    BY <1>a, <1>a0, <2>q DEF Release, Phases, Quiet1, Ended
  <2>21. Released(t) => Goal
    BY <1>a, <1>a0, <2>q DEF Released, Phases, Quiet1, Ended
  <2>22. ReserveResponseLost(t) => Goal
    BY <1>a, <1>a0, <2>q DEF ReserveResponseLost, Phases, Quiet1, Ended
  <2>23. LoadFails(t) => Goal
    BY <1>a, <1>a0, <2>q DEF LoadFails, Phases, Quiet1, Ended
  <2>24. WaitMissesOne(t) => Goal
    BY <1>a, <1>a0, <2>q DEF WaitMissesOne, WaitPass, Phases, Quiet1, Ended
  <2>25. GiveUpWaiting(t) => Goal
    BY DEF GiveUpWaiting, Fault, WaitsAreAnswered
  <2>26. WriteFails(t) => Goal
    BY <1>a, <1>a0, <2>q DEF WriteFails, Phases, Quiet1, Ended
  <2>27. ReleaseFails(t) => Goal
    BY <1>a, <1>a0, <2>q DEF ReleaseFails, Phases, Quiet1, Ended
  <2>28. RebuildFails(t) => Goal
    BY <1>a, <1>a0, <2>q DEF RebuildFails, RedoImpossible, Phases, Quiet1, Ended
  <2>29. Crash(t) => Goal
    BY <1>a, <1>a0, <2>q DEF Crash, Phases, Quiet1, Ended
  <2> QED BY <2>1, <2>2, <2>3, <2>4, <2>5, <2>6, <2>7, <2>8, <2>9, <2>10, <2>11, <2>12,
             <2>13, <2>14, <2>15, <2>16, <2>17, <2>18, <2>19, <2>20, <2>21, <2>22,
             <2>23, <2>24, <2>25, <2>26, <2>27, <2>28, <2>29
       DEF Step, Opening, Waiting, Leasing, Validating, Writing, Releasing, StorageError
<1> HIDE DEF Goal
<1> QED BY <1>f, <1>z

\* Every change that the reads do not reflect is known to the validation.
LEMMA ChangesKept ==
  ASSUME IInv, OneTable, WaitsAreAnswered, Serializable, CommitsInOrder,
         NEW t \in Txns, Step(t) \/ StorageError(t) \/ Crash(t),
         Phases(t), LocalChanges(t), SeenIsFinal(t), NothingYet(t), ReadsBelow(t),
         ChangesKnown(t), ReadsValidated(t)
  PROVE  ChangesKnown(t)' /\ ReadsValidated(t)'
<1> DEFINE x == TableOf(t)
           Changing == createdFiles[t][x] # {} \/ deletedFiles[t][x] # {}
           IsCommit(w) == log[x][w].kind = "commit"
           IsCommit2(w) == log'[x][w].kind = "commit"
           Known1(w) == w \in observed[t][x] \/ ~IsCommit(w) \/ x \in concurrentChange[t]
           Known2(w) == w \in observed'[t][x] \/ ~IsCommit2(w) \/ x \in concurrentChange'[t]
<1>a0. /\ x \in Tables /\ NumTables(t) = 1 /\ x = Table(t, 1) /\ TypeOK
  BY AtTheTable DEF TableOf, IInv
<1>a. /\ DOMAIN pc = Txns /\ DOMAIN seen = Txns /\ DOMAIN seen[t] = Tables /\ DOMAIN wasRead = Txns
      /\ DOMAIN observed = Txns /\ DOMAIN observed[t] = Tables
      /\ DOMAIN createdFiles = Txns /\ DOMAIN createdFiles[t] = Tables
      /\ DOMAIN deletedFiles = Txns /\ DOMAIN deletedFiles[t] = Tables
      /\ DOMAIN concurrentChange = Txns
      /\ seen[t][x] \subseteq Versions
  BY <1>a0 DEF TypeOK, WorkTypes, SnapTypes, ConflictTypes
<1>b. TableOf(t)' = x
  BY DEF TableOf, Table
<1>c. \A w \in Versions : Final(x, w) => IsCommit2(w) = IsCommit(w)
  BY <1>a0, FinalStays
<1> DEFINE Goal == /\ pc'[t] \in Committing /\ x \in wasRead'[t] /\ (NothingIsRedone \/ Changing') =>
                        \A w \in seen'[t][x] : Known2(w)
                   /\ pc'[t] \in {"redone", "write"} => wasRead'[t] \cap concurrentChange'[t] = {}
<1>d. /\ pc[t] \in Committing /\ x \in wasRead[t] /\ (NothingIsRedone \/ Changing) =>
           \A w \in seen[t][x] : Known1(w)
      /\ pc[t] \in {"redone", "write"} => wasRead[t] \cap concurrentChange[t] = {}
      /\ \A w \in seen[t][x] : w \in Versions /\ Final(x, w) /\ IsCommit2(w) = IsCommit(w)
  <2>1. \A w \in seen[t][x] : w \in Versions /\ Final(x, w)
    BY <1>a DEF SeenIsFinal
  <2> QED BY <1>c, <2>1 DEF ChangesKnown, ReadsValidated, Commits, Changed
<1>e. Goal => ChangesKnown(t)' /\ ReadsValidated(t)'
  BY <1>b DEF ChangesKnown, ReadsValidated, Committing, Commits, Changed, NothingIsRedone
<1>g. wasRead[t] # {} => x \in wasRead[t]
  BY DEF ReadsBelow
<1> DEFINE Quiet1 == /\ UNCHANGED <<seen, observed, wasRead, createdFiles, deletedFiles>>
                     /\ concurrentChange'[t] = concurrentChange[t]
                     /\ pc'[t] \in Committing => pc[t] \in Committing
                     /\ pc'[t] \in {"redone", "write"} => pc[t] \in {"redone", "write"}
<1>q. Quiet1 => Goal
  <2> SUFFICES ASSUME Quiet1 PROVE Goal
    OBVIOUS
  <2>1. Changing' = Changing
    BY <1>b
  <2>2. \A w \in seen[t][x] : Known1(w) => Known2(w)
    BY <1>d
  <2> HIDE DEF Changing, Known1, Known2, x
  <2> QED BY <1>d, <2>1, <2>2
\* A redo reads the table anew, or leaves nothing to commit.
<1>r. ASSUME NEW base, NEW created, NEW deleted, created[x] = {}, deleted[x] = {},
             Redo(t, base, created, deleted), UNCHANGED wasRead,
             Level0, seen'[t][x] = base[x]
      PROVE  Goal
  <2>1. concurrentChange'[t] = {}
    BY <1>a, <1>r DEF Redo
  <2>2. ASSUME x \in wasRead[t] PROVE ~NothingIsRedone /\ RedoneOnly(t) /\ "read" \notin Ops[t][x]
    BY <1>a0, <1>r, <2>2 DEF NothingYet, RedoneOnly, NothingIsRedone
  <2>3. ASSUME "read" \notin Ops[t][x] PROVE Changing' => observed'[t][x] = base[x]
    <3> DEFINE done == RedoneSteps(t, base)
               updated == {steps[t][i].table : i \in {j \in done : steps[t][j].op = "update"}}
               touched == {steps[t][i].table : i \in done}
    <3>1. /\ createdFiles'[t][x] = created[x] \cup (IF x \in updated THEN {File(t, redos[t] + 1, TRUE)} ELSE {})
          /\ deletedFiles'[t][x] = deleted[x] \cup (IF x \in touched THEN KeyFilesIn(x, base[x]) ELSE {})
          /\ observed'[t][x] = IF x \in touched /\ "read" \notin Ops[t][x] THEN base[x] ELSE observed[t][x]
      BY <1>a, <1>a0, <1>r DEF Redo
    <3>2. updated \subseteq touched
      OBVIOUS
    <3> HIDE DEF updated, touched
    <3>3. Changing' => x \in touched
      BY <1>b, <1>r, <3>1, <3>2
    <3> QED BY <2>3, <3>1, <3>3
  <2>4. wasRead'[t] = wasRead[t]
    BY <1>r
  <2>5. ASSUME x \in wasRead[t], Changing' PROVE \A w \in seen'[t][x] : Known2(w)
    BY <1>r, <2>2, <2>3, <2>5
  <2> HIDE DEF Changing, Known2, x
  <2> QED BY <2>1, <2>2, <2>4, <2>5
<1>z. Goal
  <2>q. Quiet1 => Goal
    BY <1>q
  <2> HIDE DEF Goal, x, Changing, Known1, Known2
  <2>1. Reserve(t) => Goal
    <3> SUFFICES ASSUME Reserve(t) PROVE Goal
      OBVIOUS
    <3>1. pc'[t] \in {"replace", "parse"}
      BY <1>a DEF Reserve
    <3> QED BY <3>1 DEF Goal, Committing
  <2>2. ReleaseReplaced(t) => Goal
    BY <1>a, <1>a0, <2>q DEF ReleaseReplaced, Phases, Quiet1, Committing, Ended
  <2>3. ParseLogEntry(t) => Goal
    <3> SUFFICES ASSUME ParseLogEntry(t) PROVE Goal
      OBVIOUS
    <3>1. pc'[t] = "parse"
      BY <1>a DEF ParseLogEntry
    <3> QED BY <3>1 DEF Goal, Committing
  <2>4. TableLoaded(t) => Goal
    BY <1>a, <1>a0, <2>q DEF TableLoaded, LoadedAll, Phases, Quiet1, Committing, Ended
  <2>5. Work(t) => Goal
    <3> SUFFICES ASSUME Work(t) PROVE Goal
      OBVIOUS
    <3>0. idx[t] = 1 /\ Table(t, idx[t]) = x /\ pc[t] = "work"
      BY <1>a0 DEF Work, Phases
    <3>1. pc'[t] \in {"wait", "finish"} /\ seen' = seen
      BY <1>a0, <1>a, <3>0 DEF Work
    <3>2. \/ ~Reads(t, x) /\ UNCHANGED wasRead
          \/ Reads(t, x) /\ observed'[t][x] = seen[t][x]
      BY <1>a0, <1>a, <3>0 DEF Work
    <3>3. wasRead[t] = {}
      BY <3>0 DEF ReadsBelow
    <3> QED BY <3>1, <3>2, <3>3 DEF Goal, Known2
  <2>6. Wait(t) => Goal
    <3> SUFFICES ASSUME Wait(t) PROVE Goal
      OBVIOUS
    <3> DEFINE applied == {v \in Versions : <<x, v>> \in prevMarkers[t]}
    <3>1. /\ pc[t] = "wait" /\ pc'[t] = "lease" /\ UNCHANGED <<log, wasRead, observed, createdFiles, deletedFiles>>
          /\ \A p \in prevMarkers[t] \ {} : Final(p[1], p[2])
          /\ seen' = [seen EXCEPT ![t] = [y \in Tables |->
                        @[y] \cup {v \in Versions : <<y, v>> \in prevMarkers[t] \ {}}]]
          /\ concurrentChange' = [concurrentChange EXCEPT ![t] =
               @ \cup {y \in Tables : \E v \in {w \in Versions : <<y, w>> \in prevMarkers[t] \ {}} : ChangesData(y, v)}]
      BY <1>a DEF Wait, WaitPass
    <3>2. seen'[t][x] = seen[t][x] \cup applied
      <4>1. seen'[t][x] = seen[t][x] \cup {v \in Versions : <<x, v>> \in prevMarkers[t] \ {}}
        BY <1>a, <1>a0, <3>1
      <4> QED BY <4>1
    <3>3. /\ \A w \in applied : ChangesData(x, w) => x \in concurrentChange'[t]
          /\ x \in concurrentChange[t] => x \in concurrentChange'[t]
      BY <1>a, <1>a0, <3>1
    <3>4. \A w \in applied : Known2(w)
      <4>1. \A w \in applied : IsCommit2(w) => ChangesData(x, w)
        BY <1>a0, <3>1 DEF CommitsInOrder
      <4> QED BY <3>3, <4>1 DEF Known2
    <3>5. \A w \in seen[t][x] : Known1(w) => Known2(w)
      BY <3>1, <3>3 DEF Known1, Known2
    <3>6. Changing' = Changing
      BY <1>b, <3>1 DEF Changing, x
    <3>7. pc[t] \in Committing /\ pc'[t] \notin {"redone", "write"}
      BY <3>1 DEF Committing
    <3>8. wasRead'[t] = wasRead[t]
      BY <3>1
    <3> HIDE DEF applied
    <3> QED BY <1>d, <3>2, <3>4, <3>5, <3>6, <3>7, <3>8 DEF Goal
  <2>7. TakeOver(t) => Goal
    BY <1>a, <1>a0, <2>q DEF TakeOver, Phases, Quiet1, Committing, Ended
  <2>8. LeaseHolds(t) => Goal
    BY <1>a, <1>a0, <2>q DEF LeaseHolds, Phases, Quiet1, Committing, Ended
  <2>9. LeaseExpiring(t) => Goal
    BY <1>a, <1>a0, <2>q DEF LeaseExpiring, Phases, Quiet1, Committing, Ended
  <2>10. Shift(t) => Goal
    BY <1>a, <1>a0, <2>q DEF Shift, Phases, Quiet1, Committing, Ended
  <2>11. LeasesChecked(t) => Goal
    BY <1>a, <1>a0, <2>q DEF LeasesChecked, Phases, Quiet1, Committing, Ended
  <2>12. ValidateAsIs(t) => Goal
    <3> SUFFICES ASSUME ValidateAsIs(t) PROVE Goal
      OBVIOUS
    <3>1. /\ UNCHANGED <<log, seen, observed, wasRead, createdFiles, deletedFiles, concurrentChange>>
          /\ pc[t] = "validate"
          /\ pc'[t] = "abort" \/ (pc'[t] = "write" /\ ~Conflict(t))
      BY <1>a DEF ValidateAsIs, StartWriting
    <3>2. ~Conflict(t) => wasRead[t] \cap concurrentChange[t] = {}
      BY DEF Conflict, ReadConflict
    <3>3. Changing' = Changing
      BY <1>b, <3>1 DEF Changing, x
    <3>4. \A w \in seen[t][x] : Known1(w) => Known2(w)
      BY <1>d, <3>1 DEF Known1, Known2
    <3>5. pc[t] \in Committing
      BY <3>1 DEF Committing
    <3> QED BY <1>d, <3>1, <3>2, <3>3, <3>4, <3>5 DEF Goal, Committing
  <2>13. FirstRedo(t) => Goal
    <3> SUFFICES ASSUME FirstRedo(t) PROVE Goal
      OBVIOUS
    <3>1. /\ Redo(t, seen[t], createdFiles[t], deletedFiles[t]) /\ UNCHANGED <<wasRead, seen>>
          /\ Level0 /\ t \notin explicitLog /\ t \notin redoDone /\ pc'[t] = "redone"
      BY <1>a DEF FirstRedo, CanRedo
    <3>2. CASE x \in wasRead[t]
      <4>1. createdFiles[t][x] = {} /\ deletedFiles[t][x] = {}
        BY <3>1, <3>2 DEF NothingYet, Changed, x
      <4> QED BY <1>r, <3>1, <4>1
    <3>3. CASE x \notin wasRead[t]
      <4>1. wasRead[t] = {}
        BY <1>g, <3>3
      <4> QED BY <3>1, <3>3, <4>1 DEF Goal
    <3> QED BY <3>2, <3>3
  <2>14. RedoAgain(t) => Goal
    <3> SUFFICES ASSUME RedoAgain(t) PROVE Goal
      OBVIOUS
    <3>1. /\ Redo(t, BelowMarkers(t), NoFiles, NoFiles) /\ UNCHANGED wasRead
          /\ seen'[t][x] = BelowMarkers(t)[x] /\ Level0
      BY <1>a DEF RedoAgain, CanRedo
    <3>2. NoFiles[x] = {}
      BY <1>a0 DEF NoFiles
    <3> QED BY <1>r, <3>1, <3>2
  <2>15. RoundsUsedUp(t) => Goal
    BY <1>a, <1>a0, <2>q DEF RoundsUsedUp, RedoImpossible, Phases, Quiet1, Committing, Ended
  <2>16. Redone(t) => Goal
    BY <1>a, <1>a0, <2>q DEF Redone, StartWriting, Phases, Quiet1, Committing, Ended
  <2>17. WriteCommit(t) => Goal
    BY <1>a, <1>a0, <2>q DEF WriteCommit, Phases, Quiet1, Committing, Ended
  <2>18. WriteLost(t) => Goal
    BY <1>a, <1>a0, <2>q DEF WriteLost, Phases, Quiet1, Committing, Ended
  <2>19. AllWritten(t) => Goal
    BY <1>a, <1>a0, <2>q DEF AllWritten, Phases, Quiet1, Committing, Ended
  <2>20. Release(t) => Goal
    BY <1>a, <1>a0, <2>q DEF Release, Phases, Quiet1, Committing, Ended
  <2>21. Released(t) => Goal
    BY <1>a, <1>a0, <2>q DEF Released, Phases, Quiet1, Committing, Ended
  <2>22. ReserveResponseLost(t) => Goal
    BY <1>a, <1>a0, <2>q DEF ReserveResponseLost, Phases, Quiet1, Committing, Ended
  <2>23. LoadFails(t) => Goal
    BY <1>a, <1>a0, <2>q DEF LoadFails, Phases, Quiet1, Committing, Ended
  <2>24. WaitMissesOne(t) => Goal
    BY DEF WaitMissesOne, Fault, WaitsAreAnswered
  <2>25. GiveUpWaiting(t) => Goal
    BY DEF GiveUpWaiting, Fault, WaitsAreAnswered
  <2>26. WriteFails(t) => Goal
    BY <1>a, <1>a0, <2>q DEF WriteFails, Phases, Quiet1, Committing, Ended
  <2>27. ReleaseFails(t) => Goal
    BY <1>a, <1>a0, <2>q DEF ReleaseFails, Phases, Quiet1, Committing, Ended
  <2>28. RebuildFails(t) => Goal
    BY <1>a, <1>a0, <2>q DEF RebuildFails, RedoImpossible, Phases, Quiet1, Committing, Ended
  <2>29. Crash(t) => Goal
    BY <1>a, <1>a0, <2>q DEF Crash, Phases, Quiet1, Committing, Ended
  <2> QED BY <2>1, <2>2, <2>3, <2>4, <2>5, <2>6, <2>7, <2>8, <2>9, <2>10, <2>11, <2>12,
             <2>13, <2>14, <2>15, <2>16, <2>17, <2>18, <2>19, <2>20, <2>21, <2>22,
             <2>23, <2>24, <2>25, <2>26, <2>27, <2>28, <2>29
       DEF Step, Opening, Waiting, Leasing, Validating, Writing, Releasing, StorageError
<1> HIDE DEF Goal
<1> QED BY <1>e, <1>z

\* What a transaction commits reflects every commit below it.
LEMMA PredecessorsKept ==
  ASSUME IInv, OneTable, CommitsInOrder,
         NEW t \in Txns, Step(t) \/ StorageError(t) \/ Crash(t),
         TableInv(t), ReadInv(t)
  PROVE  ReadsPredecessors(t)'
<1> DEFINE x == TableOf(t)
<1>a. /\ x \in Tables /\ VersionOf(t) \in Versions /\ TypeOK
      /\ \A i \in 1 .. NumTables(t) : Table(t, i) = x
  BY AtTheTable DEF IInv
<1>b. TableOf(t)' = x
  BY DEF TableOf, Table
<1>c. \A w \in Versions : Final(x, w) => log'[x][w] = log[x][w]
  BY <1>a, FinalStays
<1> SUFFICES ASSUME NEW v \in CommitsOf(t, x)', NEW w \in Versions, log'[x][w].kind = "commit",
                    x \in wasRead'[t], w < v
             PROVE  w \in observed'[t][x]
  BY <1>b DEF ReadsPredecessors, Commits
<1> HIDE DEF x
<1>1. CASE v \in CommitsOf(t, x)
  <2>1. v \in Versions /\ log[x][v].kind = "commit"
    BY <1>1 DEF CommitsOf, Commits
  <2>2. Final(x, w)
    BY <1>a, <2>1 DEF CommitsInOrder
  <2>3. w \in Commits(x)
    BY <1>c, <2>2 DEF Commits
  <2>4. x \in wasRead[t] => w \in observed[t][x]
    BY <1>1, <2>3 DEF ReadInv, ReadsPredecessors, x
  <2>5. x \in committed[t] \/ Over(t)
    BY <1>a, <1>1 DEF TableInv, CommitsThere
  <2>6. pc[t] \in {"write", "finish", "committed", "abort", "aborted", "crashed"}
    BY <2>5 DEF TableInv, HoldsUntilCommit, Over
  <2>7. UNCHANGED <<wasRead, observed>>
    BY <2>6 DEF Step, Opening, Waiting, Leasing, Validating, Writing, Releasing, StorageError,
       Reserve, ReleaseReplaced, ParseLogEntry, TableLoaded, Work, Wait, WaitPass, TakeOver,
       LeaseHolds, LeaseExpiring, Shift, LeasesChecked, ValidateAsIs, FirstRedo, RedoAgain,
       RoundsUsedUp, RedoImpossible, Redone, WriteCommit, WriteLost, AllWritten, Release, Released,
       ReserveResponseLost, LoadFails, WaitMissesOne, GiveUpWaiting, WriteFails, ReleaseFails,
       RebuildFails, Crash
  <2> QED BY <2>4, <2>7
<1>2. CASE v \notin CommitsOf(t, x)
  <2>1. v \in Versions /\ log'[x][v].kind = "commit" /\ log'[x][v].by = t /\ log'[x][v] # log[x][v]
    BY <1>2 DEF CommitsOf, Commits
  <2>2. /\ pc[t] = "write" /\ x \in ToCommit(t)
        /\ WriteLog(x, VersionOf(t), Commit(t, createdFiles[t][x], deletedFiles[t][x]))
    <3>1. StepWritesTo(t)
      BY StepWrites
    <3>2. Marker(t).kind # "commit" /\ EmptyCommit.kind # "commit"
      BY DEF Marker, EmptyCommit, Object
    <3>3. \A y \in Tables, u \in Versions : \A o : WriteLog(y, u, o) /\ o.kind # "commit" => FALSE
      BY <1>a, <2>1 DEF WriteLog, TypeOK
    <3> QED BY <1>a, <2>1, <3>1, <3>2, <3>3 DEF StepWritesTo, NextIn, VersionOf, x
  <2>3. v = VersionOf(t)
    BY <1>a, <2>1, <2>2 DEF WriteLog, TypeOK
  <2>4. UNCHANGED <<wasRead, observed>>
    BY <2>2 DEF Step, Opening, Waiting, Leasing, Validating, Writing, Releasing, StorageError,
       Reserve, ReleaseReplaced, ParseLogEntry, TableLoaded, Work, Wait, WaitPass, TakeOver,
       LeaseHolds, LeaseExpiring, Shift, LeasesChecked, ValidateAsIs, FirstRedo, RedoAgain,
       RoundsUsedUp, RedoImpossible, Redone, WriteCommit, WriteLost, AllWritten, Release, Released,
       ReserveResponseLost, LoadFails, WaitMissesOne, GiveUpWaiting, WriteFails, ReleaseFails,
       RebuildFails, Crash
  <2>5. w \in seen[t][x] \/ log[x][w].kind = "empty"
    BY <2>2, <2>3 DEF TableInv, Known, SeenOrEmpty, x
  <2>6. Final(x, w)
    BY <2>5 DEF TableInv, SeenIsFinal, Final, x
  <2>7. w \in Commits(x) /\ w \in seen[t][x]
    BY <1>c, <2>5, <2>6 DEF Commits
  <2>8. x \in wasRead[t] /\ Changed(t, x)
    BY <2>2, <2>4 DEF ToCommit
  <2>9. w \in observed[t][x] \/ x \in concurrentChange[t]
    BY <2>2, <2>7, <2>8 DEF ReadInv, ChangesKnown, Committing, x
  <2>10. x \notin concurrentChange[t]
    BY <2>2, <2>8 DEF ReadInv, ReadsValidated
  <2> QED BY <2>4, <2>9, <2>10
<1> QED BY <1>1, <1>2

\* What is said of a transaction's reads stays true when only others take steps.
LEMMA OthersReadInv ==
  ASSUME IInv, OneTable, CommitsInOrder, NEW u \in Txns, TableInv(u), ReadInv(u), Stays(u),
         \A x \in Tables, w \in Versions : Final(x, w) => log'[x][w] = log[x][w] /\ Final(x, w)',
         \A x \in Tables : CommitsOf(u, x)' \subseteq CommitsOf(u, x)
  PROVE  ReadInv(u)'
<1> DEFINE x == TableOf(u)
<1>a. TableOf(u)' = x /\ VersionOf(u)' = VersionOf(u)
  BY DEF Stays, TableOf, VersionOf, Table
<1>b. x \in Tables
  BY AtTheTable
<1>c. seen[u][x] \subseteq Versions
  BY <1>b DEF IInv, TypeOK, SnapTypes
<1>1. ReadsBelow(u)' /\ NothingYet(u)' /\ ReadsValidated(u)'
  BY <1>a DEF ReadInv, Stays, ReadsBelow, NothingYet, ReadsValidated, RedoneOnly, Changed
<1>2. ChangesKnown(u)'
  <2>1. \A w \in seen[u][x] : w \in Commits(x)' => w \in Commits(x)
    BY <1>b, <1>c DEF TableInv, SeenIsFinal, Commits
  <2>2. Changed(u, x)' = Changed(u, x)
    BY DEF Stays, Changed, TableOf, Table
  <2>3. (pc'[u] = pc[u]) /\ seen'[u] = seen[u] /\ wasRead'[u] = wasRead[u] /\ observed'[u] = observed[u]
        /\ concurrentChange'[u] = concurrentChange[u]
    BY DEF Stays
  <2>4. pc[u] \in Committing /\ x \in wasRead[u] /\ (NothingIsRedone \/ Changed(u, x)) =>
          \A w \in seen[u][x] :
             \/ w \in observed[u][x] \/ w \notin Commits(x) \/ x \in concurrentChange[u]
    BY DEF ReadInv, ChangesKnown
  <2>5. NothingIsRedone' = NothingIsRedone /\ Committing' = Committing
    BY DEF NothingIsRedone, Committing
  <2>6. pc'[u] \in Committing /\ x \in wasRead'[u] /\ (NothingIsRedone \/ Changed(u, x)) =>
          \A w \in seen'[u][x] :
             \/ w \in observed'[u][x] \/ w \notin Commits(x)' \/ x \in concurrentChange'[u]
    BY <2>1, <2>3, <2>4
  <2> QED BY <1>a, <2>2, <2>5, <2>6 DEF ChangesKnown
<1>3. ReadsPredecessors(u)'
  <2> SUFFICES ASSUME NEW v \in CommitsOf(u, x), NEW w \in Commits(x)', w < v, x \in wasRead[u]
               PROVE  w \in observed[u][x]
    BY <1>a, <1>b DEF ReadsPredecessors, Stays
  <2>1. v \in Versions /\ w \in Versions /\ log[x][v].kind = "commit"
    BY DEF CommitsOf, Commits
  <2>2. Final(x, w)
    BY <1>b, <2>1 DEF CommitsInOrder
  <2>3. w \in Commits(x)
    BY <1>b, <2>1, <2>2 DEF Commits
  <2> QED BY <2>3 DEF ReadInv, ReadsPredecessors
<1> QED BY <1>1, <1>2, <1>3 DEF ReadInv

\* Every step keeps what is said about the reads of every transaction.
LEMMA NextReadInv ==
  ASSUME OneTable, WaitsAreAnswered, Serializable, RedoesAll,
         IInv, TableInvs, \A u \in Txns : ReadInv(u), [Next]_vars
  PROVE  \A u \in Txns : ReadInv(u)'
<1> SUFFICES ASSUME NEW u \in Txns PROVE ReadInv(u)'
  OBVIOUS
<1>1. CommitsInOrder /\ TableInv(u) /\ ReadInv(u)
  BY DEF TableInvs
<1>2. CASE \/ UNCHANGED vars \/ AllEnded \/ \E x \in Tables, v \in Versions : LeaseEnds(x, v)
           \/ \E t \in Txns \ {u} : Step(t) \/ StorageError(t) \/ Crash(t)
  BY <1>1, <1>2, StepOfOthers, OthersReadInv
<1>3. CASE Step(u) \/ StorageError(u) \/ Crash(u)
  <2>1. /\ Phases(u) /\ LocalChanges(u) /\ SeenIsFinal(u)
        /\ ReadsBelow(u) /\ NothingYet(u) /\ ChangesKnown(u) /\ ReadsValidated(u)
    BY <1>1 DEF TableInv, ReadInv
  <2>2. ReadsBelow(u)' /\ NothingYet(u)'
    BY <1>3, <2>1, ReadsKept
  <2>3. ChangesKnown(u)' /\ ReadsValidated(u)'
    BY <1>1, <1>3, <2>1, ChangesKept
  <2>4. ReadsPredecessors(u)'
    BY <1>1, <1>3, PredecessorsKept
  <2> QED BY <2>2, <2>3, <2>4 DEF ReadInv
<1> QED BY <1>2, <1>3 DEF Next

\* What holds of the reads of every transaction
ReadInvs == \A t \in Txns : ReadInv(t)

\* It holds at the start and every step keeps it.
LEMMA ReadInductive ==
  ASSUME OneTable, WaitsAreAnswered, Serializable, RedoesAll
  PROVE  Spec => []ReadInvs
<1>1. Init => ReadInvs
  <2> SUFFICES ASSUME Init, NEW t \in Txns PROVE ReadInv(t)
    BY DEF ReadInvs
  <2> DEFINE x == TableOf(t)
  <2>1. x \in Tables
    BY InitIInv, AtTheTable
  <2>2. /\ wasRead[t] = {} /\ pc[t] = "reserve" /\ explicitLog = Txns
        /\ observed[t][x] = {}
    BY <2>1 DEF Init, NoFiles
  <2> QED BY <2>2 DEF ReadInv, ReadsBelow, NothingYet, ChangesKnown, ReadsValidated,
                      ReadsPredecessors, Committing
<1>2. IInv /\ TableInvs /\ ReadInvs /\ [Next]_vars => ReadInvs'
  BY NextReadInv DEF ReadInvs
<1>3. Spec => [](IInv /\ TableInvs)
  BY TableInductive
<1> QED BY <1>1, <1>2, <1>3, PTL DEF Spec

\* With Isolation::Serializable the commit to a table that was read comes from
\* a snapshot with every commit below it, when a transaction opens one table,
\* every wait is answered, and a redo repeats all the transaction has done.
THEOREM CommitsAreUpToDate ==
  ASSUME OneTable, WaitsAreAnswered, Serializable, RedoesAll
  PROVE  Spec => []CommitsReadTheirPredecessors
<1>1. ReadInvs => CommitsReadTheirPredecessors
  <2> SUFFICES ASSUME NEW t \in Txns, ReadInv(t), NEW x \in wasRead[t], NEW v \in CommitsOf(t, x),
                      NEW w \in Commits(x), w < v
               PROVE  w \in observed[t][x]
    BY DEF ReadInvs, CommitsReadTheirPredecessors
  <2>1. x = TableOf(t)
    BY DEF ReadInv, ReadsBelow
  <2> QED BY <2>1 DEF ReadInv, ReadsPredecessors
<1> QED BY <1>1, ReadInductive, PTL

-----------------------------------------------------------------------------
(* Serializable transactions on one table: the order of the acknowledged ones *)

\* A version of the log does not change its writer, unless it is given up.
LEMMA WriterStays ==
  ASSUME TypeOK, NEW s \in Writers, LogStep(s), NEW x \in Tables, NEW v \in Versions, Exists(x, v)
  PROVE  log'[x][v].by = log[x][v].by \/ log'[x][v].kind = "empty"
<1>1. \A y \in Tables, w \in Versions : \A o :
        WriteLog(y, w, o) => log'[x][v] = IF y = x /\ w = v THEN o ELSE log[x][v]
  BY DEF WriteLog, TypeOK
<1>2. EmptyCommit.kind = "empty" /\ \A a, r : Commit(s, a, r).by = s
  BY DEF EmptyCommit, Commit, Object
<1>3. CASE \E y \in Tables, w \in Versions :
             log[y][w].kind = "marker" /\ log' = [log EXCEPT ![y][w].ended = TRUE]
  BY <1>3 DEF TypeOK, Objects
<1> QED BY <1>1, <1>2, <1>3 DEF LogStep, IsMarkerOf

\* Nobody else writes to the version that a transaction has reserved.
LEMMA OwnVersionKept ==
  ASSUME OneTable, IInv, NEW u \in Txns, OwnVersion(u), [Next]_vars
  PROVE  OwnVersion(u)'
<1> DEFINE x == TableOf(u)
           m == VersionOf(u)
           Mine(v) == log[x][v].by = u \/ log[x][v].kind = "empty"
           Mine2(v) == log'[x][v].by = u \/ log'[x][v].kind = "empty"
<1>a. x \in Tables /\ m \in Versions /\ TypeOK /\ LogInv /\ Exists(x, m) /\ DOMAIN pc = Txns
  BY AtTheTable DEF IInv, ReservedExists, VersionOf, TypeOK
<1>a1. \A w \in Versions : w \in Nat
  BY ConstantsAssumption DEF Versions
<1>b. TableOf(u)' = x
  BY DEF TableOf, Table
<1>c. PICK s \in Writers : LogStep(s)
  BY NextIsLogStep
<1>d. Mine(m) => Mine2(m)
  <2>1. CASE log[x][m].kind = "empty"
    BY <1>a, <1>c, <2>1, LogStepKeepsLog DEF Final
  <2>2. CASE log[x][m].by = u
    BY <1>a, <1>c, <2>2, WriterStays
  <2> QED BY <2>1, <2>2
<1>e. /\ pc[u] \notin {"reserve", "crashed"} => m # 0
      /\ m # 0 => Mine(m)
  BY DEF OwnVersion
<1>f. ASSUME m = VersionOf(u)', pc'[u] \notin {"reserve", "crashed"} => pc[u] \notin {"reserve", "crashed"}
      PROVE  OwnVersion(u)'
  BY <1>b, <1>d, <1>e, <1>f DEF OwnVersion
<1>g. ASSUME NEW v \in Versions, VersionOf(u)' = v, v # 0, log'[x][v].by = u
      PROVE  OwnVersion(u)'
  BY <1>b, <1>g DEF OwnVersion
<1>1. CASE \/ UNCHANGED vars \/ AllEnded \/ \E y \in Tables, v \in Versions : LeaseEnds(y, v)
           \/ \E t \in Txns \ {u} : Step(t) \/ StorageError(t) \/ Crash(t)
  <2>1. Stays(u)
    BY <1>1, StepOfOthers
  <2>2. m = VersionOf(u)' /\ pc'[u] = pc[u]
    BY <2>1 DEF Stays, VersionOf, TableOf, Table
  <2> QED BY <1>f, <2>2
<1>2. CASE Reserve(u) \/ Shift(u)
  <2>1. Current(u) = x
    BY <1>2, AtTheTable DEF Reserve, Shift
  <2>2. PICK v \in Versions, a \in Versions : /\ v > a
                              /\ WriteLog(x, v, Marker(u))
                              /\ markerVersion' = [markerVersion EXCEPT ![u][x] = v]
    <3>1. 0 \in Versions
      BY ConstantsAssumption DEF Versions
    <3>2. markerVersion[u][x] \in Versions
      BY <1>a DEF VersionOf
    <3> QED BY <1>2, <2>1, <3>1, <3>2 DEF Reserve, Shift, FirstFree
  <2>3. VersionOf(u)' = v
    BY <1>a, <1>b, <2>2 DEF VersionOf, TypeOK, MarkerTypes
  <2>4. log'[x][v].by = u
    BY <1>a, <2>2 DEF WriteLog, TypeOK, Marker, Object
  <2>5. v # 0
    BY <1>a1, <2>2
  <2> QED BY <1>g, <2>3, <2>4, <2>5
<1>3. CASE (Step(u) \/ StorageError(u) \/ Crash(u)) /\ ~Reserve(u) /\ ~Shift(u)
  <2> DEFINE Goal == UNCHANGED markerVersion
                     /\ (pc'[u] \notin {"reserve", "crashed"} => pc[u] \notin {"reserve", "crashed"})
  <2>2. ReleaseReplaced(u) => Goal
    BY <1>a DEF ReleaseReplaced, Ended
  <2>3. ParseLogEntry(u) => Goal
    BY <1>a DEF ParseLogEntry, Ended
  <2>4. TableLoaded(u) => Goal
    BY <1>a DEF TableLoaded, LoadedAll, Ended
  <2>5. Work(u) => Goal
    BY <1>a DEF Work, Ended
  <2>6. Wait(u) => Goal
    BY <1>a DEF Wait, WaitPass, Ended
  <2>7. TakeOver(u) => Goal
    BY <1>a DEF TakeOver, Ended
  <2>8. LeaseHolds(u) => Goal
    BY <1>a DEF LeaseHolds, Ended
  <2>9. LeaseExpiring(u) => Goal
    BY <1>a DEF LeaseExpiring, Ended
  <2>11. LeasesChecked(u) => Goal
    BY <1>a DEF LeasesChecked, Ended
  <2>12. ValidateAsIs(u) => Goal
    BY <1>a DEF ValidateAsIs, StartWriting, Ended
  <2>13. FirstRedo(u) => Goal
    BY <1>a DEF FirstRedo, Redo, Ended
  <2>14. RedoAgain(u) => Goal
    BY <1>a DEF RedoAgain, Redo, Ended
  <2>15. RoundsUsedUp(u) => Goal
    BY <1>a DEF RoundsUsedUp, RedoImpossible, Ended
  <2>16. Redone(u) => Goal
    BY <1>a DEF Redone, StartWriting, Ended
  <2>17. WriteCommit(u) => Goal
    BY <1>a DEF WriteCommit, Ended
  <2>18. WriteLost(u) => Goal
    BY <1>a DEF WriteLost, Ended
  <2>19. AllWritten(u) => Goal
    BY <1>a DEF AllWritten, Ended
  <2>20. Release(u) => Goal
    BY <1>a DEF Release, Ended
  <2>21. Released(u) => Goal
    BY <1>a DEF Released, Ended
  <2>22. ReserveResponseLost(u) => Goal
    BY <1>a DEF ReserveResponseLost, Ended
  <2>23. LoadFails(u) => Goal
    BY <1>a DEF LoadFails, Ended
  <2>24. WaitMissesOne(u) => Goal
    BY <1>a DEF WaitMissesOne, WaitPass, Ended
  <2>25. GiveUpWaiting(u) => Goal
    BY <1>a DEF GiveUpWaiting, Ended
  <2>26. WriteFails(u) => Goal
    BY <1>a DEF WriteFails, Ended
  <2>27. ReleaseFails(u) => Goal
    BY <1>a DEF ReleaseFails, Ended
  <2>28. RebuildFails(u) => Goal
    BY <1>a DEF RebuildFails, RedoImpossible, Ended
  <2>29. Crash(u) => Goal
    BY <1>a DEF Crash, Ended
  <2>30. Goal
    BY <1>3, <2>2, <2>3, <2>4, <2>5, <2>6, <2>7, <2>8, <2>9, <2>11, <2>12,
       <2>13, <2>14, <2>15, <2>16, <2>17, <2>18, <2>19, <2>20, <2>21, <2>22, <2>23,
       <2>24, <2>25, <2>26, <2>27, <2>28, <2>29
       DEF Step, Opening, Waiting, Leasing, Validating, Writing, Releasing, StorageError
  <2>31. m = VersionOf(u)'
    BY <2>30 DEF VersionOf, TableOf, Table
  <2> QED BY <1>f, <2>30, <2>31
<1> QED BY <1>1, <1>2, <1>3 DEF Next

\* An acknowledged transaction has read every commit below its version.
LEMMA PlaceKept ==
  ASSUME OneTable, NothingIsRedone, IInv, CommitsInOrder, NEW t \in Txns,
         Step(t) \/ StorageError(t) \/ Crash(t),
         TableInv(t), ReadInv(t), OwnVersion(t), PlaceInOrder(t)
  PROVE  PlaceInOrder(t)'
<1> DEFINE x == TableOf(t)
           m == VersionOf(t)
           Done == pc[t] \in {"finish", "committed"}
<1>a. x \in Tables /\ m \in Versions /\ TypeOK /\ DOMAIN pc = Txns
      /\ \A i \in 1 .. NumTables(t) : Table(t, i) = x
  BY AtTheTable DEF IInv, TypeOK
<1>a1. NumTables(t) = 1 /\ x = Table(t, 1)
  BY AtTheTable DEF TableOf
<1>b. TableOf(t)' = x
  BY DEF TableOf, Table
<1>c. \A w \in Versions : Final(x, w) => log'[x][w] = log[x][w] /\ Final(x, w)'
  BY <1>a, FinalStays
<1> SUFFICES ASSUME Done', t \notin ReadOnly PROVE PlaceInOrder(t)'
  BY DEF PlaceInOrder
<1>d. /\ UNCHANGED <<log, wasRead, observed, markerVersion>> \/ (UNCHANGED <<wasRead, observed, markerVersion>> /\ Done)
      /\ Done \/ pc[t] = "write"
  <2> DEFINE Goal == Done' => /\ UNCHANGED <<log, wasRead, observed, markerVersion>>
                                 \/ (UNCHANGED <<wasRead, observed, markerVersion>> /\ Done)
                              /\ Done \/ pc[t] = "write"
  <2>1. Reserve(t) => Goal
    BY <1>a, <1>a1 DEF Reserve, Ended
  <2>2. ReleaseReplaced(t) => Goal
    BY <1>a, <1>a1 DEF ReleaseReplaced, Ended
  <2>3. ParseLogEntry(t) => Goal
    BY <1>a, <1>a1 DEF ParseLogEntry, Ended
  <2>4. TableLoaded(t) => Goal
    BY <1>a, <1>a1 DEF TableLoaded, LoadedAll, Ended
  <2>5. Work(t) => Goal
    <3> SUFFICES ASSUME Work(t) PROVE Goal
      OBVIOUS
    <3>1. idx[t] = 1
      BY DEF Work, TableInv, Phases
    <3>2. pc'[t] # "finish" /\ pc'[t] # "committed"
      BY <1>a, <1>a1, <3>1 DEF Work
    <3> QED BY <3>2
  <2>6. Wait(t) => Goal
    BY <1>a, <1>a1 DEF Wait, WaitPass, Ended
  <2>7. TakeOver(t) => Goal
    BY <1>a, <1>a1 DEF TakeOver, Ended
  <2>8. LeaseHolds(t) => Goal
    BY <1>a, <1>a1 DEF LeaseHolds, Ended
  <2>9. LeaseExpiring(t) => Goal
    BY <1>a, <1>a1 DEF LeaseExpiring, Ended
  <2>10. Shift(t) => Goal
    BY <1>a, <1>a1 DEF Shift, Ended
  <2>11. LeasesChecked(t) => Goal
    BY <1>a, <1>a1 DEF LeasesChecked, Ended
  <2>12. ValidateAsIs(t) => Goal
    BY <1>a, <1>a1 DEF ValidateAsIs, StartWriting, Ended
  <2>13. FirstRedo(t) => Goal
    BY <1>a, <1>a1 DEF FirstRedo, Redo, Ended
  <2>14. RedoAgain(t) => Goal
    BY <1>a, <1>a1 DEF RedoAgain, Redo, Ended
  <2>15. RoundsUsedUp(t) => Goal
    BY <1>a, <1>a1 DEF RoundsUsedUp, RedoImpossible, Ended
  <2>16. Redone(t) => Goal
    BY <1>a, <1>a1 DEF Redone, StartWriting, Ended
  <2>17. WriteCommit(t) => Goal
    BY <1>a, <1>a1 DEF WriteCommit, Ended
  <2>18. WriteLost(t) => Goal
    BY <1>a, <1>a1 DEF WriteLost, Ended
  <2>19. AllWritten(t) => Goal
    BY <1>a, <1>a1 DEF AllWritten, Ended
  <2>20. Release(t) => Goal
    BY <1>a, <1>a1 DEF Release, Ended
  <2>21. Released(t) => Goal
    BY <1>a, <1>a1 DEF Released, Ended
  <2>22. ReserveResponseLost(t) => Goal
    BY <1>a, <1>a1 DEF ReserveResponseLost, Ended
  <2>23. LoadFails(t) => Goal
    BY <1>a, <1>a1 DEF LoadFails, Ended
  <2>24. WaitMissesOne(t) => Goal
    BY <1>a, <1>a1 DEF WaitMissesOne, WaitPass, Ended
  <2>25. GiveUpWaiting(t) => Goal
    BY <1>a, <1>a1 DEF GiveUpWaiting, Ended
  <2>26. WriteFails(t) => Goal
    BY <1>a, <1>a1 DEF WriteFails, Ended
  <2>27. ReleaseFails(t) => Goal
    BY <1>a, <1>a1 DEF ReleaseFails, Ended
  <2>28. RebuildFails(t) => Goal
    BY <1>a, <1>a1 DEF RebuildFails, RedoImpossible, Ended
  <2>29. Crash(t) => Goal
    BY <1>a, <1>a1 DEF Crash, Ended
  <2>30. Goal
    BY <2>1, <2>2, <2>3, <2>4, <2>5, <2>6, <2>7, <2>8, <2>9, <2>10, <2>11, <2>12, <2>13,
       <2>14, <2>15, <2>16, <2>17, <2>18, <2>19, <2>20, <2>21, <2>22, <2>23, <2>24,
       <2>25, <2>26, <2>27, <2>28, <2>29
       DEF Step, Opening, Waiting, Leasing, Validating, Writing, Releasing, StorageError
  <2> QED BY <2>30
<1>e. VersionOf(t)' = m
  BY <1>d DEF VersionOf, TableOf, Table
<1>f. m # 0
  BY <1>d DEF OwnVersion
<1>g. ASSUME NEW w \in Versions, w < m
      PROVE  Final(x, w) /\ (w \in Commits(x) /\ x \in wasRead[t] => w \in observed[t][x])
  <2>1. CASE Done
    BY <1>g, <2>1 DEF PlaceInOrder
  <2>2. CASE pc[t] = "write"
    <3>1. w \in seen[t][x] \/ log[x][w].kind = "empty"
      BY <1>g, <2>2 DEF TableInv, Known, SeenOrEmpty
    <3>2. Final(x, w)
      BY <3>1 DEF TableInv, SeenIsFinal, Final
    <3>3. ASSUME w \in Commits(x), x \in wasRead[t] PROVE w \in observed[t][x]
      <4>1. w \in seen[t][x]
        BY <3>1, <3>3 DEF Commits
      <4>2. w \in observed[t][x] \/ x \in concurrentChange[t]
        BY <2>2, <3>3, <4>1 DEF ReadInv, ChangesKnown, Committing
      <4>3. x \notin concurrentChange[t]
        BY <2>2, <3>3 DEF ReadInv, ReadsValidated
      <4> QED BY <4>2, <4>3
    <3> QED BY <3>2, <3>3
  <2> QED BY <1>d, <2>1, <2>2
<1>h. \A w \in Versions : w < m =>
        Final(x, w)' /\ (w \in Commits(x)' /\ x \in wasRead'[t] => w \in observed'[t][x])
  <2> SUFFICES ASSUME NEW w \in Versions, w < m
               PROVE  Final(x, w)' /\ (w \in Commits(x)' /\ x \in wasRead'[t] => w \in observed'[t][x])
    OBVIOUS
  <2>1. log'[x][w] = log[x][w] /\ Final(x, w)'
    BY <1>c, <1>g
  <2>2. w \in Commits(x)' => w \in Commits(x)
    BY <1>b, <2>1 DEF Commits
  <2>3. UNCHANGED <<wasRead, observed>>
    BY <1>d
  <2> QED BY <1>g, <2>1, <2>2, <2>3
<1> QED BY <1>b, <1>e, <1>f, <1>h DEF PlaceInOrder

\* ... whatever the others do.
LEMMA OthersPlace ==
  ASSUME IInv, OneTable, NEW u \in Txns, PlaceInOrder(u), Stays(u),
         \A x \in Tables, w \in Versions : Final(x, w) => log'[x][w] = log[x][w] /\ Final(x, w)'
  PROVE  PlaceInOrder(u)'
<1> DEFINE x == TableOf(u)
<1>a. TableOf(u)' = x /\ VersionOf(u)' = VersionOf(u) /\ x \in Tables
  BY AtTheTable DEF Stays, TableOf, VersionOf, Table
<1> SUFFICES ASSUME pc[u] \in {"finish", "committed"}, u \notin ReadOnly PROVE PlaceInOrder(u)'
  BY DEF PlaceInOrder, Stays
<1>b. VersionOf(u) # 0
  BY DEF PlaceInOrder
<1>c. ASSUME NEW w \in Versions, w < VersionOf(u)
      PROVE  Final(x, w)' /\ (w \in Commits(x)' /\ x \in wasRead'[u] => w \in observed'[u][x])
  <2>1. Final(x, w) /\ (w \in Commits(x) /\ x \in wasRead[u] => w \in observed[u][x])
    BY <1>c DEF PlaceInOrder
  <2>2. w \in Commits(x)' => w \in Commits(x)
    BY <1>a, <2>1 DEF Commits
  <2> QED BY <1>a, <2>1, <2>2 DEF Stays
<1> QED BY <1>a, <1>b, <1>c DEF PlaceInOrder

\* What holds of the place of every transaction in the order of versions
PlaceInvs == \A t \in Txns : OwnVersion(t) /\ PlaceInOrder(t)

\* It holds at the start and every step keeps it.
LEMMA PlaceInductive ==
  ASSUME OneTable, WaitsAreAnswered, Serializable, NothingIsRedone
  PROVE  Spec => [](TableInvs /\ ReadInvs /\ PlaceInvs)
<1>0. RedoesAll
  BY DEF NothingIsRedone, RedoesAll
<1>1. Init => PlaceInvs
  <2> SUFFICES ASSUME Init, NEW t \in Txns PROVE OwnVersion(t) /\ PlaceInOrder(t)
    BY DEF PlaceInvs
  <2>1. TableOf(t) \in Tables
    BY InitIInv, AtTheTable
  <2>2. pc[t] = "reserve" /\ VersionOf(t) = 0
    BY <2>1 DEF Init, VersionOf
  <2> QED BY <2>2 DEF OwnVersion, PlaceInOrder
<1>2. IInv /\ TableInvs /\ ReadInvs /\ PlaceInvs /\ [Next]_vars => PlaceInvs'
  <2> SUFFICES ASSUME IInv, TableInvs, ReadInvs, PlaceInvs, [Next]_vars, NEW u \in Txns
               PROVE  OwnVersion(u)' /\ PlaceInOrder(u)'
    BY DEF PlaceInvs
  <2>1. CommitsInOrder /\ TableInv(u) /\ ReadInv(u) /\ OwnVersion(u) /\ PlaceInOrder(u)
    BY DEF TableInvs, ReadInvs, PlaceInvs
  <2>2. OwnVersion(u)'
    BY <2>1, OwnVersionKept
  <2>3. CASE \/ UNCHANGED vars \/ AllEnded \/ \E x \in Tables, v \in Versions : LeaseEnds(x, v)
             \/ \E t \in Txns \ {u} : Step(t) \/ StorageError(t) \/ Crash(t)
    BY <2>1, <2>2, <2>3, StepOfOthers, OthersPlace
  <2>4. CASE Step(u) \/ StorageError(u) \/ Crash(u)
    BY <2>1, <2>2, <2>4, PlaceKept
  <2> QED BY <2>3, <2>4 DEF Next
<1>3. Spec => [](IInv /\ TableInvs)
  BY TableInductive
<1>4. Spec => []ReadInvs
  BY <1>0, ReadInductive
<1> QED BY <1>1, <1>2, <1>3, <1>4, PTL DEF Spec

\* A set of natural numbers that is not empty has a least one.
LEMMA LeastVersion ==
  ASSUME NEW S, S \subseteq Nat, S # {}
  PROVE  \E a \in S : \A b \in S : ~(b < a)
<1> DEFINE R == OpToRel(<, Nat)
<1>1. PICK a \in S : \A b \in S : ~(<<b, a>> \in R)
  <2>1. IsWellFoundedOn(R, Nat)
    BY NatLessThanWellFounded
  <2> HIDE DEF R
  <2> QED BY <2>1, WFMin
<1>2. \A b \in S : b < a => <<b, a>> \in R
  BY <1>1 DEF OpToRel
<1> QED BY <1>1, <1>2

\* With Isolation::Serializable, and all of them writers, the acknowledged
\* transactions are equivalent to their execution in the order of their
\* versions, when each opens one table, every wait is answered and nothing is
\* redone (level 1).
THEOREM AcknowledgedInVersionOrder ==
  ASSUME OneTable, WaitsAreAnswered, Serializable, NothingIsRedone, ReadOnly = {}
  PROVE  Spec => []AcknowledgedAreSerializable
<1>1. IInv /\ TableInvs /\ ReadInvs /\ PlaceInvs => AcknowledgedAreSerializable
  <2> SUFFICES ASSUME IInv, TableInvs, ReadInvs, PlaceInvs,
                      NEW S \in SUBSET {t \in Txns : pc[t] = "committed"}, S # {}
               PROVE  \E a \in S : \A b \in S \ {a} : ~Precedes(b, a)
    BY DEF AcknowledgedAreSerializable
  <2>a. \A t \in S : /\ t \in Txns /\ pc[t] = "committed" /\ TableInv(t) /\ ReadInv(t)
                     /\ OwnVersion(t) /\ PlaceInOrder(t) /\ VersionOf(t) \in Versions /\ TableOf(t) \in Tables
    BY AtTheTable DEF TableInvs, ReadInvs, PlaceInvs
  <2>b. \A w \in Versions : w \in Nat
    BY ConstantsAssumption DEF Versions
  <2>1. PICK a \in S : \A b \in S : ~(VersionOf(b) < VersionOf(a))
    <3> DEFINE used == {VersionOf(t) : t \in S}
    <3>1. used \subseteq Nat /\ used # {}
      BY <2>a, <2>b
    <3>2. PICK v \in used : \A w \in used : ~(w < v)
      BY <3>1, LeastVersion
    <3> QED BY <3>2
  <2>2. ASSUME NEW b \in S \ {a}, Precedes(b, a) PROVE VersionOf(b) < VersionOf(a)
    <3>a. /\ \A x \in Tables : \A v \in CommitsOf(a, x) : x = TableOf(a) /\ v = VersionOf(a)
          /\ \A x \in Tables : \A v \in CommitsOf(b, x) : x = TableOf(b) /\ v = VersionOf(b)
          /\ wasRead[a] \subseteq {TableOf(a)} /\ wasRead[b] \subseteq {TableOf(b)}
          /\ VersionOf(a) \in Nat /\ VersionOf(b) \in Nat
      BY <2>a, <2>b DEF TableInv, CommitsThere, ReadInv, ReadsBelow
    <3>1. PICK x \in Tables :
            \/ \E v \in CommitsOf(b, x), w \in CommitsOf(a, x) : v < w
            \/ x \in wasRead[a] /\ CommitsOf(b, x) \cap observed[a][x] # {}
            \/ x \in wasRead[b] /\ CommitsOf(a, x) \ observed[b][x] # {}
      BY <2>2 DEF Precedes
    <3>2. CASE \E v \in CommitsOf(b, x), w \in CommitsOf(a, x) : v < w
      BY <3>2, <3>a
    <3>3. CASE x \in wasRead[a] /\ CommitsOf(b, x) \cap observed[a][x] # {}
      <4>1. x = TableOf(a) /\ VersionOf(b) \in observed[a][x]
        BY <3>3, <3>a
      <4> QED BY <2>a, <4>1 DEF ReadInv, ReadsBelow
    <3>4. CASE x \in wasRead[b] /\ CommitsOf(a, x) \ observed[b][x] # {}
      <4>1. /\ x = TableOf(b) /\ x = TableOf(a)
            /\ VersionOf(a) \in CommitsOf(a, x) /\ VersionOf(a) \notin observed[b][x]
        BY <3>4, <3>a
      <4>2. VersionOf(a) \in Commits(x) /\ log[x][VersionOf(a)].by = a /\ log[x][VersionOf(a)].kind = "commit"
        BY <4>1 DEF CommitsOf, Commits
      <4>3. ~(VersionOf(a) < VersionOf(b)) /\ VersionOf(b) # 0
        BY <2>a, <3>4, <4>1, <4>2 DEF PlaceInOrder
      <4>4. VersionOf(a) # VersionOf(b)
        BY <2>a, <4>1, <4>2, <4>3 DEF OwnVersion
      <4> QED BY <3>a, <4>3, <4>4
    <3> QED BY <3>1, <3>2, <3>3, <3>4
  <2> QED BY <2>1, <2>2
<1> QED BY <1>1, PlaceInductive, Inductive, PTL

=============================================================================
