------------------------ MODULE MarkerOutcomeProofs ------------------------
(***************************************************************************)
(* Proofs about how transactions of MarkerCommit end: what they leave      *)
(* behind in the log, and whether what was acknowledged is in it.          *)
(*                                                                         *)
(* Each theorem names the errors it excludes; TLC finds a counterexample   *)
(* with any one of them.                                                   *)
(***************************************************************************)
EXTENDS MarkerCommitProofs

USE DEF reloadVars, loadVars, markerVars, snapVars, workVars,
        conflictVars, commitVars, txnVars, Goto, Continue

-----------------------------------------------------------------------------
(* The steps of a transaction leave the others' variables alone *)

\* What the other transactions keep in a step of t
Stays(u) ==
  /\ pc'[u] = pc[u] /\ idx'[u] = idx[u] /\ cur'[u] = cur[u] /\ at'[u] = at[u]
  /\ replaced'[u] = replaced[u] /\ markerVersion'[u] = markerVersion[u] /\ held'[u] = held[u]
  /\ seen'[u] = seen[u] /\ prevMarkers'[u] = prevMarkers[u]
  /\ wasRead'[u] = wasRead[u] /\ createdFiles'[u] = createdFiles[u]
  /\ deletedFiles'[u] = deletedFiles[u] /\ steps'[u] = steps[u] /\ observed'[u] = observed[u]
  /\ concurrentChange'[u] = concurrentChange[u] /\ concurrentRemoves'[u] = concurrentRemoves[u]
  /\ committed'[u] = committed[u]
  /\ u \in reopening' <=> u \in reopening
  /\ u \in explicitLog' <=> u \in explicitLog
  /\ u \in redoDone' <=> u \in redoDone
  /\ u \in shifted' <=> u \in shifted
OthersStay(t) == \A u \in Txns \ {t} : Stays(u)

\* Every action assigns the values of its own transaction only.
LEMMA OthersVariablesStay ==
  ASSUME TypeOK, NEW t \in Txns, Step(t) \/ StorageError(t) \/ Crash(t)
  PROVE  OthersStay(t)
<1> DEFINE Domains == /\ DOMAIN pc = Txns /\ DOMAIN idx = Txns /\ DOMAIN cur = Txns /\ DOMAIN at = Txns
                /\ DOMAIN replaced = Txns /\ DOMAIN markerVersion = Txns /\ DOMAIN held = Txns
                /\ DOMAIN seen = Txns /\ DOMAIN prevMarkers = Txns /\ DOMAIN wasRead = Txns
                /\ DOMAIN createdFiles = Txns /\ DOMAIN deletedFiles = Txns /\ DOMAIN steps = Txns
                /\ DOMAIN observed = Txns /\ DOMAIN concurrentChange = Txns
                /\ DOMAIN concurrentRemoves = Txns /\ DOMAIN committed = Txns
<1>0. Domains
  BY DEF TypeOK, LoadTypes, MarkerTypes, SnapTypes, WorkTypes, ConflictTypes, CommitTypes
<1> USE <1>0 DEF OthersStay, Stays
<1>1. Reserve(t) => OthersStay(t)
  BY DEF Reserve
<1>2. ReleaseReplaced(t) => OthersStay(t)
  BY DEF ReleaseReplaced
<1>3. ParseLogEntry(t) => OthersStay(t)
  BY DEF ParseLogEntry
<1>4. TableLoaded(t) => OthersStay(t)
  BY DEF TableLoaded, LoadedAll
<1>5. Work(t) => OthersStay(t)
  BY DEF Work
<1>6. Wait(t) => OthersStay(t)
  BY DEF Wait, WaitPass
<1>7. TakeOver(t) => OthersStay(t)
  BY DEF TakeOver
<1>8. LeaseHolds(t) => OthersStay(t)
  BY DEF LeaseHolds
<1>9. LeaseExpiring(t) => OthersStay(t)
  BY DEF LeaseExpiring
<1>10. Shift(t) => OthersStay(t)
  BY DEF Shift
<1>11. LeasesChecked(t) => OthersStay(t)
  BY DEF LeasesChecked
<1>12. ValidateAsIs(t) => OthersStay(t)
  BY DEF ValidateAsIs, StartWriting
<1>13. FirstRedo(t) => OthersStay(t)
  BY DEF FirstRedo, Redo
<1>14. RedoAgain(t) => OthersStay(t)
  BY DEF RedoAgain, Redo
<1>15. RoundsUsedUp(t) => OthersStay(t)
  BY DEF RoundsUsedUp, RedoImpossible
<1>16. Redone(t) => OthersStay(t)
  BY DEF Redone, StartWriting
<1>17. WriteCommit(t) => OthersStay(t)
  BY DEF WriteCommit
<1>18. WriteLost(t) => OthersStay(t)
  BY DEF WriteLost
<1>19. AllWritten(t) => OthersStay(t)
  BY DEF AllWritten
<1>20. Release(t) => OthersStay(t)
  BY DEF Release
<1>21. Released(t) => OthersStay(t)
  BY DEF Released
<1>22. ReserveResponseLost(t) => OthersStay(t)
  BY DEF ReserveResponseLost
<1>23. LoadFails(t) => OthersStay(t)
  BY DEF LoadFails
<1>24. WaitMissesOne(t) => OthersStay(t)
  BY DEF WaitMissesOne, WaitPass
<1>25. GiveUpWaiting(t) => OthersStay(t)
  BY DEF GiveUpWaiting
<1>26. WriteFails(t) => OthersStay(t)
  BY DEF WriteFails
<1>27. ReleaseFails(t) => OthersStay(t)
  BY DEF ReleaseFails
<1>28. RebuildFails(t) => OthersStay(t)
  BY DEF RebuildFails, RedoImpossible
<1>29. Crash(t) => OthersStay(t)
  BY DEF Crash
<1> QED BY <1>1, <1>2, <1>3, <1>4, <1>5, <1>6, <1>7, <1>8, <1>9, <1>10, <1>11, <1>12,
           <1>13, <1>14, <1>15, <1>16, <1>17, <1>18, <1>19, <1>20, <1>21, <1>22, <1>23,
           <1>24, <1>25, <1>26, <1>27, <1>28, <1>29
     DEF Step, Opening, Waiting, Leasing, Validating, Writing, Releasing, StorageError

-----------------------------------------------------------------------------
(* What a transaction leaves behind *)

\* commit() is reached with all tables open.
OpenedAll(t) ==
  pc[t] \in {"wait", "lease", "shift", "shiftLost", "validate", "redone", "write",
             "finish", "abort"} => idx[t] = NumTables(t)

\* What is held was opened; while a version is shifted, its table is not held;
\* a transaction that ended holds nothing.
HeldOpened(t) == \A x \in held[t] : \E i \in 1 .. NumTables(t) : x = Table(t, i)
ShiftsDropped(t) == pc[t] \in {"shift", "shiftLost"} => Current(t) \notin held[t]
EndedHoldsNone(t) == pc[t] \in {"committed", "aborted"} => held[t] = {}

\* The markers of a transaction that runs or ended are the ones it holds, and
\* the previous one of a table that it loads again.
MarkersHeld(t) ==
  pc[t] # "crashed" =>
    \A x \in Tables, v \in Versions : IsMarkerOf(x, v, t) =>
      \/ x \in held[t] /\ v = markerVersion[t][x]
      \/ pc[t] = "replace" /\ x = Current(t) /\ v = replaced[t]

\* No marker is written without the writer knowing, and abort() is able to
\* release what it holds.
NoLeftovers == FaultKinds \cap {"reserve", "release"} = {}

\* Opening keeps to the order of the tables.
LEMMA OpenedAllKept ==
  ASSUME TypeOK, Position, NEW t \in Txns, Step(t) \/ StorageError(t) \/ Crash(t), OpenedAll(t)
  PROVE  OpenedAll(t)'
<1>a. DOMAIN pc = Txns /\ DOMAIN idx = Txns
  BY DEF TypeOK, LoadTypes
<1> USE <1>a DEF OpenedAll, NumTables
<1>1. Reserve(t) => OpenedAll(t)'
  BY DEF Reserve
<1>2. ReleaseReplaced(t) => OpenedAll(t)'
  BY DEF ReleaseReplaced
<1>3. ParseLogEntry(t) => OpenedAll(t)'
  BY DEF ParseLogEntry
<1>4. TableLoaded(t) => OpenedAll(t)'
  BY DEF TableLoaded, LoadedAll
<1>5. Work(t) => OpenedAll(t)'
  BY DEF Work
<1>6. Wait(t) => OpenedAll(t)'
  BY DEF Wait, WaitPass
<1>7. TakeOver(t) => OpenedAll(t)'
  BY DEF TakeOver
<1>8. LeaseHolds(t) => OpenedAll(t)'
  BY DEF LeaseHolds
<1>9. LeaseExpiring(t) => OpenedAll(t)'
  BY DEF LeaseExpiring
<1>10. Shift(t) => OpenedAll(t)'
  BY DEF Shift
<1>11. LeasesChecked(t) => OpenedAll(t)'
  BY DEF LeasesChecked
<1>12. ValidateAsIs(t) => OpenedAll(t)'
  BY DEF ValidateAsIs, StartWriting
<1>13. FirstRedo(t) => OpenedAll(t)'
  BY DEF FirstRedo, Redo
<1>14. RedoAgain(t) => OpenedAll(t)'
  BY DEF RedoAgain, Redo
<1>15. RoundsUsedUp(t) => OpenedAll(t)'
  BY DEF RoundsUsedUp, RedoImpossible
<1>16. Redone(t) => OpenedAll(t)'
  BY DEF Redone, StartWriting
<1>17. WriteCommit(t) => OpenedAll(t)'
  BY DEF WriteCommit
<1>18. WriteLost(t) => OpenedAll(t)'
  BY DEF WriteLost
<1>19. AllWritten(t) => OpenedAll(t)'
  BY DEF AllWritten
<1>20. Release(t) => OpenedAll(t)'
  BY DEF Release
<1>21. Released(t) => OpenedAll(t)'
  BY DEF Released
<1>22. ReserveResponseLost(t) => OpenedAll(t)'
  BY DEF ReserveResponseLost
<1>23. LoadFails(t) => OpenedAll(t)'
  BY DEF LoadFails
<1>24. WaitMissesOne(t) => OpenedAll(t)'
  BY DEF WaitMissesOne, WaitPass
<1>25. GiveUpWaiting(t) => OpenedAll(t)'
  BY DEF GiveUpWaiting
<1>26. WriteFails(t) => OpenedAll(t)'
  BY DEF WriteFails
<1>27. ReleaseFails(t) => OpenedAll(t)'
  BY DEF ReleaseFails
<1>28. RebuildFails(t) => OpenedAll(t)'
  BY DEF RebuildFails, RedoImpossible
<1>29. Crash(t) => OpenedAll(t)'
  BY DEF Crash
<1> QED BY <1>1, <1>2, <1>3, <1>4, <1>5, <1>6, <1>7, <1>8, <1>9, <1>10, <1>11, <1>12,
           <1>13, <1>14, <1>15, <1>16, <1>17, <1>18, <1>19, <1>20, <1>21, <1>22, <1>23,
           <1>24, <1>25, <1>26, <1>27, <1>28, <1>29
     DEF Step, Opening, Waiting, Leasing, Validating, Writing, Releasing, StorageError

\* shift_marker releases the old version first.
LEMMA ShiftsDroppedKept ==
  ASSUME TypeOK, NEW t \in Txns, Step(t) \/ StorageError(t) \/ Crash(t), ShiftsDropped(t)
  PROVE  ShiftsDropped(t)'
<1>a. DOMAIN pc = Txns /\ DOMAIN held = Txns /\ DOMAIN cur = Txns /\ held[t] \in SUBSET Tables
  BY DEF TypeOK, LoadTypes, MarkerTypes
<1> USE <1>a DEF ShiftsDropped, Current, Table
<1>1. Reserve(t) => ShiftsDropped(t)'
  BY DEF Reserve, Ended
<1>2. ReleaseReplaced(t) => ShiftsDropped(t)'
  BY DEF ReleaseReplaced, Ended
<1>3. ParseLogEntry(t) => ShiftsDropped(t)'
  BY DEF ParseLogEntry, Ended
<1>4. TableLoaded(t) => ShiftsDropped(t)'
  BY DEF TableLoaded, LoadedAll, Ended
<1>5. Work(t) => ShiftsDropped(t)'
  BY DEF Work, Ended
<1>6. Wait(t) => ShiftsDropped(t)'
  BY DEF Wait, WaitPass, Ended
<1>7. TakeOver(t) => ShiftsDropped(t)'
  BY DEF TakeOver, Ended
<1>8. LeaseHolds(t) => ShiftsDropped(t)'
  BY DEF LeaseHolds, Ended
<1>9. LeaseExpiring(t) => ShiftsDropped(t)'
  BY DEF LeaseExpiring, Ended
<1>10. Shift(t) => ShiftsDropped(t)'
  BY DEF Shift, Ended
<1>11. LeasesChecked(t) => ShiftsDropped(t)'
  BY DEF LeasesChecked, Ended
<1>12. ValidateAsIs(t) => ShiftsDropped(t)'
  BY DEF ValidateAsIs, StartWriting, Ended
<1>13. FirstRedo(t) => ShiftsDropped(t)'
  BY DEF FirstRedo, Redo, Ended
<1>14. RedoAgain(t) => ShiftsDropped(t)'
  BY DEF RedoAgain, Redo, Ended
<1>15. RoundsUsedUp(t) => ShiftsDropped(t)'
  BY DEF RoundsUsedUp, RedoImpossible, Ended
<1>16. Redone(t) => ShiftsDropped(t)'
  BY DEF Redone, StartWriting, Ended
<1>17. WriteCommit(t) => ShiftsDropped(t)'
  BY DEF WriteCommit, Ended
<1>18. WriteLost(t) => ShiftsDropped(t)'
  BY DEF WriteLost, Ended
<1>19. AllWritten(t) => ShiftsDropped(t)'
  BY DEF AllWritten, Ended
<1>20. Release(t) => ShiftsDropped(t)'
  BY DEF Release, Ended
<1>21. Released(t) => ShiftsDropped(t)'
  BY DEF Released, Ended
<1>22. ReserveResponseLost(t) => ShiftsDropped(t)'
  BY DEF ReserveResponseLost, Ended
<1>23. LoadFails(t) => ShiftsDropped(t)'
  BY DEF LoadFails, Ended
<1>24. WaitMissesOne(t) => ShiftsDropped(t)'
  BY DEF WaitMissesOne, WaitPass, Ended
<1>25. GiveUpWaiting(t) => ShiftsDropped(t)'
  BY DEF GiveUpWaiting, Ended
<1>26. WriteFails(t) => ShiftsDropped(t)'
  BY DEF WriteFails, Ended
<1>27. ReleaseFails(t) => ShiftsDropped(t)'
  BY DEF ReleaseFails, Ended
<1>28. RebuildFails(t) => ShiftsDropped(t)'
  BY DEF RebuildFails, RedoImpossible, Ended
<1>29. Crash(t) => ShiftsDropped(t)'
  BY DEF Crash, Ended
<1> QED BY <1>1, <1>2, <1>3, <1>4, <1>5, <1>6, <1>7, <1>8, <1>9, <1>10, <1>11, <1>12,
           <1>13, <1>14, <1>15, <1>16, <1>17, <1>18, <1>19, <1>20, <1>21, <1>22, <1>23,
           <1>24, <1>25, <1>26, <1>27, <1>28, <1>29
     DEF Step, Opening, Waiting, Leasing, Validating, Writing, Releasing, StorageError

\* A version is reserved for a table of this->tables.
LEMMA HeldOpenedKept ==
  ASSUME TypeOK, Position, NEW t \in Txns, Step(t) \/ StorageError(t) \/ Crash(t), HeldOpened(t)
  PROVE  HeldOpened(t)'
<1>a. /\ DOMAIN held = Txns
      /\ pc[t] \in {"reserve", "replace", "parse", "yield", "shift", "shiftLost"} =>
         cur[t] \in 1 .. NumTables(t)
  BY DEF TypeOK, LoadTypes, MarkerTypes, Position
<1> USE <1>a DEF HeldOpened, Current, NumTables, Table
<1>1. Reserve(t) => HeldOpened(t)'
  BY DEF Reserve
<1>2. ReleaseReplaced(t) => HeldOpened(t)'
  BY DEF ReleaseReplaced
<1>3. ParseLogEntry(t) => HeldOpened(t)'
  BY DEF ParseLogEntry
<1>4. TableLoaded(t) => HeldOpened(t)'
  BY DEF TableLoaded, LoadedAll
<1>5. Work(t) => HeldOpened(t)'
  BY DEF Work
<1>6. Wait(t) => HeldOpened(t)'
  BY DEF Wait, WaitPass
<1>7. TakeOver(t) => HeldOpened(t)'
  BY DEF TakeOver
<1>8. LeaseHolds(t) => HeldOpened(t)'
  BY DEF LeaseHolds
<1>9. LeaseExpiring(t) => HeldOpened(t)'
  BY DEF LeaseExpiring
<1>10. Shift(t) => HeldOpened(t)'
  BY DEF Shift
<1>11. LeasesChecked(t) => HeldOpened(t)'
  BY DEF LeasesChecked
<1>12. ValidateAsIs(t) => HeldOpened(t)'
  BY DEF ValidateAsIs, StartWriting
<1>13. FirstRedo(t) => HeldOpened(t)'
  BY DEF FirstRedo, Redo
<1>14. RedoAgain(t) => HeldOpened(t)'
  BY DEF RedoAgain, Redo
<1>15. RoundsUsedUp(t) => HeldOpened(t)'
  BY DEF RoundsUsedUp, RedoImpossible
<1>16. Redone(t) => HeldOpened(t)'
  BY DEF Redone, StartWriting
<1>17. WriteCommit(t) => HeldOpened(t)'
  BY DEF WriteCommit
<1>18. WriteLost(t) => HeldOpened(t)'
  BY DEF WriteLost
<1>19. AllWritten(t) => HeldOpened(t)'
  BY DEF AllWritten
<1>20. Release(t) => HeldOpened(t)'
  BY DEF Release
<1>21. Released(t) => HeldOpened(t)'
  BY DEF Released
<1>22. ReserveResponseLost(t) => HeldOpened(t)'
  BY DEF ReserveResponseLost
<1>23. LoadFails(t) => HeldOpened(t)'
  BY DEF LoadFails
<1>24. WaitMissesOne(t) => HeldOpened(t)'
  BY DEF WaitMissesOne, WaitPass
<1>25. GiveUpWaiting(t) => HeldOpened(t)'
  BY DEF GiveUpWaiting
<1>26. WriteFails(t) => HeldOpened(t)'
  BY DEF WriteFails
<1>27. ReleaseFails(t) => HeldOpened(t)'
  BY DEF ReleaseFails
<1>28. RebuildFails(t) => HeldOpened(t)'
  BY DEF RebuildFails, RedoImpossible
<1>29. Crash(t) => HeldOpened(t)'
  BY DEF Crash
<1> QED BY <1>1, <1>2, <1>3, <1>4, <1>5, <1>6, <1>7, <1>8, <1>9, <1>10, <1>11, <1>12,
           <1>13, <1>14, <1>15, <1>16, <1>17, <1>18, <1>19, <1>20, <1>21, <1>22, <1>23,
           <1>24, <1>25, <1>26, <1>27, <1>28, <1>29
     DEF Step, Opening, Waiting, Leasing, Validating, Writing, Releasing, StorageError

\* The loop of the release visits all tables.
LEMMA EndedHoldsNoneKept ==
  ASSUME TypeOK, Position, NEW t \in Txns, Step(t) \/ StorageError(t) \/ Crash(t),
         OpenedAll(t), HeldOpened(t), EndedHoldsNone(t)
  PROVE  EndedHoldsNone(t)'
<1>a. DOMAIN pc = Txns /\ held[t] \in SUBSET Tables
  BY DEF TypeOK, LoadTypes, MarkerTypes
<1> USE <1>a DEF EndedHoldsNone
<1>1. Reserve(t) => EndedHoldsNone(t)'
  BY DEF Reserve, Ended
<1>2. ReleaseReplaced(t) => EndedHoldsNone(t)'
  BY DEF ReleaseReplaced, Ended
<1>3. ParseLogEntry(t) => EndedHoldsNone(t)'
  BY DEF ParseLogEntry, Ended
<1>4. TableLoaded(t) => EndedHoldsNone(t)'
  BY DEF TableLoaded, LoadedAll, Ended
<1>5. Work(t) => EndedHoldsNone(t)'
  BY DEF Work, Ended
<1>6. Wait(t) => EndedHoldsNone(t)'
  BY DEF Wait, WaitPass, Ended
<1>7. TakeOver(t) => EndedHoldsNone(t)'
  BY DEF TakeOver, Ended
<1>8. LeaseHolds(t) => EndedHoldsNone(t)'
  BY DEF LeaseHolds, Ended
<1>9. LeaseExpiring(t) => EndedHoldsNone(t)'
  BY DEF LeaseExpiring, Ended
<1>10. Shift(t) => EndedHoldsNone(t)'
  BY DEF Shift, Ended
<1>11. LeasesChecked(t) => EndedHoldsNone(t)'
  BY DEF LeasesChecked, Ended
<1>12. ValidateAsIs(t) => EndedHoldsNone(t)'
  BY DEF ValidateAsIs, StartWriting, Ended
<1>13. FirstRedo(t) => EndedHoldsNone(t)'
  BY DEF FirstRedo, Redo, Ended
<1>14. RedoAgain(t) => EndedHoldsNone(t)'
  BY DEF RedoAgain, Redo, Ended
<1>15. RoundsUsedUp(t) => EndedHoldsNone(t)'
  BY DEF RoundsUsedUp, RedoImpossible, Ended
<1>16. Redone(t) => EndedHoldsNone(t)'
  BY DEF Redone, StartWriting, Ended
<1>17. WriteCommit(t) => EndedHoldsNone(t)'
  BY DEF WriteCommit, Ended
<1>18. WriteLost(t) => EndedHoldsNone(t)'
  BY DEF WriteLost, Ended
<1>19. AllWritten(t) => EndedHoldsNone(t)'
  BY DEF AllWritten, Ended
<1>20. Release(t) => EndedHoldsNone(t)'
  BY DEF Release, Ended
<1>21. Released(t) => EndedHoldsNone(t)'
  BY DEF Released, OpenedAll, HeldOpened
<1>22. ReserveResponseLost(t) => EndedHoldsNone(t)'
  BY DEF ReserveResponseLost, Ended
<1>23. LoadFails(t) => EndedHoldsNone(t)'
  BY DEF LoadFails, Ended
<1>24. WaitMissesOne(t) => EndedHoldsNone(t)'
  BY DEF WaitMissesOne, WaitPass, Ended
<1>25. GiveUpWaiting(t) => EndedHoldsNone(t)'
  BY DEF GiveUpWaiting, Ended
<1>26. WriteFails(t) => EndedHoldsNone(t)'
  BY DEF WriteFails, Ended
<1>27. ReleaseFails(t) => EndedHoldsNone(t)'
  BY DEF ReleaseFails, Ended
<1>28. RebuildFails(t) => EndedHoldsNone(t)'
  BY DEF RebuildFails, RedoImpossible, Ended
<1>29. Crash(t) => EndedHoldsNone(t)'
  BY DEF Crash, Ended
<1> QED BY <1>1, <1>2, <1>3, <1>4, <1>5, <1>6, <1>7, <1>8, <1>9, <1>10, <1>11, <1>12,
           <1>13, <1>14, <1>15, <1>16, <1>17, <1>18, <1>19, <1>20, <1>21, <1>22, <1>23,
           <1>24, <1>25, <1>26, <1>27, <1>28, <1>29
     DEF Step, Opening, Waiting, Leasing, Validating, Writing, Releasing, StorageError

\* No write but a reservation makes a marker, and a write replaces its target.
LEMMA MarkersAfterWrite ==
  ASSUME TypeOK, NEW t \in Txns, NEW x \in Tables, NEW v \in Versions, NEW o,
         WriteLog(x, v, o)
  PROVE  \A y \in Tables, w \in Versions :
           IsMarkerOf(y, w, t)' =>
             IF y = x /\ w = v THEN o.kind = "marker" ELSE IsMarkerOf(y, w, t)
BY DEF TypeOK, WriteLog, IsMarkerOf

\* A release makes no marker and replaces its target.
LEMMA MarkersAfterReplace ==
  ASSUME TypeOK, NEW t \in Txns, NEW x \in Tables, NEW v \in Versions,
         ReplaceOwnMarker(t, x, v)
  PROVE  \A y \in Tables, w \in Versions :
           IsMarkerOf(y, w, t)' => IsMarkerOf(y, w, t) /\ ~(y = x /\ w = v)
BY ReleasesEmpty DEF TypeOK, ReplaceOwnMarker, IsMarkerOf

\* A marker is forgotten only when it is replaced.
LEMMA MarkersHeldKept ==
  ASSUME IInv, NoLeftovers, NEW t \in Txns, Step(t) \/ StorageError(t) \/ Crash(t),
         ShiftsDropped(t), MarkersHeld(t)
  PROVE  MarkersHeld(t)'
<1>a. /\ TypeOK /\ Position
      /\ DOMAIN pc = Txns /\ DOMAIN held = Txns /\ DOMAIN cur = Txns
      /\ DOMAIN replaced = Txns /\ DOMAIN markerVersion = Txns
      /\ held[t] \in SUBSET Tables
      /\ DOMAIN markerVersion[t] = Tables
      /\ replaced[t] \in Versions
      /\ \A x \in Tables : markerVersion[t][x] \in Versions
      /\ pc[t] \in {"reserve", "replace", "parse", "shift", "shiftLost"} => Current(t) \in Tables
      /\ pc[t] \in {"replace", "parse"} => Current(t) \in held[t]
      /\ \A i \in 1 .. NumTables(t) : Table(t, i) \in Tables
      /\ idx[t] \in 0 .. NumTables(t)
  BY TableIsATable DEF IInv, TypeOK, LoadTypes, MarkerTypes, Position, Current, LoadsHeld
<1>b. UNCHANGED log => \A x \in Tables, v \in Versions : IsMarkerOf(x, v, t)' <=> IsMarkerOf(x, v, t)
  BY DEF IsMarkerOf
<1>c. EmptyCommit.kind # "marker" /\ \A a, r : Commit(t, a, r).kind # "marker"
  BY DEF EmptyCommit, Commit, Object
<1> USE <1>a DEF MarkersHeld
<1>1. Reserve(t) => MarkersHeld(t)'
  <2> SUFFICES ASSUME Reserve(t), NEW x \in Tables, NEW v \in Versions, IsMarkerOf(x, v, t)'
               PROVE  \/ x \in held'[t] /\ v = markerVersion'[t][x]
                      \/ pc'[t] = "replace" /\ x = Current(t)' /\ v = replaced'[t]
    OBVIOUS
  <2> DEFINE y == Current(t)
  <2>1. PICK w \in Versions : /\ WriteLog(y, w, Marker(t))
                              /\ markerVersion' = [markerVersion EXCEPT ![t][y] = w]
    BY DEF Reserve
  <2>2. y \in Tables /\ (IsMarkerOf(x, v, t) \/ (x = y /\ v = w))
    BY <2>1, MarkersAfterWrite DEF Reserve
  <2>3. Current(t)' = y
    BY DEF Reserve, Current, Table
  <2>4. /\ held' = [held EXCEPT ![t] = @ \cup {y}]
        /\ replaced' = [replaced EXCEPT ![t] = markerVersion[t][y]]
        /\ pc' = [pc EXCEPT ![t] = IF y \in held[t] THEN "replace" ELSE "parse"]
        /\ pc[t] = "reserve"
    BY DEF Reserve
  <2> QED BY <2>1, <2>2, <2>3, <2>4
<1>2. ReleaseReplaced(t) => MarkersHeld(t)'
  <2> SUFFICES ASSUME ReleaseReplaced(t) PROVE MarkersHeld(t)'
    OBVIOUS
  <2>1. \A y \in Tables, w \in Versions :
          IsMarkerOf(y, w, t)' => IsMarkerOf(y, w, t) /\ ~(y = Current(t) /\ w = replaced[t])
    BY MarkersAfterReplace DEF ReleaseReplaced
  <2> QED BY <2>1 DEF ReleaseReplaced
<1>3. ParseLogEntry(t) => MarkersHeld(t)'
  BY <1>b DEF ParseLogEntry
<1>4. TableLoaded(t) => MarkersHeld(t)'
  BY <1>b DEF TableLoaded, LoadedAll
<1>5. Work(t) => MarkersHeld(t)'
  BY <1>b DEF Work
<1>6. Wait(t) => MarkersHeld(t)'
  BY <1>b DEF Wait, WaitPass
<1>7. TakeOver(t) => MarkersHeld(t)'
  <2> SUFFICES ASSUME TakeOver(t) PROVE MarkersHeld(t)'
    OBVIOUS
  <2>1. PICK p \in prevMarkers[t] : WriteLog(p[1], p[2], EmptyCommit)
    BY DEF TakeOver
  <2>2. p[1] \in Tables /\ p[2] \in Versions
    BY DEF TypeOK, SnapTypes
  <2>3. \A y \in Tables, w \in Versions : IsMarkerOf(y, w, t)' => IsMarkerOf(y, w, t)
    BY <2>1, <2>2, <1>c, MarkersAfterWrite
  <2> QED BY <2>3 DEF TakeOver
<1>8. LeaseHolds(t) => MarkersHeld(t)'
  BY <1>b DEF LeaseHolds
<1>9. LeaseExpiring(t) => MarkersHeld(t)'
  <2> SUFFICES ASSUME LeaseExpiring(t) PROVE MarkersHeld(t)'
    OBVIOUS
  <2>1. PICK i \in 1 .. NumTables(t) :
          \/ UNCHANGED <<log, held>>
          \/ /\ ReplaceOwnMarker(t, Table(t, i), markerVersion[t][Table(t, i)])
             /\ held' = [held EXCEPT ![t] = @ \ {Table(t, i)}]
    BY DEF LeaseExpiring
  <2>2. UNCHANGED markerVersion /\ pc[t] = "lease"
    BY DEF LeaseExpiring
  <2>3. CASE UNCHANGED <<log, held>>
    BY <2>2, <2>3, <1>b
  <2>4. CASE /\ ReplaceOwnMarker(t, Table(t, i), markerVersion[t][Table(t, i)])
             /\ held' = [held EXCEPT ![t] = @ \ {Table(t, i)}]
    BY <2>2, <2>4, MarkersAfterReplace
  <2> QED BY <2>1, <2>3, <2>4
<1>10. Shift(t) => MarkersHeld(t)'
  <2> SUFFICES ASSUME Shift(t), NEW x \in Tables, NEW v \in Versions, IsMarkerOf(x, v, t)'
               PROVE  x \in held'[t] /\ v = markerVersion'[t][x]
    OBVIOUS
  <2> DEFINE y == Current(t)
  <2>1. PICK w \in Versions : /\ WriteLog(y, w, Marker(t))
                              /\ markerVersion' = [markerVersion EXCEPT ![t][y] = w]
    BY DEF Shift
  <2>2. y \in Tables /\ (IsMarkerOf(x, v, t) \/ (x = y /\ v = w))
    BY <2>1, MarkersAfterWrite DEF Shift
  <2>3. /\ held' = [held EXCEPT ![t] = @ \cup {y}]
        /\ pc[t] \in {"shift", "shiftLost"} /\ y \notin held[t]
    BY DEF Shift, ShiftsDropped
  <2> QED BY <2>1, <2>2, <2>3
<1>11. LeasesChecked(t) => MarkersHeld(t)'
  BY <1>b DEF LeasesChecked
<1>12. ValidateAsIs(t) => MarkersHeld(t)'
  BY <1>b DEF ValidateAsIs, StartWriting
<1>13. FirstRedo(t) => MarkersHeld(t)'
  BY <1>b DEF FirstRedo, Redo
<1>14. RedoAgain(t) => MarkersHeld(t)'
  BY <1>b DEF RedoAgain, Redo
<1>15. RoundsUsedUp(t) => MarkersHeld(t)'
  BY <1>b DEF RoundsUsedUp, RedoImpossible
<1>16. Redone(t) => MarkersHeld(t)'
  BY <1>b DEF Redone, StartWriting
<1>17. WriteCommit(t) => MarkersHeld(t)'
  <2> SUFFICES ASSUME WriteCommit(t) PROVE MarkersHeld(t)'
    OBVIOUS
  <2>1. PICK i \in 1 .. NumTables(t) :
          /\ WriteLog(Table(t, i), markerVersion[t][Table(t, i)],
                      Commit(t, createdFiles[t][Table(t, i)], deletedFiles[t][Table(t, i)]))
          /\ held' = [held EXCEPT ![t] = @ \ {Table(t, i)}]
    BY DEF WriteCommit
  <2>2. UNCHANGED <<pc, markerVersion>> /\ pc[t] = "write"
    BY DEF WriteCommit
  <2> QED BY <1>c, <2>1, <2>2, MarkersAfterWrite
<1>18. WriteLost(t) => MarkersHeld(t)'
  <2> SUFFICES ASSUME WriteLost(t) PROVE MarkersHeld(t)'
    OBVIOUS
  <2>1. PICK i \in 1 .. NumTables(t) :
          /\ ~IsMarkerOf(Table(t, i), markerVersion[t][Table(t, i)], t)
          /\ held' = [held EXCEPT ![t] = @ \ {Table(t, i)}]
    BY DEF WriteLost
  <2>2. UNCHANGED <<log, markerVersion>> /\ pc[t] = "write"
    BY DEF WriteLost
  <2> QED BY <1>b, <2>1, <2>2
<1>19. AllWritten(t) => MarkersHeld(t)'
  BY <1>b DEF AllWritten
<1>20. Release(t) => MarkersHeld(t)'
  <2> SUFFICES ASSUME Release(t) PROVE MarkersHeld(t)'
    OBVIOUS
  <2>1. PICK i \in 1 .. idx[t] :
          /\ ReplaceOwnMarker(t, Table(t, i), markerVersion[t][Table(t, i)])
          /\ held' = [held EXCEPT ![t] = @ \ {Table(t, i)}]
    BY DEF Release
  <2>2. i \in 1 .. NumTables(t)
    BY NumTablesIsPositive
  <2>3. UNCHANGED <<pc, markerVersion>> /\ pc[t] \in {"yield", "abort", "finish"}
    BY DEF Release
  <2> QED BY <2>1, <2>2, <2>3, MarkersAfterReplace
<1>21. Released(t) => MarkersHeld(t)'
  BY <1>b DEF Released
<1>22. ReserveResponseLost(t) => MarkersHeld(t)'
  BY DEF ReserveResponseLost, Fault, NoLeftovers
<1>23. LoadFails(t) => MarkersHeld(t)'
  <2> SUFFICES ASSUME LoadFails(t) PROVE MarkersHeld(t)'
    OBVIOUS
  <2> DEFINE x == Current(t)
  <2>1. \/ UNCHANGED <<log, held>>
        \/ /\ WriteLog(x, markerVersion[t][x], EmptyCommit)
           /\ held' = [held EXCEPT ![t] = @ \ {x}]
    BY DEF LoadFails
  <2>2. UNCHANGED markerVersion /\ pc[t] = "parse" /\ x \in Tables
    BY DEF LoadFails
  <2>3. CASE UNCHANGED <<log, held>>
    BY <2>2, <2>3, <1>b
  <2>4. CASE /\ WriteLog(x, markerVersion[t][x], EmptyCommit)
             /\ held' = [held EXCEPT ![t] = @ \ {x}]
    BY <2>2, <2>4, <1>c, MarkersAfterWrite
  <2> QED BY <2>1, <2>3, <2>4
<1>24. WaitMissesOne(t) => MarkersHeld(t)'
  BY <1>b DEF WaitMissesOne, WaitPass
<1>25. GiveUpWaiting(t) => MarkersHeld(t)'
  BY <1>b DEF GiveUpWaiting
<1>26. WriteFails(t) => MarkersHeld(t)'
  <2> SUFFICES ASSUME WriteFails(t) PROVE MarkersHeld(t)'
    OBVIOUS
  <2>1. PICK i \in 1 .. NumTables(t) :
          \/ UNCHANGED log
          \/ WriteLog(Table(t, i), markerVersion[t][Table(t, i)],
                      Commit(t, createdFiles[t][Table(t, i)], deletedFiles[t][Table(t, i)]))
    BY DEF WriteFails
  <2>2. UNCHANGED <<held, markerVersion>> /\ pc[t] = "write"
    BY DEF WriteFails
  <2>3. \A y \in Tables, w \in Versions : IsMarkerOf(y, w, t)' => IsMarkerOf(y, w, t)
    BY <1>b, <1>c, <2>1, MarkersAfterWrite
  <2> QED BY <2>2, <2>3
<1>27. ReleaseFails(t) => MarkersHeld(t)'
  BY DEF ReleaseFails, Fault, NoLeftovers
<1>28. RebuildFails(t) => MarkersHeld(t)'
  BY <1>b DEF RebuildFails, RedoImpossible
<1>29. Crash(t) => MarkersHeld(t)'
  BY DEF Crash
<1> QED BY <1>1, <1>2, <1>3, <1>4, <1>5, <1>6, <1>7, <1>8, <1>9, <1>10, <1>11, <1>12,
           <1>13, <1>14, <1>15, <1>16, <1>17, <1>18, <1>19, <1>20, <1>21, <1>22, <1>23,
           <1>24, <1>25, <1>26, <1>27, <1>28, <1>29
     DEF Step, Opening, Waiting, Leasing, Validating, Writing, Releasing, StorageError


\* Others do not write markers in a transaction's name.
LEMMA OthersMarkers ==
  ASSUME TypeOK, NEW t \in Writers, NEW u \in Txns, u # t \/ UNCHANGED log, LogStep(t)
  PROVE  \A x \in Tables, v \in Versions : IsMarkerOf(x, v, u)' => IsMarkerOf(x, v, u)
<1> SUFFICES ASSUME NEW x \in Tables, NEW v \in Versions, IsMarkerOf(x, v, u)'
             PROVE  IsMarkerOf(x, v, u)
  OBVIOUS
<1>1. \A y \in Tables, w \in Versions : \A o :
        WriteLog(y, w, o) => log'[x][v] = IF y = x /\ w = v THEN o ELSE log[x][v]
  BY DEF WriteLog, TypeOK
<1>2. /\ Marker(t).by = t /\ EmptyCommit.kind # "marker"
      /\ \A a, r : Commit(t, a, r).kind # "marker"
  BY DEF Marker, EmptyCommit, Commit, Object
<1>3. CASE UNCHANGED log
  BY <1>3 DEF IsMarkerOf
<1>4. CASE \E y \in Tables, w \in Versions :
             log[y][w].kind = "marker" /\ log' = [log EXCEPT ![y][w].ended = TRUE]
  BY <1>4 DEF IsMarkerOf, TypeOK, Objects
<1> QED BY <1>1, <1>2, <1>3, <1>4 DEF LogStep, IsMarkerOf

EndInv(t) == /\ OpenedAll(t) /\ HeldOpened(t) /\ ShiftsDropped(t)
             /\ EndedHoldsNone(t) /\ MarkersHeld(t)

\* Every step keeps what is said about every transaction.
LEMMA NextEndInv ==
  ASSUME NoLeftovers, IInv, \A u \in Txns : EndInv(u), [Next]_vars
  PROVE  \A u \in Txns : EndInv(u)'
<1> SUFFICES ASSUME NEW u \in Txns PROVE EndInv(u)'
  OBVIOUS
<1>1. TypeOK /\ Position /\ EndInv(u)
  BY DEF IInv
<1> DEFINE Same == /\ pc'[u] = pc[u] /\ idx'[u] = idx[u] /\ cur'[u] = cur[u]
                   /\ replaced'[u] = replaced[u] /\ held'[u] = held[u]
                   /\ markerVersion'[u] = markerVersion[u]
           Fewer == \A x \in Tables, v \in Versions : IsMarkerOf(x, v, u)' => IsMarkerOf(x, v, u)
<1>2. Same /\ Fewer => EndInv(u)'
  BY <1>1 DEF EndInv, OpenedAll, HeldOpened, ShiftsDropped, EndedHoldsNone, MarkersHeld,
              Current, Table, NumTables
<1>3. CASE UNCHANGED vars \/ AllEnded
  <2>1. Same /\ Fewer
    BY <1>3 DEF AllEnded, vars, IsMarkerOf
  <2> QED BY <1>2, <2>1
<1>4. ASSUME NEW x \in Tables, NEW v \in Versions, LeaseEnds(x, v)
      PROVE  EndInv(u)'
  <2>1. Same
    BY <1>4 DEF LeaseEnds
  <2>2. Fewer
    BY <1>1, <1>4 DEF LeaseEnds, IsMarkerOf, TypeOK, Objects
  <2> QED BY <1>2, <2>1, <2>2
<1>5. ASSUME NEW t \in Txns, Step(t) \/ StorageError(t) \/ Crash(t), t # u
      PROVE  EndInv(u)'
  <2>1. Same
    BY <1>1, <1>5, OthersVariablesStay DEF OthersStay, Stays
  <2>2. LogStep(t) /\ t \in Writers
    BY <1>5, StepEffect DEF Effect, Writers
  <2>3. Fewer
    BY <1>1, <1>5, <2>2, OthersMarkers
  <2> QED BY <1>2, <2>1, <2>3
<1>6. ASSUME Step(u) \/ StorageError(u) \/ Crash(u)
      PROVE  EndInv(u)'
  <2>1. OpenedAll(u)' /\ HeldOpened(u)' /\ ShiftsDropped(u)'
    BY <1>1, <1>6, OpenedAllKept, HeldOpenedKept, ShiftsDroppedKept DEF EndInv
  <2>2. EndedHoldsNone(u)' /\ MarkersHeld(u)'
    BY <1>1, <1>6, EndedHoldsNoneKept, MarkersHeldKept DEF EndInv
  <2> QED BY <2>1, <2>2 DEF EndInv
<1> QED BY <1>3, <1>4, <1>5, <1>6 DEF Next

\* A transaction that returned from commit(), with either result, has no marker
\* in any log that others would have to wait for, unless it wrote one without
\* knowing or a release failed for good.
THEOREM NoMarkerIsLeft ==
  ASSUME NoLeftovers
  PROVE  Spec => []EndedLeavesNoMarker
<1>1. Init => \A t \in Txns : EndInv(t)
  <2> SUFFICES ASSUME Init, NEW t \in Txns PROVE EndInv(t)
    OBVIOUS
  <2>1. pc[t] = "reserve" /\ held[t] = {}
    BY DEF Init
  <2>2. \A x \in Tables, v \in Versions : log[x][v].kind # "marker"
    BY DEF Init, Commit, Absent, Object
  <2> QED BY <2>1, <2>2 DEF EndInv, OpenedAll, HeldOpened, ShiftsDropped, EndedHoldsNone,
                            MarkersHeld, IsMarkerOf
<1>2. IInv /\ (\A t \in Txns : EndInv(t)) /\ [Next]_vars => (\A t \in Txns : EndInv(t))'
  BY NextEndInv
<1>3. (\A t \in Txns : EndInv(t)) => EndedLeavesNoMarker
  BY DEF EndInv, EndedHoldsNone, MarkersHeld, EndedLeavesNoMarker
<1> QED BY <1>1, <1>2, <1>3, Inductive, PTL DEF Spec

-----------------------------------------------------------------------------
(* A transaction that aborts before it has committed anything *)

\* No lease ends, and every write of a commit is answered.
AnsweredInTime == ~LeasesEnd /\ "commit" \notin FaultKinds

NoneEnded == \A x \in Tables, v \in Versions : ~log[x][v].ended

\* Nobody takes over what is held ...
HeldIsMarked(t) == \A x \in Tables : x \in held[t] => IsMarkerOf(x, markerVersion[t][x], t)
ReplacedIsOld(t) == pc[t] = "replace" => replaced[t] # markerVersion[t][Current(t)]

\* ... what is committed is held until then, through every reload ...
HeldUpTo(t, n) == \A i \in 1 .. n : Table(t, i) \in held[t]
LoadsFirst(t) ==
  pc[t] \in {"reserve", "replace", "parse"} /\ t \notin reopening =>
    cur[t] = idx[t] + 1 /\ HeldUpTo(t, idx[t])
LoadsAgain(t) ==
  pc[t] \in {"reserve", "replace", "parse", "yield"} /\ t \in reopening =>
    /\ cur[t] <= idx[t]
    /\ pc[t] # "yield" => HeldUpTo(t, cur[t] - 1)
    /\ idx[t] = NumTables(t) => HeldUpTo(t, NumTables(t))
    /\ idx[t] < NumTables(t) => Table(t, idx[t] + 1) \in held[t]
Yields(t) == pc[t] = "yield" => t \in reopening /\ cur[t] = 1 /\ idx[t] < NumTables(t)
Works(t) == pc[t] = "work" => t \notin reopening /\ HeldUpTo(t, idx[t])
HoldsAll(t) ==
  pc[t] \in {"wait", "lease", "validate", "redone", "write"} =>
    \A i \in 1 .. NumTables(t) : Table(t, i) \in held[t] \cup committed[t]

\* ... so that once commits are written nothing can fail any more.
NeverShifts(t) == pc[t] \notin {"shift", "shiftLost"}
NothingCommitted(t) ==
  pc[t] \notin {"write", "finish", "committed", "crashed"} =>
    committed[t] = {} /\ \A x \in Tables : CommitsOf(t, x) = {}

\* What a write does to the markers of any transaction
LEMMA MarkersStay ==
  ASSUME TypeOK, NEW u \in Txns, NEW x \in Tables, NEW v \in Versions, NEW o,
         WriteLog(x, v, o)
  PROVE  \A y \in Tables, w \in Versions :
           IsMarkerOf(y, w, u) /\ ~(y = x /\ w = v) => IsMarkerOf(y, w, u)'
BY DEF TypeOK, WriteLog, IsMarkerOf

\* A conditional write finds a marker of its own transaction, or does nothing.
LEMMA MarkersStayReplaced ==
  ASSUME TypeOK, NEW t \in Txns, NEW u \in Txns, NEW x \in Tables, NEW v \in Versions,
         ReplaceOwnMarker(t, x, v)
  PROVE  \A y \in Tables, w \in Versions :
           IsMarkerOf(y, w, u) /\ (u # t \/ y # x \/ w # v) => IsMarkerOf(y, w, u)'
<1>1. CASE UNCHANGED log
  BY <1>1 DEF IsMarkerOf
<1>2. CASE IsMarkerOf(x, v, t) /\ WriteLog(x, v, EmptyCommit)
  BY <1>2, MarkersStay DEF IsMarkerOf
<1> QED BY <1>1, <1>2 DEF ReplaceOwnMarker, WriteLog

\* With time on its side, a transaction never loses a marker to another one.
LEMMA OthersKeepTheirs ==
  ASSUME IInv, NoneEnded, NEW t \in Txns, Step(t) \/ StorageError(t) \/ Crash(t),
         HeldIsMarked(t), NEW u \in Txns \ {t}
  PROVE  \A x \in Tables, v \in Versions : IsMarkerOf(x, v, u) => IsMarkerOf(x, v, u)'
<1> DEFINE Keeps == \A x \in Tables, v \in Versions : IsMarkerOf(x, v, u) => IsMarkerOf(x, v, u)'
<1>a. /\ TypeOK /\ Position
      /\ \A x \in Tables : markerVersion[t][x] \in Versions
      /\ replaced[t] \in Versions
      /\ held[t] \in SUBSET Tables
      /\ pc[t] \in {"reserve", "replace", "parse", "shift", "shiftLost"} => Current(t) \in Tables
      /\ pc[t] \in {"replace", "parse"} => Current(t) \in held[t]
      /\ \A i \in 1 .. NumTables(t) : Table(t, i) \in Tables
      /\ idx[t] \in 0 .. NumTables(t)
  BY TableIsATable DEF IInv, TypeOK, LoadTypes, MarkerTypes, Position, Current, LoadsHeld
<1>b. UNCHANGED log => Keeps
  BY DEF IsMarkerOf
<1>c. ASSUME NEW y \in Tables, NEW w \in Versions, NEW o, WriteLog(y, w, o), ~IsMarkerOf(y, w, u)
      PROVE  Keeps
  BY <1>a, <1>c, MarkersStay DEF IsMarkerOf
<1> HIDE DEF Keeps
<1>1. Reserve(t) => Keeps
  <2> SUFFICES ASSUME Reserve(t) PROVE Keeps
    OBVIOUS
  <2>1. PICK w \in Versions : log[Current(t)][w].kind = "absent" /\ WriteLog(Current(t), w, Marker(t))
    BY DEF Reserve, FirstFree
  <2>2. Current(t) \in Tables
    BY <1>a DEF Reserve
  <2> QED BY <2>1, <2>2, <1>c DEF IsMarkerOf
<1>2. ReleaseReplaced(t) => Keeps
  BY <1>a, MarkersStayReplaced DEF ReleaseReplaced, Keeps
<1>3. ParseLogEntry(t) => Keeps
  BY <1>b DEF ParseLogEntry
<1>4. TableLoaded(t) => Keeps
  BY <1>b DEF TableLoaded, LoadedAll
<1>5. Work(t) => Keeps
  BY <1>b DEF Work
<1>6. Wait(t) => Keeps
  BY <1>b DEF Wait, WaitPass
<1>7. TakeOver(t) => Keeps
  <2> SUFFICES ASSUME TakeOver(t) PROVE FALSE
    OBVIOUS
  <2>1. PICK p \in prevMarkers[t] : Overdue(p[1], p[2])
    BY DEF TakeOver
  <2>2. p[1] \in Tables /\ p[2] \in Versions
    BY <1>a DEF TypeOK, SnapTypes
  <2> QED BY <2>1, <2>2 DEF Overdue, NoneEnded
<1>8. LeaseHolds(t) => Keeps
  BY <1>b DEF LeaseHolds
<1>9. LeaseExpiring(t) => Keeps
  <2> SUFFICES ASSUME LeaseExpiring(t) PROVE Keeps
    OBVIOUS
  <2>1. PICK i \in 1 .. NumTables(t) :
          \/ UNCHANGED log
          \/ ReplaceOwnMarker(t, Table(t, i), markerVersion[t][Table(t, i)])
    BY DEF LeaseExpiring
  <2> QED BY <2>1, <1>a, <1>b, MarkersStayReplaced DEF Keeps
<1>10. Shift(t) => Keeps
  <2> SUFFICES ASSUME Shift(t) PROVE Keeps
    OBVIOUS
  <2>1. PICK w \in Versions : log[Current(t)][w].kind = "absent" /\ WriteLog(Current(t), w, Marker(t))
    BY DEF Shift, FirstFree
  <2>2. Current(t) \in Tables
    BY <1>a DEF Shift
  <2> QED BY <2>1, <2>2, <1>c DEF IsMarkerOf
<1>11. LeasesChecked(t) => Keeps
  BY <1>b DEF LeasesChecked
<1>12. ValidateAsIs(t) => Keeps
  BY <1>b DEF ValidateAsIs, StartWriting
<1>13. FirstRedo(t) => Keeps
  BY <1>b DEF FirstRedo, Redo
<1>14. RedoAgain(t) => Keeps
  BY <1>b DEF RedoAgain, Redo
<1>15. RoundsUsedUp(t) => Keeps
  BY <1>b DEF RoundsUsedUp, RedoImpossible
<1>16. Redone(t) => Keeps
  BY <1>b DEF Redone, StartWriting
<1>17. WriteCommit(t) => Keeps
  <2> SUFFICES ASSUME WriteCommit(t) PROVE Keeps
    OBVIOUS
  <2>1. PICK i \in 1 .. NumTables(t) :
          \/ UNCHANGED log
          \/ /\ IsMarkerOf(Table(t, i), markerVersion[t][Table(t, i)], t)
             /\ WriteLog(Table(t, i), markerVersion[t][Table(t, i)],
                         Commit(t, createdFiles[t][Table(t, i)], deletedFiles[t][Table(t, i)]))
    BY DEF WriteCommit
  <2> QED BY <2>1, <1>a, <1>b, <1>c DEF IsMarkerOf
<1>18. WriteLost(t) => Keeps
  BY <1>b DEF WriteLost
<1>19. AllWritten(t) => Keeps
  BY <1>b DEF AllWritten
<1>20. Release(t) => Keeps
  <2> SUFFICES ASSUME Release(t) PROVE Keeps
    OBVIOUS
  <2>1. PICK i \in 1 .. idx[t] :
          ReplaceOwnMarker(t, Table(t, i), markerVersion[t][Table(t, i)])
    BY DEF Release
  <2>2. i \in 1 .. NumTables(t)
    BY <1>a, NumTablesIsPositive
  <2> QED BY <2>1, <2>2, <1>a, MarkersStayReplaced DEF Keeps
<1>21. Released(t) => Keeps
  BY <1>b DEF Released
<1>22. ReserveResponseLost(t) => Keeps
  <2> SUFFICES ASSUME ReserveResponseLost(t) PROVE Keeps
    OBVIOUS
  <2>1. PICK w \in Versions : log[Current(t)][w].kind = "absent" /\ WriteLog(Current(t), w, Marker(t))
    BY DEF ReserveResponseLost, FirstFree
  <2>2. Current(t) \in Tables
    BY <1>a DEF ReserveResponseLost
  <2> QED BY <2>1, <2>2, <1>c DEF IsMarkerOf
<1>23. LoadFails(t) => Keeps
  <2> SUFFICES ASSUME LoadFails(t) PROVE Keeps
    OBVIOUS
  <2>1. \/ UNCHANGED log
        \/ WriteLog(Current(t), markerVersion[t][Current(t)], EmptyCommit)
    BY DEF LoadFails
  <2>2. Current(t) \in Tables /\ IsMarkerOf(Current(t), markerVersion[t][Current(t)], t)
    BY <1>a DEF LoadFails, HeldIsMarked
  <2> QED BY <2>1, <2>2, <1>a, <1>b, <1>c DEF IsMarkerOf
<1>24. WaitMissesOne(t) => Keeps
  BY <1>b DEF WaitMissesOne, WaitPass
<1>25. GiveUpWaiting(t) => Keeps
  BY <1>b DEF GiveUpWaiting
<1>26. WriteFails(t) => Keeps
  <2> SUFFICES ASSUME WriteFails(t) PROVE Keeps
    OBVIOUS
  <2>1. PICK i \in 1 .. NumTables(t) :
          \/ UNCHANGED log
          \/ /\ IsMarkerOf(Table(t, i), markerVersion[t][Table(t, i)], t)
             /\ WriteLog(Table(t, i), markerVersion[t][Table(t, i)],
                         Commit(t, createdFiles[t][Table(t, i)], deletedFiles[t][Table(t, i)]))
    BY DEF WriteFails
  <2> QED BY <2>1, <1>a, <1>b, <1>c DEF IsMarkerOf
<1>27. ReleaseFails(t) => Keeps
  BY <1>b DEF ReleaseFails
<1>28. RebuildFails(t) => Keeps
  BY <1>b DEF RebuildFails, RedoImpossible
<1>29. Crash(t) => Keeps
  BY <1>b DEF Crash
<1> QED BY <1>1, <1>2, <1>3, <1>4, <1>5, <1>6, <1>7, <1>8, <1>9, <1>10, <1>11, <1>12,
           <1>13, <1>14, <1>15, <1>16, <1>17, <1>18, <1>19, <1>20, <1>21, <1>22, <1>23,
           <1>24, <1>25, <1>26, <1>27, <1>28, <1>29
     DEF Step, Opening, Waiting, Leasing, Validating, Writing, Releasing, StorageError, Keeps

\* What a transaction holds stays its marker.
LEMMA HeldIsMarkedKept ==
  ASSUME IInv, AnsweredInTime, NoneEnded, NEW t \in Txns, Step(t) \/ StorageError(t) \/ Crash(t),
         HeldIsMarked(t), ReplacedIsOld(t), NeverShifts(t)
  PROVE  HeldIsMarked(t)'
<1>a. /\ TypeOK /\ Position
      /\ DOMAIN pc = Txns /\ DOMAIN held = Txns /\ DOMAIN markerVersion = Txns
      /\ DOMAIN markerVersion[t] = Tables /\ DOMAIN cur = Txns /\ DOMAIN replaced = Txns
      /\ \A x \in Tables : markerVersion[t][x] \in Versions
      /\ replaced[t] \in Versions
      /\ held[t] \in SUBSET Tables
      /\ pc[t] \in {"reserve", "replace", "parse", "shift", "shiftLost"} => Current(t) \in Tables
      /\ pc[t] \in {"replace", "parse"} => Current(t) \in held[t]
      /\ \A i \in 1 .. NumTables(t) : Table(t, i) \in Tables
      /\ idx[t] \in 0 .. NumTables(t)
  BY TableIsATable DEF IInv, TypeOK, LoadTypes, MarkerTypes, Position, Current, LoadsHeld
<1>b. UNCHANGED <<log, markerVersion>> /\ held'[t] \subseteq held[t] => HeldIsMarked(t)'
  BY DEF HeldIsMarked, IsMarkerOf
<1>c. ASSUME NEW y \in Tables, NEW w \in Versions, NEW o, WriteLog(y, w, o),
             UNCHANGED markerVersion, held'[t] \subseteq held[t],
             y \notin held'[t] \/ log[y][w].kind = "absent"
      PROVE  HeldIsMarked(t)'
  BY <1>a, <1>c, MarkersStay DEF HeldIsMarked, IsMarkerOf
<1>d. ASSUME NEW y \in Tables, NEW w \in Versions, ReplaceOwnMarker(t, y, w),
             UNCHANGED markerVersion, held'[t] \subseteq held[t],
             y \notin held'[t] \/ w # markerVersion[t][y]
      PROVE  HeldIsMarked(t)'
  <2> SUFFICES ASSUME NEW x \in Tables, x \in held'[t]
               PROVE  IsMarkerOf(x, markerVersion[t][x], t)'
    BY <1>d DEF HeldIsMarked, IsMarkerOf
  <2>1. IsMarkerOf(x, markerVersion[t][x], t) /\ markerVersion[t][x] \in Versions
    BY <1>a, <1>d DEF HeldIsMarked
  <2>2. x # y \/ markerVersion[t][x] # w
    BY <1>d
  <2> QED BY <2>1, <2>2, <1>a, <1>d, MarkersStayReplaced
<1> USE <1>a
<1>1. Reserve(t) => HeldIsMarked(t)'
  <2> SUFFICES ASSUME Reserve(t), NEW x \in Tables, x \in held'[t]
               PROVE  IsMarkerOf(x, markerVersion[t][x], t)'
    BY DEF HeldIsMarked, IsMarkerOf
  <2> DEFINE y == Current(t)
  <2>1. PICK w \in Versions : /\ log[y][w].kind = "absent"
                              /\ WriteLog(y, w, Marker(t))
                              /\ markerVersion' = [markerVersion EXCEPT ![t][y] = w]
    BY DEF Reserve, FirstFree
  <2>2. y \in Tables /\ held' = [held EXCEPT ![t] = @ \cup {y}]
    BY DEF Reserve
  <2>3. CASE x = y
    <3>1. log'[x][w] = Marker(t) /\ markerVersion'[t][x] = w
      BY <2>1, <2>2, <2>3 DEF WriteLog, TypeOK
    <3> QED BY <3>1 DEF IsMarkerOf, Marker, Object
  <2>4. CASE x # y
    <3>1. markerVersion'[t][x] = markerVersion[t][x] /\ IsMarkerOf(x, markerVersion[t][x], t)
      BY <2>1, <2>2, <2>4 DEF HeldIsMarked
    <3>2. IsMarkerOf(x, markerVersion[t][x], t)'
      BY <2>1, <2>2, <2>4, <3>1, MarkersStay
    <3> QED BY <3>1, <3>2 DEF IsMarkerOf
  <2> QED BY <2>3, <2>4
<1>2. ReleaseReplaced(t) => HeldIsMarked(t)'
  <2> SUFFICES ASSUME ReleaseReplaced(t) PROVE HeldIsMarked(t)'
    OBVIOUS
  <2>1. /\ ReplaceOwnMarker(t, Current(t), replaced[t]) /\ Current(t) \in Tables
        /\ UNCHANGED <<held, markerVersion>> /\ replaced[t] # markerVersion[t][Current(t)]
    BY DEF ReleaseReplaced, ReplacedIsOld
  <2> QED BY <2>1, <1>d
<1>3. ParseLogEntry(t) => HeldIsMarked(t)'
  BY <1>b DEF ParseLogEntry
<1>4. TableLoaded(t) => HeldIsMarked(t)'
  BY <1>b DEF TableLoaded, LoadedAll
<1>5. Work(t) => HeldIsMarked(t)'
  BY <1>b DEF Work
<1>6. Wait(t) => HeldIsMarked(t)'
  BY <1>b DEF Wait, WaitPass
<1>7. TakeOver(t) => HeldIsMarked(t)'
  <2> SUFFICES ASSUME TakeOver(t) PROVE FALSE
    OBVIOUS
  <2>1. PICK p \in prevMarkers[t] : Overdue(p[1], p[2])
    BY DEF TakeOver
  <2>2. p[1] \in Tables /\ p[2] \in Versions
    BY DEF TypeOK, SnapTypes
  <2> QED BY <2>1, <2>2 DEF Overdue, NoneEnded
<1>8. LeaseHolds(t) => HeldIsMarked(t)'
  BY <1>b DEF LeaseHolds
<1>9. LeaseExpiring(t) => HeldIsMarked(t)'
  BY DEF LeaseExpiring, AnsweredInTime
<1>10. Shift(t) => HeldIsMarked(t)'
  BY DEF Shift, NeverShifts
<1>11. LeasesChecked(t) => HeldIsMarked(t)'
  BY <1>b DEF LeasesChecked
<1>12. ValidateAsIs(t) => HeldIsMarked(t)'
  BY <1>b DEF ValidateAsIs, StartWriting
<1>13. FirstRedo(t) => HeldIsMarked(t)'
  BY <1>b DEF FirstRedo, Redo
<1>14. RedoAgain(t) => HeldIsMarked(t)'
  BY <1>b DEF RedoAgain, Redo
<1>15. RoundsUsedUp(t) => HeldIsMarked(t)'
  BY <1>b DEF RoundsUsedUp, RedoImpossible
<1>16. Redone(t) => HeldIsMarked(t)'
  BY <1>b DEF Redone, StartWriting
<1>17. WriteCommit(t) => HeldIsMarked(t)'
  <2> SUFFICES ASSUME WriteCommit(t) PROVE HeldIsMarked(t)'
    OBVIOUS
  <2>1. PICK i \in 1 .. NumTables(t) :
          /\ WriteLog(Table(t, i), markerVersion[t][Table(t, i)],
                      Commit(t, createdFiles[t][Table(t, i)], deletedFiles[t][Table(t, i)]))
          /\ held' = [held EXCEPT ![t] = @ \ {Table(t, i)}]
    BY DEF WriteCommit
  <2>2. UNCHANGED markerVersion
    BY DEF WriteCommit
  <2> QED BY <2>1, <2>2, <1>c
<1>18. WriteLost(t) => HeldIsMarked(t)'
  BY <1>b DEF WriteLost
<1>19. AllWritten(t) => HeldIsMarked(t)'
  BY <1>b DEF AllWritten
<1>20. Release(t) => HeldIsMarked(t)'
  <2> SUFFICES ASSUME Release(t) PROVE HeldIsMarked(t)'
    OBVIOUS
  <2>1. PICK i \in 1 .. idx[t] :
          /\ ReplaceOwnMarker(t, Table(t, i), markerVersion[t][Table(t, i)])
          /\ held' = [held EXCEPT ![t] = @ \ {Table(t, i)}]
    BY DEF Release
  <2>2. i \in 1 .. NumTables(t)
    BY NumTablesIsPositive
  <2>3. UNCHANGED markerVersion
    BY DEF Release
  <2> QED BY <2>1, <2>2, <2>3, <1>d
<1>21. Released(t) => HeldIsMarked(t)'
  BY <1>b DEF Released
<1>22. ReserveResponseLost(t) => HeldIsMarked(t)'
  <2> SUFFICES ASSUME ReserveResponseLost(t) PROVE HeldIsMarked(t)'
    OBVIOUS
  <2>1. PICK w \in Versions : log[Current(t)][w].kind = "absent" /\ WriteLog(Current(t), w, Marker(t))
    BY DEF ReserveResponseLost, FirstFree
  <2>2. Current(t) \in Tables /\ UNCHANGED <<held, markerVersion>>
    BY DEF ReserveResponseLost
  <2> QED BY <2>1, <2>2, <1>c
<1>23. LoadFails(t) => HeldIsMarked(t)'
  <2> SUFFICES ASSUME LoadFails(t) PROVE HeldIsMarked(t)'
    OBVIOUS
  <2>1. \/ UNCHANGED <<log, held>>
        \/ /\ WriteLog(Current(t), markerVersion[t][Current(t)], EmptyCommit)
           /\ held' = [held EXCEPT ![t] = @ \ {Current(t)}]
    BY DEF LoadFails
  <2>2. Current(t) \in Tables /\ UNCHANGED markerVersion
    BY DEF LoadFails
  <2> QED BY <2>1, <2>2, <1>b, <1>c
<1>24. WaitMissesOne(t) => HeldIsMarked(t)'
  BY <1>b DEF WaitMissesOne, WaitPass
<1>25. GiveUpWaiting(t) => HeldIsMarked(t)'
  BY <1>b DEF GiveUpWaiting
<1>26. WriteFails(t) => HeldIsMarked(t)'
  BY DEF WriteFails, Fault, AnsweredInTime
<1>27. ReleaseFails(t) => HeldIsMarked(t)'
  BY <1>b DEF ReleaseFails
<1>28. RebuildFails(t) => HeldIsMarked(t)'
  BY <1>b DEF RebuildFails, RedoImpossible
<1>29. Crash(t) => HeldIsMarked(t)'
  BY <1>b DEF Crash
<1> QED BY <1>1, <1>2, <1>3, <1>4, <1>5, <1>6, <1>7, <1>8, <1>9, <1>10, <1>11, <1>12,
           <1>13, <1>14, <1>15, <1>16, <1>17, <1>18, <1>19, <1>20, <1>21, <1>22, <1>23,
           <1>24, <1>25, <1>26, <1>27, <1>28, <1>29
     DEF Step, Opening, Waiting, Leasing, Validating, Writing, Releasing, StorageError

\* A version is reserved at a free place, which the replaced one is not.
LEMMA ReplacedIsOldKept ==
  ASSUME IInv, NEW t \in Txns, Step(t) \/ StorageError(t) \/ Crash(t), ReplacedIsOld(t)
  PROVE  ReplacedIsOld(t)'
<1>a. /\ TypeOK /\ Position
      /\ DOMAIN pc = Txns /\ DOMAIN held = Txns /\ DOMAIN markerVersion = Txns
      /\ DOMAIN markerVersion[t] = Tables /\ DOMAIN cur = Txns /\ DOMAIN replaced = Txns
      /\ \A x \in Tables : markerVersion[t][x] \in Versions
      /\ replaced[t] \in Versions
      /\ held[t] \in SUBSET Tables
      /\ pc[t] \in {"reserve", "replace", "parse", "shift", "shiftLost"} => Current(t) \in Tables
      /\ pc[t] \in {"replace", "parse"} => Current(t) \in held[t]
      /\ \A i \in 1 .. NumTables(t) : Table(t, i) \in Tables
      /\ idx[t] \in 0 .. NumTables(t)
  BY TableIsATable DEF IInv, TypeOK, LoadTypes, MarkerTypes, Position, Current, LoadsHeld
<1> USE <1>a DEF ReplacedIsOld
<1>1. Reserve(t) => ReplacedIsOld(t)'
  <2> SUFFICES ASSUME Reserve(t) PROVE replaced'[t] # markerVersion'[t][Current(t)]
    BY DEF Reserve, Current, Table
  <2>1. PICK w \in Versions : /\ log[Current(t)][w].kind = "absent"
                              /\ markerVersion' = [markerVersion EXCEPT ![t][Current(t)] = w]
    BY DEF Reserve, FirstFree
  <2>2. Current(t) \in Tables /\ replaced' = [replaced EXCEPT ![t] = markerVersion[t][Current(t)]]
    BY DEF Reserve
  <2>3. log[Current(t)][markerVersion[t][Current(t)]].kind # "absent"
    BY <2>2 DEF IInv, ReservedExists, Exists
  <2> QED BY <2>1, <2>2, <2>3
<1>2. ReleaseReplaced(t) => ReplacedIsOld(t)'
  BY DEF ReleaseReplaced, Current, Table, Ended
<1>3. ParseLogEntry(t) => ReplacedIsOld(t)'
  BY DEF ParseLogEntry, Current, Table, Ended
<1>4. TableLoaded(t) => ReplacedIsOld(t)'
  BY DEF TableLoaded, LoadedAll, Current, Table, Ended
<1>5. Work(t) => ReplacedIsOld(t)'
  BY DEF Work, Current, Table, Ended
<1>6. Wait(t) => ReplacedIsOld(t)'
  BY DEF Wait, WaitPass, Current, Table, Ended
<1>7. TakeOver(t) => ReplacedIsOld(t)'
  BY DEF TakeOver, Current, Table, Ended
<1>8. LeaseHolds(t) => ReplacedIsOld(t)'
  BY DEF LeaseHolds, Current, Table, Ended
<1>9. LeaseExpiring(t) => ReplacedIsOld(t)'
  BY DEF LeaseExpiring, Current, Table, Ended
<1>10. Shift(t) => ReplacedIsOld(t)'
  BY DEF Shift, Current, Table, Ended
<1>11. LeasesChecked(t) => ReplacedIsOld(t)'
  BY DEF LeasesChecked, Current, Table, Ended
<1>12. ValidateAsIs(t) => ReplacedIsOld(t)'
  BY DEF ValidateAsIs, StartWriting, Current, Table, Ended
<1>13. FirstRedo(t) => ReplacedIsOld(t)'
  BY DEF FirstRedo, Redo, Current, Table, Ended
<1>14. RedoAgain(t) => ReplacedIsOld(t)'
  BY DEF RedoAgain, Redo, Current, Table, Ended
<1>15. RoundsUsedUp(t) => ReplacedIsOld(t)'
  BY DEF RoundsUsedUp, RedoImpossible, Current, Table, Ended
<1>16. Redone(t) => ReplacedIsOld(t)'
  BY DEF Redone, StartWriting, Current, Table, Ended
<1>17. WriteCommit(t) => ReplacedIsOld(t)'
  BY DEF WriteCommit, Current, Table, Ended
<1>18. WriteLost(t) => ReplacedIsOld(t)'
  BY DEF WriteLost, Current, Table, Ended
<1>19. AllWritten(t) => ReplacedIsOld(t)'
  BY DEF AllWritten, Current, Table, Ended
<1>20. Release(t) => ReplacedIsOld(t)'
  BY DEF Release, Current, Table, Ended
<1>21. Released(t) => ReplacedIsOld(t)'
  BY DEF Released, Current, Table, Ended
<1>22. ReserveResponseLost(t) => ReplacedIsOld(t)'
  BY DEF ReserveResponseLost, Current, Table, Ended
<1>23. LoadFails(t) => ReplacedIsOld(t)'
  BY DEF LoadFails, Current, Table, Ended
<1>24. WaitMissesOne(t) => ReplacedIsOld(t)'
  BY DEF WaitMissesOne, WaitPass, Current, Table, Ended
<1>25. GiveUpWaiting(t) => ReplacedIsOld(t)'
  BY DEF GiveUpWaiting, Current, Table, Ended
<1>26. WriteFails(t) => ReplacedIsOld(t)'
  BY DEF WriteFails, Current, Table, Ended
<1>27. ReleaseFails(t) => ReplacedIsOld(t)'
  BY DEF ReleaseFails, Current, Table, Ended
<1>28. RebuildFails(t) => ReplacedIsOld(t)'
  BY DEF RebuildFails, RedoImpossible, Current, Table, Ended
<1>29. Crash(t) => ReplacedIsOld(t)'
  BY DEF Crash, Current, Table, Ended
<1> QED BY <1>1, <1>2, <1>3, <1>4, <1>5, <1>6, <1>7, <1>8, <1>9, <1>10, <1>11, <1>12,
           <1>13, <1>14, <1>15, <1>16, <1>17, <1>18, <1>19, <1>20, <1>21, <1>22, <1>23,
           <1>24, <1>25, <1>26, <1>27, <1>28, <1>29
     DEF Step, Opening, Waiting, Leasing, Validating, Writing, Releasing, StorageError

\* Every open table is reserved again before the transaction goes on.
Loads(t) == LoadsFirst(t) /\ LoadsAgain(t) /\ Yields(t) /\ Works(t) /\ HoldsAll(t)

\* While tables are opened, loaded, worked on and given back for a reload, the
\* transaction keeps to the order that the loop indices say.
LEMMA LoadsKept ==
  ASSUME IInv, AnsweredInTime, NEW t \in Txns, Step(t) \/ StorageError(t) \/ Crash(t),
         Loads(t), OpenedAll(t), NeverShifts(t), NothingCommitted(t)
  PROVE  Loads(t)'
<1>a. /\ \A i, j \in 1 .. NumTables(t) : Table(t, i) = Table(t, j) => i = j
      /\ DOMAIN pc = Txns /\ DOMAIN held = Txns /\ DOMAIN cur = Txns /\ DOMAIN idx = Txns
      /\ DOMAIN committed = Txns
      /\ NumTables(t) \in Nat /\ NumTables(t) >= 1 /\ idx[t] \in 0 .. NumTables(t) /\ cur[t] \in Nat
      /\ pc[t] = "work" => idx[t] >= 1
      /\ pc[t] \in {"reserve", "replace", "parse", "yield", "shift", "shiftLost"} =>
         cur[t] \in 1 .. NumTables(t)
      /\ pc[t] \in {"replace", "parse"} => Current(t) \in held[t]
      /\ held[t] \in SUBSET Tables
  BY OpenOrderAssumption, NumTablesIsPositive
     DEF IInv, TypeOK, LoadTypes, MarkerTypes, CommitTypes, Position, LoadsHeld, Table, NumTables
<1> USE <1>a DEF Loads, LoadsFirst, LoadsAgain, Yields, Works, HoldsAll, HeldUpTo, OpenedAll, NeverShifts,
           NothingCommitted, Table, NumTables, Current
<1>1. Reserve(t) => Loads(t)'
  BY DEF Reserve, Ended
<1>2. ReleaseReplaced(t) => Loads(t)'
  BY DEF ReleaseReplaced, Ended
<1>3. ParseLogEntry(t) => Loads(t)'
  BY DEF ParseLogEntry, Ended
<1>4. TableLoaded(t) => Loads(t)'
  BY DEF TableLoaded, LoadedAll, Ended
<1>5. Work(t) => Loads(t)'
  BY DEF Work, Ended
<1>6. Wait(t) => Loads(t)'
  BY DEF Wait, WaitPass, Ended
<1>7. TakeOver(t) => Loads(t)'
  BY DEF TakeOver, Ended
<1>8. LeaseHolds(t) => Loads(t)'
  BY DEF LeaseHolds, Ended
<1>9. LeaseExpiring(t) => Loads(t)'
  BY DEF LeaseExpiring, Ended
<1>10. Shift(t) => Loads(t)'
  BY DEF Shift, Ended
<1>11. LeasesChecked(t) => Loads(t)'
  BY DEF LeasesChecked, Ended
<1>12. ValidateAsIs(t) => Loads(t)'
  BY DEF ValidateAsIs, StartWriting, Ended
<1>13. FirstRedo(t) => Loads(t)'
  BY DEF FirstRedo, Redo, Ended
<1>14. RedoAgain(t) => Loads(t)'
  BY DEF RedoAgain, Redo, Ended
<1>15. RoundsUsedUp(t) => Loads(t)'
  BY DEF RoundsUsedUp, RedoImpossible, Ended
<1>16. Redone(t) => Loads(t)'
  BY DEF Redone, StartWriting, Ended
<1>17. WriteCommit(t) => Loads(t)'
  BY DEF WriteCommit, Ended
<1>18. WriteLost(t) => Loads(t)'
  BY DEF WriteLost, Ended
<1>19. AllWritten(t) => Loads(t)'
  BY DEF AllWritten, Ended
<1>20. Release(t) => Loads(t)'
  BY DEF Release, Ended
<1>21. Released(t) => Loads(t)'
  BY DEF Released, Ended
<1>22. ReserveResponseLost(t) => Loads(t)'
  BY DEF ReserveResponseLost, Ended
<1>23. LoadFails(t) => Loads(t)'
  BY DEF LoadFails, Ended
<1>24. WaitMissesOne(t) => Loads(t)'
  BY DEF WaitMissesOne, WaitPass, Ended
<1>25. GiveUpWaiting(t) => Loads(t)'
  BY DEF GiveUpWaiting, Ended
<1>26. WriteFails(t) => Loads(t)'
  BY DEF WriteFails, Ended
<1>27. ReleaseFails(t) => Loads(t)'
  BY DEF ReleaseFails, Ended
<1>28. RebuildFails(t) => Loads(t)'
  BY DEF RebuildFails, RedoImpossible, Ended
<1>29. Crash(t) => Loads(t)'
  BY DEF Crash, Ended
<1> QED BY <1>1, <1>2, <1>3, <1>4, <1>5, <1>6, <1>7, <1>8, <1>9, <1>10, <1>11, <1>12,
           <1>13, <1>14, <1>15, <1>16, <1>17, <1>18, <1>19, <1>20, <1>21, <1>22, <1>23,
           <1>24, <1>25, <1>26, <1>27, <1>28, <1>29
     DEF Step, Opening, Waiting, Leasing, Validating, Writing, Releasing, StorageError

\* What a step of t writes to the log: a marker, an empty commit, or, in the
\* loop of the commit, the commit of the next table.
StepWritesTo(t) ==
  \/ UNCHANGED log
  \/ \E x \in Tables, v \in Versions : WriteLog(x, v, Marker(t)) \/ WriteLog(x, v, EmptyCommit)
  \/ /\ pc[t] = "write"
     /\ \E i \in 1 .. NumTables(t) :
          LET x == Table(t, i)
              v == markerVersion[t][x] IN
          /\ NextIn(t, ToCommit(t), i)
          /\ IsMarkerOf(x, v, t)
          /\ WriteLog(x, v, Commit(t, createdFiles[t][x], deletedFiles[t][x]))

\* No action writes anything else to the log.
LEMMA StepWrites ==
  ASSUME IInv, NEW t \in Txns, Step(t) \/ StorageError(t) \/ Crash(t)
  PROVE  StepWritesTo(t)
<1>a. /\ TypeOK
      /\ \A x \in Tables : markerVersion[t][x] \in Versions
      /\ replaced[t] \in Versions
      /\ \A i \in 1 .. NumTables(t) : Table(t, i) \in Tables
      /\ \A i \in 1 .. idx[t] : Table(t, i) \in Tables
      /\ pc[t] \in {"reserve", "replace", "parse", "shift", "shiftLost"} => Current(t) \in Tables
  BY TableIsATable, NumTablesIsPositive
     DEF IInv, TypeOK, LoadTypes, MarkerTypes, Position, Current
<1> DEFINE Writes == StepWritesTo(t)
<1>b. UNCHANGED log => Writes
  BY DEF StepWritesTo
<1>c. \A x \in Tables, v \in Versions :
        WriteLog(x, v, Marker(t)) \/ WriteLog(x, v, EmptyCommit) => Writes
  BY DEF StepWritesTo
<1>d. \A x \in Tables, v \in Versions : ReplaceOwnMarker(t, x, v) => Writes
  BY <1>b, <1>c DEF ReplaceOwnMarker, WriteLog
<1>e. \A i \in 1 .. NumTables(t) :
        /\ pc[t] = "write" /\ NextIn(t, ToCommit(t), i)
        /\ IsMarkerOf(Table(t, i), markerVersion[t][Table(t, i)], t)
        /\ WriteLog(Table(t, i), markerVersion[t][Table(t, i)],
                    Commit(t, createdFiles[t][Table(t, i)], deletedFiles[t][Table(t, i)]))
        => Writes
  BY DEF StepWritesTo
<1> HIDE DEF Writes
<1> USE <1>a, <1>b, <1>c, <1>d, <1>e
<1>1. Reserve(t) => Writes
  BY DEF Reserve
<1>2. ReleaseReplaced(t) => Writes
  BY DEF ReleaseReplaced
<1>3. ParseLogEntry(t) => Writes
  BY DEF ParseLogEntry
<1>4. TableLoaded(t) => Writes
  BY DEF TableLoaded, LoadedAll
<1>5. Work(t) => Writes
  BY DEF Work
<1>6. Wait(t) => Writes
  BY DEF Wait, WaitPass
<1>7. TakeOver(t) => Writes
  <2>1. \A p \in prevMarkers[t] : p[1] \in Tables /\ p[2] \in Versions
    BY DEF TypeOK, SnapTypes
  <2> QED BY <2>1 DEF TakeOver
<1>8. LeaseHolds(t) => Writes
  BY DEF LeaseHolds
<1>9. LeaseExpiring(t) => Writes
  BY DEF LeaseExpiring
<1>10. Shift(t) => Writes
  BY DEF Shift
<1>11. LeasesChecked(t) => Writes
  BY DEF LeasesChecked
<1>12. ValidateAsIs(t) => Writes
  BY DEF ValidateAsIs, StartWriting
<1>13. FirstRedo(t) => Writes
  BY DEF FirstRedo, Redo
<1>14. RedoAgain(t) => Writes
  BY DEF RedoAgain, Redo
<1>15. RoundsUsedUp(t) => Writes
  BY DEF RoundsUsedUp, RedoImpossible
<1>16. Redone(t) => Writes
  BY DEF Redone, StartWriting
<1>17. WriteCommit(t) => Writes
  BY DEF WriteCommit
<1>18. WriteLost(t) => Writes
  BY DEF WriteLost
<1>19. AllWritten(t) => Writes
  BY DEF AllWritten
<1>20. Release(t) => Writes
  BY DEF Release
<1>21. Released(t) => Writes
  BY DEF Released
<1>22. ReserveResponseLost(t) => Writes
  BY DEF ReserveResponseLost
<1>23. LoadFails(t) => Writes
  BY DEF LoadFails
<1>24. WaitMissesOne(t) => Writes
  BY DEF WaitMissesOne, WaitPass
<1>25. GiveUpWaiting(t) => Writes
  BY DEF GiveUpWaiting
<1>26. WriteFails(t) => Writes
  BY DEF WriteFails
<1>27. ReleaseFails(t) => Writes
  BY DEF ReleaseFails
<1>28. RebuildFails(t) => Writes
  BY DEF RebuildFails, RedoImpossible
<1>29. Crash(t) => Writes
  BY DEF Crash
<1> QED BY <1>1, <1>2, <1>3, <1>4, <1>5, <1>6, <1>7, <1>8, <1>9, <1>10, <1>11, <1>12,
           <1>13, <1>14, <1>15, <1>16, <1>17, <1>18, <1>19, <1>20, <1>21, <1>22, <1>23,
           <1>24, <1>25, <1>26, <1>27, <1>28, <1>29
     DEF Step, Opening, Waiting, Leasing, Validating, Writing, Releasing, StorageError, Writes

\* A transaction commits in the loop over its tables only.
LEMMA CommitsKept ==
  ASSUME IInv, NEW t \in Txns, Step(t) \/ StorageError(t) \/ Crash(t), pc[t] # "write"
  PROVE  \A x \in Tables : CommitsOf(t, x)' \subseteq CommitsOf(t, x)
<1>1. StepWritesTo(t) /\ TypeOK
  BY StepWrites DEF IInv
<1>2. Marker(t).kind # "commit" /\ EmptyCommit.kind # "commit"
  BY DEF Marker, EmptyCommit, Object
<1>3. CASE UNCHANGED log
  BY <1>3 DEF CommitsOf, Commits
<1>4. ASSUME NEW x \in Tables, NEW v \in Versions,
             WriteLog(x, v, Marker(t)) \/ WriteLog(x, v, EmptyCommit), NEW y \in Tables
      PROVE  CommitsOf(t, y)' \subseteq CommitsOf(t, y)
  BY <1>1, <1>2, <1>4 DEF TypeOK, WriteLog, CommitsOf, Commits
<1> QED BY <1>1, <1>3, <1>4 DEF StepWritesTo

\* While a transaction writes, it finds its markers.
LEMMA NoWriteIsLost ==
  ASSUME IInv, NEW t \in Txns, HeldIsMarked(t), HoldsAll(t)
  PROVE  ~WriteLost(t)
<1> SUFFICES ASSUME WriteLost(t) PROVE FALSE
  OBVIOUS
<1>1. PICK i \in 1 .. NumTables(t) :
        Table(t, i) \in ToCommit(t) /\ ~IsMarkerOf(Table(t, i), markerVersion[t][Table(t, i)], t)
  BY DEF WriteLost, NextIn
<1>2. Table(t, i) \in held[t] /\ Table(t, i) \in Tables
  BY <1>1, TableIsATable DEF WriteLost, HoldsAll, ToCommit
<1> QED BY <1>1, <1>2 DEF HeldIsMarked

\* Nothing makes a transaction move its marker ...
LEMMA NeverShiftsKept ==
  ASSUME IInv, AnsweredInTime, NEW t \in Txns, Step(t) \/ StorageError(t) \/ Crash(t),
         ~WriteLost(t), NeverShifts(t)
  PROVE  NeverShifts(t)'
<1>a. DOMAIN pc = Txns
  BY DEF IInv, TypeOK
<1> USE <1>a DEF NeverShifts
<1>1. Reserve(t) => NeverShifts(t)'
  BY DEF Reserve, Ended
<1>2. ReleaseReplaced(t) => NeverShifts(t)'
  BY DEF ReleaseReplaced, Ended
<1>3. ParseLogEntry(t) => NeverShifts(t)'
  BY DEF ParseLogEntry, Ended
<1>4. TableLoaded(t) => NeverShifts(t)'
  BY DEF TableLoaded, LoadedAll, Ended
<1>5. Work(t) => NeverShifts(t)'
  BY DEF Work, Ended
<1>6. Wait(t) => NeverShifts(t)'
  BY DEF Wait, WaitPass, Ended
<1>7. TakeOver(t) => NeverShifts(t)'
  BY DEF TakeOver, Ended
<1>8. LeaseHolds(t) => NeverShifts(t)'
  BY DEF LeaseHolds, Ended
<1>9. LeaseExpiring(t) => NeverShifts(t)'
  BY DEF LeaseExpiring, AnsweredInTime
<1>10. Shift(t) => NeverShifts(t)'
  BY DEF Shift, Ended
<1>11. LeasesChecked(t) => NeverShifts(t)'
  BY DEF LeasesChecked, Ended
<1>12. ValidateAsIs(t) => NeverShifts(t)'
  BY DEF ValidateAsIs, StartWriting, Ended
<1>13. FirstRedo(t) => NeverShifts(t)'
  BY DEF FirstRedo, Redo, Ended
<1>14. RedoAgain(t) => NeverShifts(t)'
  BY DEF RedoAgain, Redo, Ended
<1>15. RoundsUsedUp(t) => NeverShifts(t)'
  BY DEF RoundsUsedUp, RedoImpossible, Ended
<1>16. Redone(t) => NeverShifts(t)'
  BY DEF Redone, StartWriting, Ended
<1>17. WriteCommit(t) => NeverShifts(t)'
  BY DEF WriteCommit, Ended
<1>18. WriteLost(t) => NeverShifts(t)'
  OBVIOUS
<1>19. AllWritten(t) => NeverShifts(t)'
  BY DEF AllWritten, Ended
<1>20. Release(t) => NeverShifts(t)'
  BY DEF Release, Ended
<1>21. Released(t) => NeverShifts(t)'
  BY DEF Released, Ended
<1>22. ReserveResponseLost(t) => NeverShifts(t)'
  BY DEF ReserveResponseLost, Ended
<1>23. LoadFails(t) => NeverShifts(t)'
  BY DEF LoadFails, Ended
<1>24. WaitMissesOne(t) => NeverShifts(t)'
  BY DEF WaitMissesOne, WaitPass, Ended
<1>25. GiveUpWaiting(t) => NeverShifts(t)'
  BY DEF GiveUpWaiting, Ended
<1>26. WriteFails(t) => NeverShifts(t)'
  BY DEF WriteFails, Ended
<1>27. ReleaseFails(t) => NeverShifts(t)'
  BY DEF ReleaseFails, Ended
<1>28. RebuildFails(t) => NeverShifts(t)'
  BY DEF RebuildFails, RedoImpossible, Ended
<1>29. Crash(t) => NeverShifts(t)'
  BY DEF Crash, Ended
<1> QED BY <1>1, <1>2, <1>3, <1>4, <1>5, <1>6, <1>7, <1>8, <1>9, <1>10, <1>11, <1>12,
           <1>13, <1>14, <1>15, <1>16, <1>17, <1>18, <1>19, <1>20, <1>21, <1>22, <1>23,
           <1>24, <1>25, <1>26, <1>27, <1>28, <1>29
     DEF Step, Opening, Waiting, Leasing, Validating, Writing, Releasing, StorageError

\* ... or abort once it has written a commit.
LEMMA NothingCommittedKept ==
  ASSUME IInv, AnsweredInTime, NEW t \in Txns, Step(t) \/ StorageError(t) \/ Crash(t),
         ~WriteLost(t), NeverShifts(t), NothingCommitted(t)
  PROVE  NothingCommitted(t)'
<1>a. DOMAIN pc = Txns /\ DOMAIN committed = Txns
  BY DEF IInv, TypeOK, CommitTypes
<1> DEFINE Before == pc[t] \notin {"write", "finish", "committed", "crashed"}
<1>b. Before' => Before /\ committed'[t] \subseteq committed[t]
  <2> USE <1>a
  <2> DEFINE Goal == Before' => Before /\ committed'[t] \subseteq committed[t]
  <2>1. Reserve(t) => Goal
    BY DEF Reserve, Ended
  <2>2. ReleaseReplaced(t) => Goal
    BY DEF ReleaseReplaced, Ended
  <2>3. ParseLogEntry(t) => Goal
    BY DEF ParseLogEntry, Ended
  <2>4. TableLoaded(t) => Goal
    BY DEF TableLoaded, LoadedAll, Ended
  <2>5. Work(t) => Goal
    BY DEF Work, Ended
  <2>6. Wait(t) => Goal
    BY DEF Wait, WaitPass, Ended
  <2>7. TakeOver(t) => Goal
    BY DEF TakeOver, Ended
  <2>8. LeaseHolds(t) => Goal
    BY DEF LeaseHolds, Ended
  <2>9. LeaseExpiring(t) => Goal
    BY DEF LeaseExpiring, Ended
  <2>10. Shift(t) => Goal
    BY DEF Shift, Ended
  <2>11. LeasesChecked(t) => Goal
    BY DEF LeasesChecked, Ended
  <2>12. ValidateAsIs(t) => Goal
    BY DEF ValidateAsIs, StartWriting, Ended
  <2>13. FirstRedo(t) => Goal
    BY DEF FirstRedo, Redo, Ended
  <2>14. RedoAgain(t) => Goal
    BY DEF RedoAgain, Redo, Ended
  <2>15. RoundsUsedUp(t) => Goal
    BY DEF RoundsUsedUp, RedoImpossible, Ended
  <2>16. Redone(t) => Goal
    BY DEF Redone, StartWriting, Ended
  <2>17. WriteCommit(t) => Goal
    BY DEF WriteCommit, Ended
  <2>18. WriteLost(t) => Goal
    OBVIOUS
  <2>19. AllWritten(t) => Goal
    BY DEF AllWritten, Ended
  <2>20. Release(t) => Goal
    BY DEF Release, Ended
  <2>21. Released(t) => Goal
    BY DEF Released, Ended
  <2>22. ReserveResponseLost(t) => Goal
    BY DEF ReserveResponseLost, Ended
  <2>23. LoadFails(t) => Goal
    BY DEF LoadFails, Ended
  <2>24. WaitMissesOne(t) => Goal
    BY DEF WaitMissesOne, WaitPass, Ended
  <2>25. GiveUpWaiting(t) => Goal
    BY DEF GiveUpWaiting, Ended
  <2>26. WriteFails(t) => Goal
    BY DEF WriteFails, Fault, AnsweredInTime
  <2>27. ReleaseFails(t) => Goal
    BY DEF ReleaseFails, Ended
  <2>28. RebuildFails(t) => Goal
    BY DEF RebuildFails, RedoImpossible, Ended
  <2>29. Crash(t) => Goal
    BY DEF Crash, Ended
  <2> QED BY <2>1, <2>2, <2>3, <2>4, <2>5, <2>6, <2>7, <2>8, <2>9, <2>10, <2>11, <2>12,
             <2>13, <2>14, <2>15, <2>16, <2>17, <2>18, <2>19, <2>20, <2>21, <2>22,
             <2>23, <2>24, <2>25, <2>26, <2>27, <2>28, <2>29
       DEF Step, Opening, Waiting, Leasing, Validating, Writing, Releasing, StorageError
<1> QED BY <1>a, <1>b, CommitsKept DEF NothingCommitted

\* Nothing but time ends a lease.
LEMMA NoneEndedKept ==
  ASSUME IInv, NoneEnded, NEW t \in Txns, Step(t) \/ StorageError(t) \/ Crash(t)
  PROVE  NoneEnded'
<1>1. StepWritesTo(t) /\ TypeOK
  BY StepWrites DEF IInv
<1>2. ~Marker(t).ended /\ ~EmptyCommit.ended /\ \A a, r : ~Commit(t, a, r).ended
  BY DEF Marker, EmptyCommit, Commit, Object
<1>3. \A x, v, o : ~o.ended /\ WriteLog(x, v, o) => NoneEnded'
  BY <1>1 DEF NoneEnded, WriteLog, TypeOK
<1>4. UNCHANGED log => NoneEnded'
  BY DEF NoneEnded
<1> QED BY <1>1, <1>2, <1>3, <1>4 DEF StepWritesTo

\* Others do not commit in a transaction's name.
LEMMA OthersCommits ==
  ASSUME TypeOK, NEW t \in Writers, NEW u \in Txns, u # t \/ UNCHANGED log, LogStep(t)
  PROVE  \A x \in Tables : CommitsOf(u, x)' \subseteq CommitsOf(u, x)
<1> SUFFICES ASSUME NEW x \in Tables, NEW v \in Versions,
                    log'[x][v].kind = "commit", log'[x][v].by = u
             PROVE  log[x][v].kind = "commit" /\ log[x][v].by = u
  BY DEF CommitsOf, Commits
<1>1. \A y \in Tables, w \in Versions : \A o :
        WriteLog(y, w, o) => log'[x][v] = IF y = x /\ w = v THEN o ELSE log[x][v]
  BY DEF WriteLog, TypeOK
<1>2. /\ Marker(t).kind = "marker" /\ EmptyCommit.kind = "empty"
      /\ \A a, r : Commit(t, a, r).by = t
  BY DEF Marker, EmptyCommit, Commit, Object
<1>3. CASE UNCHANGED log
  BY <1>3
<1>4. CASE \E y \in Tables, w \in Versions :
             log[y][w].kind = "marker" /\ log' = [log EXCEPT ![y][w].ended = TRUE]
  BY <1>4 DEF TypeOK, Objects
<1> QED BY <1>1, <1>2, <1>3, <1>4 DEF LogStep

AbortInv(t) == /\ OpenedAll(t) /\ HeldIsMarked(t) /\ ReplacedIsOld(t) /\ Loads(t)
               /\ NeverShifts(t) /\ NothingCommitted(t)

\* Every step keeps what is said about every transaction.
LEMMA NextAbortInv ==
  ASSUME AnsweredInTime, IInv, NoneEnded, \A u \in Txns : AbortInv(u), [Next]_vars
  PROVE  NoneEnded' /\ \A u \in Txns : AbortInv(u)'
<1>1. TypeOK /\ Position
  BY DEF IInv
<1>2. CASE UNCHANGED vars \/ AllEnded \/ \E x \in Tables, v \in Versions : LeaseEnds(x, v)
  <2>1. UNCHANGED vars
    BY <1>2 DEF AllEnded, LeaseEnds, AnsweredInTime
  <2> QED BY <2>1 DEF vars, NoneEnded, AbortInv, OpenedAll, HeldIsMarked, ReplacedIsOld, Loads,
                      LoadsFirst, LoadsAgain, Yields, Works, HoldsAll, HeldUpTo, NeverShifts,
                      NothingCommitted, IsMarkerOf, CommitsOf, Commits, Current, Table, NumTables
<1>3. ASSUME NEW t \in Txns, Step(t) \/ StorageError(t) \/ Crash(t)
      PROVE  NoneEnded' /\ \A u \in Txns : AbortInv(u)'
  <2>1. NoneEnded'
    BY <1>3, NoneEndedKept
  <2>2. ASSUME NEW u \in Txns, u # t
        PROVE  AbortInv(u)'
    <3>1. OthersStay(t)
      BY <1>1, <1>3, OthersVariablesStay
    <3>2. /\ pc'[u] = pc[u] /\ idx'[u] = idx[u] /\ cur'[u] = cur[u]
          /\ replaced'[u] = replaced[u] /\ markerVersion'[u] = markerVersion[u]
          /\ held'[u] = held[u] /\ committed'[u] = committed[u]
          /\ u \in reopening' <=> u \in reopening
      BY <2>2, <3>1 DEF OthersStay, Stays
    <3>3. LogStep(t) /\ t \in Writers
      BY <1>3, StepEffect DEF Effect, Writers
    <3>4. \A x \in Tables : CommitsOf(u, x)' \subseteq CommitsOf(u, x)
      BY <1>1, <2>2, <3>3, OthersCommits
    <3>5. \A x \in Tables, v \in Versions : IsMarkerOf(x, v, u) => IsMarkerOf(x, v, u)'
      BY <1>3, <2>2, OthersKeepTheirs DEF AbortInv
    <3>6. AbortInv(u) /\ \A x \in Tables : markerVersion[u][x] \in Versions
      BY <1>1 DEF TypeOK, MarkerTypes
    <3>7. HeldIsMarked(u)'
      BY <3>2, <3>5, <3>6 DEF AbortInv, HeldIsMarked, IsMarkerOf
    <3>8. NothingCommitted(u)'
      BY <3>2, <3>4, <3>6 DEF AbortInv, NothingCommitted
    <3>9. OpenedAll(u)' /\ ReplacedIsOld(u)' /\ Loads(u)' /\ NeverShifts(u)'
      BY <3>2, <3>6 DEF AbortInv, OpenedAll, ReplacedIsOld, Loads, LoadsFirst, LoadsAgain, Yields,
                        Works, HoldsAll, HeldUpTo, NeverShifts, Current, Table, NumTables
    <3> QED BY <3>7, <3>8, <3>9 DEF AbortInv
  <2>3. AbortInv(t)'
    <3>1. AbortInv(t)
      OBVIOUS
    <3>2. ~WriteLost(t)
      BY <3>1, NoWriteIsLost DEF AbortInv, Loads
    <3>3. OpenedAll(t)'
      BY <1>1, <1>3, <3>1, OpenedAllKept DEF AbortInv
    <3>4. HeldIsMarked(t)' /\ ReplacedIsOld(t)'
      BY <1>3, <3>1, HeldIsMarkedKept, ReplacedIsOldKept DEF AbortInv
    <3>5. Loads(t)' 
      BY <1>3, <3>1, LoadsKept DEF AbortInv
    <3>6. NeverShifts(t)' /\ NothingCommitted(t)'
      BY <1>3, <3>1, <3>2, NeverShiftsKept, NothingCommittedKept DEF AbortInv
    <3> QED BY <3>3, <3>4, <3>5, <3>6 DEF AbortInv
  <2> QED BY <2>1, <2>2, <2>3
<1> QED BY <1>2, <1>3 DEF Next

\* A transaction whose commit() returned false has committed to none of its
\* tables, unless the lease of a version ended (it is then lost between two
\* tables) or the write of a commit stayed without an answer.
THEOREM AbortLeavesNothing ==
  ASSUME AnsweredInTime
  PROVE  Spec => []AbortedLeftNothing
<1>1. Init => NoneEnded /\ \A t \in Txns : AbortInv(t)
  <2> SUFFICES ASSUME Init PROVE NoneEnded /\ \A t \in Txns : AbortInv(t)
    OBVIOUS
  <2>1. NoneEnded
    BY DEF Init, NoneEnded, Commit, Absent, Object
  <2>2. ASSUME NEW t \in Txns PROVE AbortInv(t)
    <3>1. /\ pc[t] = "reserve" /\ held[t] = {} /\ cur[t] = 1 /\ idx[t] = 0 /\ t \notin reopening
          /\ committed[t] = {}
      BY DEF Init
    <3>2. \A x \in Tables : CommitsOf(t, x) = {}
      BY ConstantsAssumption DEF Init, CommitsOf, Commits, Commit, Absent, Object
    <3> QED BY <3>1, <3>2 DEF AbortInv, OpenedAll, HeldIsMarked, ReplacedIsOld, Loads, LoadsFirst,
                              LoadsAgain, Yields, Works, HoldsAll, HeldUpTo, NeverShifts, NothingCommitted
  <2> QED BY <2>1, <2>2
<1>2. IInv /\ (NoneEnded /\ \A t \in Txns : AbortInv(t)) /\ [Next]_vars
      => (NoneEnded /\ \A t \in Txns : AbortInv(t))'
  BY NextAbortInv
<1>3. (NoneEnded /\ \A t \in Txns : AbortInv(t)) => AbortedLeftNothing
  BY DEF AbortInv, NothingCommitted, AbortedLeftNothing
<1> QED BY <1>1, <1>2, <1>3, Inductive, PTL DEF Spec

-----------------------------------------------------------------------------
(* What was acknowledged is in the log *)

\* At level 0 a second redo starts without the appended files, and an update
\* that finds its key gone ends the redo; at level 1 alone, and where all do
\* nothing but append, nothing is redone.
NothingIsRedone == ~Level0 \/ \A t \in Txns, x \in Tables : Ops[t][x] \subseteq {"append"}

\* commit(read_only = true) is called by transactions that only read.
ReadOnlyReads == \A t \in ReadOnly, x \in Tables : Ops[t][x] \subseteq {"read"}

\* The redo has nothing to do, and no conflict sends a transaction there again.
LogsNothing(t) ==
  /\ steps[t] = << >>
  /\ Level0 \/ t \in explicitLog
  /\ Level0 => wasRead[t] = {} /\ \A x \in Tables : deletedFiles[t][x] = {}

\* The file that t appends to a table
AppendedFile(t) == File(t, 0, FALSE)

\* The appended files are registered from the work on the table to the commit,
\* which reaches the log ...
Appended(t) ==
  \A i \in 1 .. NumTables(t) :
    (i < idx[t] \/ (i = idx[t] /\ pc[t] \notin {"work", "crashed"})) =>
      ("append" \in Ops[t][Table(t, i)] => AppendedFile(t) \in createdFiles[t][Table(t, i)])
InLog(t) ==
  \A x \in Tables : x \in committed[t] /\ "append" \in Ops[t][x] =>
    \E v \in CommitsOf(t, x) : AppendedFile(t) \in log[x][v].add

\* ... for every table, before commit() returns.
WrittenUpTo(t) ==
  pc[t] = "write" => \A i \in 1 .. NumTables(t) : i < cur[t] => Table(t, i) \notin ToCommit(t)
AllInLog(t) ==
  pc[t] \in {"finish", "committed"} /\ t \notin ReadOnly =>
    /\ idx[t] = NumTables(t)
    /\ \A i \in 1 .. NumTables(t) : Table(t, i) \notin ToCommit(t)

\* The work logs nothing; what is not logged is not redone.
LEMMA LogsNothingKept ==
  ASSUME IInv, NothingIsRedone, NEW t \in Txns, Step(t) \/ StorageError(t) \/ Crash(t),
         LogsNothing(t)
  PROVE  LogsNothing(t)'
<1>a. /\ TypeOK
      /\ DOMAIN pc = Txns /\ DOMAIN steps = Txns /\ DOMAIN wasRead = Txns
      /\ DOMAIN deletedFiles = Txns /\ DOMAIN deletedFiles[t] = Tables
  BY DEF IInv, TypeOK, WorkTypes
<1> USE <1>a DEF LogsNothing
<1>1. Reserve(t) => LogsNothing(t)'
  BY DEF Reserve
<1>2. ReleaseReplaced(t) => LogsNothing(t)'
  BY DEF ReleaseReplaced
<1>3. ParseLogEntry(t) => LogsNothing(t)'
  BY DEF ParseLogEntry
<1>4. TableLoaded(t) => LogsNothing(t)'
  BY DEF TableLoaded, LoadedAll
<1>5. Work(t) => LogsNothing(t)'
  <2> SUFFICES ASSUME Work(t) PROVE LogsNothing(t)'
    OBVIOUS
  <2> DEFINE x == Table(t, idx[t])
  <2>1. x \in Tables
    BY TableIsATable, NumTablesIsPositive DEF IInv, Position, Work
  <2>2. /\ deletedFiles' = [deletedFiles EXCEPT ![t][x] = RemovedFiles(t, x)]
        /\ steps' = [steps EXCEPT ![t] = @ \o LoggedSteps(t, x)]
        /\ IF Reads(t, x) THEN wasRead' = [wasRead EXCEPT ![t] = @ \cup {x}] ELSE UNCHANGED wasRead
        /\ UNCHANGED explicitLog
    BY DEF Work
  <2>3. CASE ~Level0
    <3>1. LoggedSteps(t, x) = << >>
      BY <2>3 DEF LoggedSteps
    <3> QED BY <2>2, <2>3, <3>1
  <2>4. CASE Level0
    <3>1. Ops[t][x] \subseteq {"append"}
      BY <2>1, <2>4 DEF NothingIsRedone
    <3>2. KeyOps(t, x) = {} /\ ~Reads(t, x)
      BY <3>1 DEF KeyOps, Reads
    <3>3. LoggedSteps(t, x) = << >> /\ RemovedFiles(t, x) = {}
      BY <3>2 DEF LoggedSteps, RemovedFiles
    <3>4. \A y \in Tables : deletedFiles'[t][y] = {}
      BY <2>2, <2>4, <3>3
    <3> QED BY <2>2, <2>4, <3>2, <3>3, <3>4
  <2> QED BY <2>3, <2>4
<1>6. Wait(t) => LogsNothing(t)'
  BY DEF Wait, WaitPass
<1>7. TakeOver(t) => LogsNothing(t)'
  BY DEF TakeOver
<1>8. LeaseHolds(t) => LogsNothing(t)'
  BY DEF LeaseHolds
<1>9. LeaseExpiring(t) => LogsNothing(t)'
  BY DEF LeaseExpiring
<1>10. Shift(t) => LogsNothing(t)'
  BY DEF Shift
<1>11. LeasesChecked(t) => LogsNothing(t)'
  BY DEF LeasesChecked
<1>12. ValidateAsIs(t) => LogsNothing(t)'
  BY DEF ValidateAsIs, StartWriting
<1>13. FirstRedo(t) => LogsNothing(t)'
  <2> SUFFICES ASSUME FirstRedo(t) PROVE LogsNothing(t)'
    OBVIOUS
  <2>1. /\ UNCHANGED <<steps, explicitLog, wasRead>> /\ Level0
        /\ Redo(t, seen[t], createdFiles[t], deletedFiles[t])
    BY DEF FirstRedo, CanRedo
  <2>2. RedoneSteps(t, seen[t]) = {}
    BY DEF RedoneSteps
  <2>3. \A y \in Tables : deletedFiles'[t][y] = deletedFiles[t][y]
    BY <2>1, <2>2 DEF Redo
  <2> QED BY <2>1, <2>3
<1>14. RedoAgain(t) => LogsNothing(t)'
  <2>1. RedoAgain(t) => Level0 /\ Conflict(t)
    BY DEF RedoAgain, CanRedo
  <2> QED BY <2>1 DEF Conflict, WriteConflict, ReadConflict
<1>15. RoundsUsedUp(t) => LogsNothing(t)'
  BY DEF RoundsUsedUp, RedoImpossible
<1>16. Redone(t) => LogsNothing(t)'
  BY DEF Redone, StartWriting
<1>17. WriteCommit(t) => LogsNothing(t)'
  BY DEF WriteCommit
<1>18. WriteLost(t) => LogsNothing(t)'
  BY DEF WriteLost
<1>19. AllWritten(t) => LogsNothing(t)'
  BY DEF AllWritten
<1>20. Release(t) => LogsNothing(t)'
  BY DEF Release
<1>21. Released(t) => LogsNothing(t)'
  BY DEF Released
<1>22. ReserveResponseLost(t) => LogsNothing(t)'
  BY DEF ReserveResponseLost
<1>23. LoadFails(t) => LogsNothing(t)'
  BY DEF LoadFails
<1>24. WaitMissesOne(t) => LogsNothing(t)'
  BY DEF WaitMissesOne, WaitPass
<1>25. GiveUpWaiting(t) => LogsNothing(t)'
  BY DEF GiveUpWaiting
<1>26. WriteFails(t) => LogsNothing(t)'
  BY DEF WriteFails
<1>27. ReleaseFails(t) => LogsNothing(t)'
  BY DEF ReleaseFails
<1>28. RebuildFails(t) => LogsNothing(t)'
  BY DEF RebuildFails, RedoImpossible
<1>29. Crash(t) => LogsNothing(t)'
  BY DEF Crash
<1> QED BY <1>1, <1>2, <1>3, <1>4, <1>5, <1>6, <1>7, <1>8, <1>9, <1>10, <1>11, <1>12,
           <1>13, <1>14, <1>15, <1>16, <1>17, <1>18, <1>19, <1>20, <1>21, <1>22, <1>23,
           <1>24, <1>25, <1>26, <1>27, <1>28, <1>29
     DEF Step, Opening, Waiting, Leasing, Validating, Writing, Releasing, StorageError

\* What was appended stays registered: the files of the second redo are all
\* that a transaction ever loses.
LEMMA AppendedKept ==
  ASSUME IInv, NEW t \in Txns, Step(t) \/ StorageError(t) \/ Crash(t),
         LogsNothing(t), Appended(t)
  PROVE  Appended(t)'
<1>a. /\ DOMAIN pc = Txns /\ DOMAIN idx = Txns
      /\ DOMAIN createdFiles = Txns /\ DOMAIN createdFiles[t] = Tables
      /\ idx[t] \in 0 .. NumTables(t) /\ NumTables(t) \in Nat
      /\ \A i \in 1 .. NumTables(t) : Table(t, i) \in Tables
  BY TableIsATable, NumTablesIsPositive DEF IInv, TypeOK, LoadTypes, WorkTypes, Position
<1>b. UNCHANGED <<idx, createdFiles>> /\ pc[t] \notin {"work", "crashed"} => Appended(t)'
  BY DEF Appended, Table, NumTables
<1> USE <1>a, <1>b
<1>1. Reserve(t) => Appended(t)'
  BY DEF Reserve
<1>2. ReleaseReplaced(t) => Appended(t)'
  BY DEF ReleaseReplaced
<1>3. ParseLogEntry(t) => Appended(t)'
  BY DEF ParseLogEntry
<1>4. TableLoaded(t) => Appended(t)'
  <2> SUFFICES ASSUME TableLoaded(t) PROVE Appended(t)'
    OBVIOUS
  <2>1. UNCHANGED createdFiles /\ pc[t] = "parse"
    BY DEF TableLoaded
  <2>2. UNCHANGED idx \/ (pc'[t] = "work" /\ idx'[t] = idx[t] + 1)
    BY DEF TableLoaded, LoadedAll
  <2>3. \A i \in 1 .. NumTables(t) :
          (i < idx'[t] \/ (i = idx'[t] /\ pc'[t] \notin {"work", "crashed"})) => i <= idx[t]
    BY <2>2
  <2> QED BY <2>1, <2>3 DEF Appended, Table, NumTables
<1>5. Work(t) => Appended(t)'
  <2> SUFFICES ASSUME Work(t), NEW i \in 1 .. NumTables(t), i <= idx[t],
                      "append" \in Ops[t][Table(t, i)]
               PROVE  AppendedFile(t) \in createdFiles'[t][Table(t, i)]
    <3>1. Work(t) => UNCHANGED idx
      BY DEF Work
    <3> QED BY <3>1 DEF Appended, Table, NumTables
  <2> DEFINE x == Table(t, idx[t])
  <2>1. createdFiles' = [createdFiles EXCEPT ![t][x] = AddedFiles(t, x)] /\ x \in Tables
    BY DEF Work
  <2>2. CASE Table(t, i) = x
    BY <2>1, <2>2 DEF AddedFiles, AppendedFile
  <2>3. CASE Table(t, i) # x
    <3>1. i < idx[t]
      BY <2>3
    <3> QED BY <2>1, <2>3, <3>1 DEF Appended
  <2> QED BY <2>2, <2>3
<1>6. Wait(t) => Appended(t)'
  BY DEF Wait, WaitPass
<1>7. TakeOver(t) => Appended(t)'
  BY DEF TakeOver
<1>8. LeaseHolds(t) => Appended(t)'
  BY DEF LeaseHolds
<1>9. LeaseExpiring(t) => Appended(t)'
  BY DEF LeaseExpiring
<1>10. Shift(t) => Appended(t)'
  BY DEF Shift
<1>11. LeasesChecked(t) => Appended(t)'
  BY DEF LeasesChecked
<1>12. ValidateAsIs(t) => Appended(t)'
  BY DEF ValidateAsIs, StartWriting
<1>13. FirstRedo(t) => Appended(t)'
  <2> SUFFICES ASSUME FirstRedo(t) PROVE Appended(t)'
    OBVIOUS
  <2>1. /\ UNCHANGED idx /\ pc[t] = "validate"
        /\ Redo(t, seen[t], createdFiles[t], deletedFiles[t])
    BY DEF FirstRedo
  <2>2. \A y \in Tables : createdFiles[t][y] \subseteq createdFiles'[t][y]
    BY <2>1 DEF Redo
  <2> QED BY <2>1, <2>2 DEF Appended, Table, NumTables
<1>14. RedoAgain(t) => Appended(t)'
  <2>1. RedoAgain(t) => Level0 /\ Conflict(t)
    BY DEF RedoAgain, CanRedo, LogsNothing
  <2> QED BY <2>1 DEF Conflict, WriteConflict, ReadConflict, LogsNothing
<1>15. RoundsUsedUp(t) => Appended(t)'
  BY DEF RoundsUsedUp, RedoImpossible
<1>16. Redone(t) => Appended(t)'
  BY DEF Redone, StartWriting
<1>17. WriteCommit(t) => Appended(t)'
  BY DEF WriteCommit
<1>18. WriteLost(t) => Appended(t)'
  BY DEF WriteLost
<1>19. AllWritten(t) => Appended(t)'
  BY DEF AllWritten
<1>20. Release(t) => Appended(t)'
  BY DEF Release
<1>21. Released(t) => Appended(t)'
  BY DEF Released
<1>22. ReserveResponseLost(t) => Appended(t)'
  BY DEF ReserveResponseLost
<1>23. LoadFails(t) => Appended(t)'
  BY DEF LoadFails
<1>24. WaitMissesOne(t) => Appended(t)'
  BY DEF WaitMissesOne, WaitPass
<1>25. GiveUpWaiting(t) => Appended(t)'
  BY DEF GiveUpWaiting
<1>26. WriteFails(t) => Appended(t)'
  BY DEF WriteFails
<1>27. ReleaseFails(t) => Appended(t)'
  BY DEF ReleaseFails
<1>28. RebuildFails(t) => Appended(t)'
  BY DEF RebuildFails, RedoImpossible
<1>29. Crash(t) => Appended(t)'
  BY DEF Crash, Appended, Table, NumTables
<1> QED BY <1>1, <1>2, <1>3, <1>4, <1>5, <1>6, <1>7, <1>8, <1>9, <1>10, <1>11, <1>12,
           <1>13, <1>14, <1>15, <1>16, <1>17, <1>18, <1>19, <1>20, <1>21, <1>22, <1>23,
           <1>24, <1>25, <1>26, <1>27, <1>28, <1>29
     DEF Step, Opening, Waiting, Leasing, Validating, Writing, Releasing, StorageError

\* A commit carries the appended files of its table.
LEMMA InLogKept ==
  ASSUME IInv, NEW t \in Txns, Step(t) \/ StorageError(t) \/ Crash(t),
         OpenedAll(t), Appended(t), InLog(t)
  PROVE  InLog(t)'
<1>a. /\ TypeOK /\ LogInv /\ DOMAIN committed = Txns
      /\ \A x \in Tables : markerVersion[t][x] \in Versions
      /\ \A i \in 1 .. NumTables(t) : Table(t, i) \in Tables
  BY TableIsATable DEF IInv, TypeOK, MarkerTypes, CommitTypes
<1>b. LogStep(t) /\ t \in Writers
  BY StepEffect DEF Effect, Writers
<1>c. \A x \in Tables, v \in Versions : Final(x, v) => log'[x][v] = log[x][v]
  BY <1>a, <1>b, LogStepKeepsLog
<1>d. committed'[t] \subseteq committed[t] => InLog(t)'
  BY <1>c DEF InLog, CommitsOf, Commits, Final
<1> USE <1>a, <1>d
<1>1. Reserve(t) => InLog(t)'
  BY DEF Reserve
<1>2. ReleaseReplaced(t) => InLog(t)'
  BY DEF ReleaseReplaced
<1>3. ParseLogEntry(t) => InLog(t)'
  BY DEF ParseLogEntry
<1>4. TableLoaded(t) => InLog(t)'
  BY DEF TableLoaded, LoadedAll
<1>5. Work(t) => InLog(t)'
  BY DEF Work
<1>6. Wait(t) => InLog(t)'
  BY DEF Wait, WaitPass
<1>7. TakeOver(t) => InLog(t)'
  BY DEF TakeOver
<1>8. LeaseHolds(t) => InLog(t)'
  BY DEF LeaseHolds
<1>9. LeaseExpiring(t) => InLog(t)'
  BY DEF LeaseExpiring
<1>10. Shift(t) => InLog(t)'
  BY DEF Shift
<1>11. LeasesChecked(t) => InLog(t)'
  BY DEF LeasesChecked
<1>12. ValidateAsIs(t) => InLog(t)'
  BY DEF ValidateAsIs, StartWriting
<1>13. FirstRedo(t) => InLog(t)'
  BY DEF FirstRedo, Redo
<1>14. RedoAgain(t) => InLog(t)'
  BY DEF RedoAgain, Redo
<1>15. RoundsUsedUp(t) => InLog(t)'
  BY DEF RoundsUsedUp, RedoImpossible
<1>16. Redone(t) => InLog(t)'
  BY DEF Redone, StartWriting
<1>17. WriteCommit(t) => InLog(t)'
  <2> SUFFICES ASSUME WriteCommit(t), NEW x \in Tables, x \in committed'[t], "append" \in Ops[t][x]
               PROVE  \E v \in CommitsOf(t, x)' : AppendedFile(t) \in log'[x][v].add
    BY DEF InLog
  <2>1. PICK i \in 1 .. NumTables(t) :
          /\ committed' = [committed EXCEPT ![t] = @ \cup {Table(t, i)}]
          /\ WriteLog(Table(t, i), markerVersion[t][Table(t, i)],
                      Commit(t, createdFiles[t][Table(t, i)], deletedFiles[t][Table(t, i)]))
    BY DEF WriteCommit
  <2>2. CASE x = Table(t, i)
    <3> DEFINE v == markerVersion[t][x]
    <3>1. log'[x][v] = Commit(t, createdFiles[t][x], deletedFiles[t][x]) /\ v \in Versions
      BY <2>1, <2>2 DEF WriteLog, TypeOK
    <3>2. AppendedFile(t) \in createdFiles[t][x]
      <4>1. pc[t] = "write" /\ idx[t] = NumTables(t) /\ i <= NumTables(t)
        BY NumTablesIsPositive DEF WriteCommit, OpenedAll
      <4> QED BY <2>2, <4>1, NumTablesIsPositive DEF Appended
    <3>3. v \in CommitsOf(t, x)'
      BY <3>1 DEF CommitsOf, Commits, Commit, Object
    <3>4. AppendedFile(t) \in log'[x][v].add
      BY <3>1, <3>2 DEF Commit, Object
    <3> QED BY <3>3, <3>4
  <2>3. CASE x # Table(t, i)
    <3>1. x \in committed[t]
      BY <2>1, <2>3
    <3>2. PICK v \in CommitsOf(t, x) : AppendedFile(t) \in log[x][v].add
      BY <3>1 DEF InLog
    <3>3. log'[x][v] = log[x][v] /\ v \in CommitsOf(t, x)'
      BY <3>2, <1>c DEF CommitsOf, Commits, Final
    <3> QED BY <3>2, <3>3
  <2> QED BY <2>2, <2>3
<1>18. WriteLost(t) => InLog(t)'
  BY DEF WriteLost
<1>19. AllWritten(t) => InLog(t)'
  BY DEF AllWritten
<1>20. Release(t) => InLog(t)'
  BY DEF Release
<1>21. Released(t) => InLog(t)'
  BY DEF Released
<1>22. ReserveResponseLost(t) => InLog(t)'
  BY DEF ReserveResponseLost
<1>23. LoadFails(t) => InLog(t)'
  BY DEF LoadFails
<1>24. WaitMissesOne(t) => InLog(t)'
  BY DEF WaitMissesOne, WaitPass
<1>25. GiveUpWaiting(t) => InLog(t)'
  BY DEF GiveUpWaiting
<1>26. WriteFails(t) => InLog(t)'
  BY DEF WriteFails
<1>27. ReleaseFails(t) => InLog(t)'
  BY DEF ReleaseFails
<1>28. RebuildFails(t) => InLog(t)'
  BY DEF RebuildFails, RedoImpossible
<1>29. Crash(t) => InLog(t)'
  BY DEF Crash
<1> QED BY <1>1, <1>2, <1>3, <1>4, <1>5, <1>6, <1>7, <1>8, <1>9, <1>10, <1>11, <1>12,
           <1>13, <1>14, <1>15, <1>16, <1>17, <1>18, <1>19, <1>20, <1>21, <1>22, <1>23,
           <1>24, <1>25, <1>26, <1>27, <1>28, <1>29
     DEF Step, Opening, Waiting, Leasing, Validating, Writing, Releasing, StorageError

\* The loop of the commit leaves no changed table out.
LEMMA AllInLogKept ==
  ASSUME IInv, NEW t \in Txns, Step(t) \/ StorageError(t) \/ Crash(t),
         OpenedAll(t), WrittenUpTo(t), AllInLog(t)
  PROVE  WrittenUpTo(t)' /\ AllInLog(t)'
<1>a. /\ DOMAIN pc = Txns /\ DOMAIN idx = Txns /\ DOMAIN cur = Txns /\ cur[t] \in Nat
      /\ DOMAIN committed = Txns /\ NumTables(t) \in Nat
  BY NumTablesIsPositive DEF IInv, TypeOK, LoadTypes, CommitTypes
<1> DEFINE Both == WrittenUpTo(t)' /\ AllInLog(t)'
<1>b. pc'[t] \notin {"write", "finish", "committed"} => Both
  BY DEF WrittenUpTo, AllInLog
<1>c. pc'[t] = pc[t] /\ cur'[t] = cur[t] /\ UNCHANGED <<idx, committed, createdFiles, deletedFiles>> => Both
  BY DEF WrittenUpTo, AllInLog, ToCommit, Changed, Table, NumTables
<1>d. pc'[t] = "write" /\ cur'[t] = 1 => Both
  BY DEF WrittenUpTo, AllInLog, NumTables
<1>e. UNCHANGED <<committed, createdFiles, deletedFiles>> => ToCommit(t)' = ToCommit(t)
  BY DEF ToCommit, Changed
<1> HIDE DEF Both
<1> USE <1>a, <1>b, <1>c, <1>d DEF Ended
<1>1. Reserve(t) => Both
  BY DEF Reserve
<1>2. ReleaseReplaced(t) => Both
  BY DEF ReleaseReplaced
<1>3. ParseLogEntry(t) => Both
  BY DEF ParseLogEntry
<1>4. TableLoaded(t) => Both
  BY DEF TableLoaded, LoadedAll
<1>5. Work(t) => Both
  BY DEF Work, Both, WrittenUpTo, AllInLog
<1>6. Wait(t) => Both
  BY DEF Wait, WaitPass
<1>7. TakeOver(t) => Both
  BY DEF TakeOver
<1>8. LeaseHolds(t) => Both
  BY DEF LeaseHolds
<1>9. LeaseExpiring(t) => Both
  BY DEF LeaseExpiring
<1>10. Shift(t) => Both
  BY DEF Shift
<1>11. LeasesChecked(t) => Both
  BY DEF LeasesChecked
<1>12. ValidateAsIs(t) => Both
  BY DEF ValidateAsIs, StartWriting
<1>13. FirstRedo(t) => Both
  BY DEF FirstRedo, Redo
<1>14. RedoAgain(t) => Both
  BY DEF RedoAgain, Redo
<1>15. RoundsUsedUp(t) => Both
  BY DEF RoundsUsedUp, RedoImpossible
<1>16. Redone(t) => Both
  BY DEF Redone, StartWriting
<1>17. WriteCommit(t) => Both
  <2> SUFFICES ASSUME WriteCommit(t) PROVE Both
    OBVIOUS
  <2>1. PICK i \in 1 .. NumTables(t) :
          /\ NextIn(t, ToCommit(t), i)
          /\ committed' = [committed EXCEPT ![t] = @ \cup {Table(t, i)}]
          /\ cur' = [cur EXCEPT ![t] = i + 1]
    BY DEF WriteCommit
  <2>2. UNCHANGED <<pc, createdFiles, deletedFiles>> /\ pc[t] = "write"
    BY DEF WriteCommit
  <2>3. ToCommit(t)' \subseteq ToCommit(t) /\ Table(t, i) \notin ToCommit(t)'
    BY <2>1, <2>2 DEF ToCommit, Changed
  <2>4. \A j \in 1 .. i - 1 : Table(t, j) \notin ToCommit(t)
    BY <2>1, <2>2 DEF NextIn, WrittenUpTo
  <2>5. \A j \in 1 .. NumTables(t) : j < i + 1 => Table(t, j) \notin ToCommit(t)'
    BY <2>3, <2>4
  <2> QED BY <2>1, <2>2, <2>5 DEF Both, WrittenUpTo, AllInLog, Table, NumTables
<1>18. WriteLost(t) => Both
  BY DEF WriteLost
<1>19. AllWritten(t) => Both
  <2> SUFFICES ASSUME AllWritten(t) PROVE Both
    OBVIOUS
  <2>1. \A j \in 1 .. NumTables(t) : Table(t, j) \notin ToCommit(t)
    BY DEF AllWritten, NoneIn, WrittenUpTo
  <2>2. ToCommit(t)' = ToCommit(t) /\ pc'[t] = "finish" /\ UNCHANGED idx /\ pc[t] = "write"
    BY <1>e DEF AllWritten
  <2> QED BY <2>1, <2>2 DEF Both, WrittenUpTo, AllInLog, OpenedAll, Table, NumTables
<1>20. Release(t) => Both
  BY DEF Release
<1>21. Released(t) => Both
  <2> SUFFICES ASSUME Released(t) PROVE Both
    OBVIOUS
  <2>1. ToCommit(t)' = ToCommit(t) /\ UNCHANGED idx
    BY <1>e DEF Released
  <2>2. CASE pc[t] = "finish" /\ pc'[t] = "committed"
    BY <2>1, <2>2 DEF Both, WrittenUpTo, AllInLog, Table, NumTables
  <2> QED BY <2>2 DEF Released
<1>22. ReserveResponseLost(t) => Both
  BY DEF ReserveResponseLost
<1>23. LoadFails(t) => Both
  BY DEF LoadFails
<1>24. WaitMissesOne(t) => Both
  BY DEF WaitMissesOne, WaitPass
<1>25. GiveUpWaiting(t) => Both
  BY DEF GiveUpWaiting
<1>26. WriteFails(t) => Both
  BY DEF WriteFails
<1>27. ReleaseFails(t) => Both
  BY DEF ReleaseFails
<1>28. RebuildFails(t) => Both
  BY DEF RebuildFails, RedoImpossible
<1>29. Crash(t) => Both
  BY DEF Crash
<1> QED BY <1>1, <1>2, <1>3, <1>4, <1>5, <1>6, <1>7, <1>8, <1>9, <1>10, <1>11, <1>12,
           <1>13, <1>14, <1>15, <1>16, <1>17, <1>18, <1>19, <1>20, <1>21, <1>22, <1>23,
           <1>24, <1>25, <1>26, <1>27, <1>28, <1>29
     DEF Step, Opening, Waiting, Leasing, Validating, Writing, Releasing, StorageError, Both

CommitInv(t) == /\ OpenedAll(t) /\ LogsNothing(t) /\ Appended(t) /\ InLog(t)
                /\ WrittenUpTo(t) /\ AllInLog(t)

\* Every step keeps what is said about every transaction.
LEMMA NextCommitInv ==
  ASSUME NothingIsRedone, IInv, \A u \in Txns : CommitInv(u), [Next]_vars
  PROVE  \A u \in Txns : CommitInv(u)'
<1> SUFFICES ASSUME NEW u \in Txns PROVE CommitInv(u)'
  OBVIOUS
<1>1. TypeOK /\ Position /\ LogInv /\ CommitInv(u)
  BY DEF IInv
<1>2. PICK w \in Writers : LogStep(w)
  BY NextIsLogStep
<1>3. \A x \in Tables, v \in Versions : Final(x, v) => log'[x][v] = log[x][v]
  BY <1>1, <1>2, LogStepKeepsLog
<1> DEFINE Same == /\ pc'[u] = pc[u] /\ idx'[u] = idx[u] /\ cur'[u] = cur[u]
                   /\ wasRead'[u] = wasRead[u] /\ createdFiles'[u] = createdFiles[u]
                   /\ deletedFiles'[u] = deletedFiles[u] /\ steps'[u] = steps[u]
                   /\ committed'[u] = committed[u]
                   /\ u \in explicitLog' <=> u \in explicitLog
<1>4. ASSUME Same PROVE CommitInv(u)'
  <2>1. InLog(u)'
    BY <1>1, <1>3, <1>4 DEF CommitInv, InLog, CommitsOf, Commits, Final
  <2>2. OpenedAll(u)' /\ LogsNothing(u)' /\ Appended(u)'
    BY <1>1, <1>4 DEF CommitInv, OpenedAll, LogsNothing, Appended, Table, NumTables
  <2>3. WrittenUpTo(u)' /\ AllInLog(u)'
    BY <1>1, <1>4 DEF CommitInv, WrittenUpTo, AllInLog, ToCommit, Changed, Table, NumTables
  <2> QED BY <2>1, <2>2, <2>3 DEF CommitInv
<1>5. CASE UNCHANGED vars \/ AllEnded \/ \E x \in Tables, v \in Versions : LeaseEnds(x, v)
  <2>1. Same
    BY <1>5 DEF vars, AllEnded, LeaseEnds
  <2> QED BY <1>4, <2>1
<1>6. ASSUME NEW t \in Txns, Step(t) \/ StorageError(t) \/ Crash(t), t # u
      PROVE  CommitInv(u)'
  <2>1. Same
    BY <1>1, <1>6, OthersVariablesStay DEF OthersStay, Stays
  <2> QED BY <1>4, <2>1
<1>7. ASSUME Step(u) \/ StorageError(u) \/ Crash(u)
      PROVE  CommitInv(u)'
  <2>1. OpenedAll(u)' /\ LogsNothing(u)'
    BY <1>1, <1>7, OpenedAllKept, LogsNothingKept DEF CommitInv
  <2>2. Appended(u)' /\ InLog(u)' /\ WrittenUpTo(u)' /\ AllInLog(u)'
    BY <1>1, <1>7, AppendedKept, InLogKept, AllInLogKept DEF CommitInv
  <2> QED BY <2>1, <2>2 DEF CommitInv
<1> QED BY <1>5, <1>6, <1>7 DEF Next

\* A transaction whose commit() returned true has the files it appended in the
\* log of every table it appended to, whatever errors it met on the way: at
\* level 1, and at both levels among transactions that only append.
THEOREM AcknowledgedIsKept ==
  ASSUME NothingIsRedone, ReadOnlyReads
  PROVE  Spec => []AcknowledgedIsInTheLog
<1>1. Init => \A t \in Txns : CommitInv(t)
  <2> SUFFICES ASSUME Init, NEW t \in Txns PROVE CommitInv(t)
    OBVIOUS
  <2>1. /\ pc[t] = "reserve" /\ idx[t] = 0 /\ steps[t] = << >> /\ t \in explicitLog
        /\ wasRead[t] = {} /\ committed[t] = {}
        /\ \A x \in Tables : deletedFiles[t][x] = {}
    BY DEF Init, NoFiles
  <2> QED BY <2>1 DEF CommitInv, OpenedAll, LogsNothing, Appended, InLog, WrittenUpTo, AllInLog
<1>2. IInv /\ (\A t \in Txns : CommitInv(t)) /\ [Next]_vars => (\A t \in Txns : CommitInv(t))'
  BY NextCommitInv
<1>3. (\A t \in Txns : CommitInv(t)) => AcknowledgedIsInTheLog
  <2> SUFFICES ASSUME NEW t \in Txns, NEW i \in 1 .. NumTables(t),
                      CommitInv(t), pc[t] = "committed"
               PROVE  LET x == Table(t, i)
                          mine == UNION {log[x][v].add : v \in CommitsOf(t, x)} IN
                      /\ "append" \in Ops[t][x] => \E f \in mine : ~f.keyed
                      /\ [table |-> x, op |-> "update"] \in {steps[t][j] : j \in DOMAIN steps[t]}
                           => \E f \in mine : f.keyed
    BY DEF AcknowledgedIsInTheLog
  <2> DEFINE x == Table(t, i)
             mine == UNION {log[x][v].add : v \in CommitsOf(t, x)}
  <2>1. x \in Tables
    BY TableIsATable
  <2>2. {steps[t][j] : j \in DOMAIN steps[t]} = {}
    BY DEF CommitInv, LogsNothing
  <2>3. ASSUME "append" \in Ops[t][x] PROVE \E f \in mine : ~f.keyed
    <3>1. t \notin ReadOnly
      BY <2>1, <2>3 DEF ReadOnlyReads
    <3>2. idx[t] = NumTables(t) /\ x \notin ToCommit(t)
      BY <3>1 DEF CommitInv, AllInLog
    <3>3. AppendedFile(t) \in createdFiles[t][x]
      BY <2>3, <3>2, NumTablesIsPositive DEF CommitInv, Appended
    <3>4. x \in committed[t]
      BY <2>1, <3>2, <3>3 DEF ToCommit, Changed
    <3>5. PICK v \in CommitsOf(t, x) : AppendedFile(t) \in log[x][v].add
      BY <2>1, <2>3, <3>4 DEF CommitInv, InLog
    <3>6. AppendedFile(t) \in mine /\ ~AppendedFile(t).keyed
      BY <3>5 DEF File, AppendedFile
    <3> QED BY <3>6
  <2> QED BY <2>2, <2>3
<1> QED BY <1>1, <1>2, <1>3, Inductive, PTL DEF Spec

=============================================================================
