-------------------------- MODULE GlobalLogProofs --------------------------
(***************************************************************************)
(* What the global log and the logs of the tables promise.                 *)
(*                                                                         *)
(* First whatever happens to the lock: holders that are broken while they  *)
(* work, any number of crashes, storage errors and commits of other        *)
(* engines.  A commit and an entry of the global log only ever build on    *)
(* versions that exist, and what exists never changes; put-if-absent does  *)
(* the rest.                                                               *)
(*                                                                         *)
(* Then what takes the lock: when it keeps clients apart, that the global  *)
(* log only moves forward and has transactions as a whole, and that the    *)
(* acknowledged transactions are serializable.                             *)
(***************************************************************************)
EXTENDS GlobalLog, FiniteSetTheorems, TLAPS

-----------------------------------------------------------------------------
(* The inductive invariant *)

VersionSets == SUBSET Nat
Types ==
  /\ log \in [Tables -> [Versions -> Objects]]
  /\ globalLog \in [Tables -> Entries]
  /\ lock \in Tokens
  /\ faults \in Nat /\ foreign \in Nat
  /\ pc \in [Txns -> Labels \cup Ended]
  /\ opened \in [Txns -> Nat]
  /\ localLog \in [Txns -> [Tables -> Entries]]
  /\ markerVersion \in [Txns -> [Tables -> Nat]]
  /\ calls \in [Txns -> Nat]
  /\ observed \in [Txns -> Tokens]
  /\ draft \in [Txns -> [Tables -> Entries]]
  /\ committed \in [Txns -> SUBSET Tables]
  /\ claimFailures \in [Txns -> Nat]
  /\ scanned \in [Txns -> Nat]
  /\ missed \in [Txns -> [Tables -> VersionSets]]
  /\ goal \in [Txns -> {"committed", "aborted", "validate"}]
  /\ readAt \in [Txns -> [Tables -> Nat]]

\* Every version from 0 to v exists.
Complete(x, v) == \A w \in 0 .. v : Exists(x, w)

LogInv ==
  /\ \A x \in Tables, v \in Versions : Exists(x, v) => Complete(x, v)
  /\ \A x \in Tables, v \in Versions : log[x][v].update => Exists(x, v)

\* A transaction opens tables only before it commits any.
OpenedBefore(t) ==
  /\ pc[t] \in {"begin", "open"} => opened[t] < Len(OpenOrder[t])
  /\ pc[t] \in {"begin", "open"} => committed[t] = {}

\* Where it works on the versions that its repair found
Repairs == {"advance", "repair", "join"}

\* What a transaction knows of a table exists.
KnownExists(t) ==
  \A x \in Tables :
    /\ Complete(x, localLog[t][x])
    /\ Complete(x, markerVersion[t][x] - 1)
    /\ x \in committed[t] => Exists(x, markerVersion[t][x])
    /\ pc[t] \in Repairs /\ Claims(t, x) =>
         Complete(x, scanned[t]) /\ markerVersion[t][x] <= scanned[t]

\* What it is about to list exists, or will when all its claims succeed.
DraftExists(t) ==
  \A x \in Tables :
    /\ pc[t] = "claim" => IF x \in Changed(t) THEN draft[t][x] = markerVersion[t][x]
                                              ELSE Complete(x, draft[t][x])
    /\ pc[t] = "repair" => Complete(x, draft[t][x])

\* An update that was validated, and whose transaction may still claim a
\* version, overlooks no other update that it read.
Validated == {"lock", "reread", "break", "check", "claim"}
MissesNoUpdate(t) ==
  \A x \in Tables :
    pc[t] \in Validated /\ x \in Changed(t) /\ Updates(t, x) =>
      \A v \in Joined(t, x) : ~log[x][v].update

TxnInv(t) == /\ OpenedBefore(t)
             /\ KnownExists(t)
             /\ DraftExists(t)
             /\ MissesNoUpdate(t)

IInv == /\ Types
        /\ LogInv
        /\ \A t \in Txns : TxnInv(t)
        /\ ListedVersionsExist
        /\ NoLostUpdate

-----------------------------------------------------------------------------
(* Types *)

USE DEF Goto, ReleaseThen, Fault, Finds

\* The tables of a transaction are tables.
LEMMA OpenTablesAreTables ==
  ASSUME Types, NEW t \in Txns, pc[t] = "open", OpenedBefore(t)
  PROVE  NextTable(t) \in Tables
BY GlobalLogAssumption DEF Types, NextTable, OpenedBefore

LEMMA ObjectTypes ==
  ASSUME NEW w \in Writers, NEW u \in BOOLEAN, NEW v \in Nat
  PROVE  Commit(w, u, v) \in Objects
BY DEF Commit, Objects

LEMMA TokenTypes ==
  ASSUME Types, NEW t \in Txns
  PROVE  Token(t) \in Tokens /\ NoLock \in Tokens
BY DEF Types, Token, NoLock, Tokens

\* What a transaction wants to list are entries.
LEMMA DraftType ==
  ASSUME Types, NEW t \in Txns, NEW g \in [Tables -> Entries]
  PROVE  Draft(t, g) \in [Tables -> Entries]
BY DEF Types, Draft, Larger, ReadVersion, Entries, Unlisted

LEMMA GlobalLogTypes == Types => NothingListed \in [Tables -> Entries]
BY DEF NothingListed, Entries

LEMMA InitTypes == Init => Types
<1> SUFFICES ASSUME Init
             PROVE  Types
  OBVIOUS
<1>1. log \in [Tables -> [Versions -> Objects]]
  BY GlobalLogAssumption DEF Init, Versions, Objects, Writers, Commit, Absent
<1>2. /\ globalLog \in [Tables -> Entries]
      /\ localLog \in [Txns -> [Tables -> Entries]]
      /\ draft \in [Txns -> [Tables -> Entries]]
  BY DEF Init, Entries, Unlisted, NothingListed
<1>3. lock \in Tokens /\ observed \in [Txns -> Tokens]
  BY DEF Init, Tokens, NoLock
<1>4. missed \in [Txns -> [Tables -> VersionSets]]
  BY DEF Init, VersionSets
<1>5. /\ pc \in [Txns -> Labels \cup Ended]
      /\ goal \in [Txns -> {"committed", "aborted", "validate"}]
  BY DEF Init, Labels, Ended
<1> QED
  BY <1>1, <1>2, <1>3, <1>4, <1>5 DEF Init, Types

USE DEF Labels, Ended, txnVars, notLockVars, notCheckVars, notRepairVars, notReleaseVars

LEMMA TypesOpening ==
  ASSUME Types, NEW t \in Txns, OpenedBefore(t), Opening(t)
  PROVE  Types'
<1>1. CASE Begin(t)
  BY <1>1, GlobalLogTypes DEF Begin, Types
<1>2. CASE SkipForeignVersion(t)
  <2>1. NextTable(t) \in Tables
    BY <1>2, OpenTablesAreTables DEF SkipForeignVersion
  <2>2. localLog[t][NextTable(t)] + 1 \in Entries
    BY <1>2, <2>1 DEF SkipForeignVersion, SkipsForeign, Types, Entries
  <2> QED
    BY <1>2, <2>1, <2>2 DEF SkipForeignVersion, Types
<1>3. CASE Open(t)
  <2>1. NextTable(t) \in Tables
    BY <1>3, OpenTablesAreTables DEF Open
  <2>2. PICK v \in Versions :
          /\ localLog' = [localLog EXCEPT ![t][NextTable(t)] = v]
          /\ markerVersion' = [markerVersion EXCEPT ![t][NextTable(t)] = v + 1]
          /\ readAt' = [readAt EXCEPT ![t][NextTable(t)] = v]
    BY <1>3 DEF Open
  <2>3. v \in Nat /\ v \in Entries /\ v + 1 \in Nat
    BY GlobalLogAssumption DEF Versions, Entries
  <2>4. /\ localLog' \in [Txns -> [Tables -> Entries]]
        /\ markerVersion' \in [Txns -> [Tables -> Nat]]
        /\ readAt' \in [Txns -> [Tables -> Nat]]
    BY <2>1, <2>2, <2>3 DEF Types
  <2>5. pc' \in [Txns -> Labels \cup Ended] /\ opened' \in [Txns -> Nat] /\ faults' \in Nat
    BY <1>3 DEF Open, Types
  <2> QED
    BY <1>3, <2>4, <2>5 DEF Open, Types
<1> QED
  BY <1>1, <1>2, <1>3 DEF Opening

LEMMA TypesLocking ==
  ASSUME Types, NEW t \in Txns, Locking(t) \/ LockTimeout(t)
  PROVE  Types'
<1> USE TokenTypes
<1>1. CASE TakeLock(t)
  <2>1. lock' \in Tokens /\ faults' \in Nat
    BY <1>1 DEF TakeLock, Types
  <2>2. pc' \in [Txns -> Labels \cup Ended]
    BY <1>1 DEF TakeLock, Types
  <2> QED
    BY <1>1, <2>1, <2>2 DEF TakeLock, Types
<1>2. CASE FindOwnLock(t)
  BY <1>2 DEF FindOwnLock, Types
<1>3. CASE ObserveLock(t)
  BY <1>3 DEF ObserveLock, Types
<1>4. CASE FindLockStale(t)
  BY <1>4 DEF FindLockStale, Types
<1>5. CASE RereadLock(t)
  BY <1>5 DEF RereadLock, Types
<1>6. CASE BreakLock(t)
  BY <1>6 DEF BreakLock, Types
<1>7. CASE LockTimeout(t)
  BY <1>7 DEF LockTimeout, Types
<1> QED
  BY <1>1, <1>2, <1>3, <1>4, <1>5, <1>6, <1>7 DEF Locking

\* A claim writes a commit.
LEMMA ClaimTypes ==
  ASSUME Types, NEW t \in Txns, NEW x \in Tables, Free(t, x), WriteClaim(t, x)
  PROVE  log' \in [Tables -> [Versions -> Objects]]
<1>1. markerVersion[t][x] \in Versions /\ readAt[t][x] \in Nat /\ t \in Writers
  BY DEF Types, Free, Writers
<1>2. Updates(t, x) \in BOOLEAN
  BY DEF Updates
<1>3. Commit(t, Updates(t, x), readAt[t][x]) \in Objects
  BY <1>1, <1>2, ObjectTypes
<1> QED
  BY <1>1, <1>3 DEF WriteClaim, Types

LEMMA TypesCommitting ==
  ASSUME Types, NEW t \in Txns,
         Committing(t) \/ GlobalLogUnreadable(t) \/ ClaimFails(t)
  PROVE  Types'
<1>1. CASE Validate(t)
  <2>1. CASE Conflict(t)
    BY <1>1, <2>1 DEF Validate, Types
  <2>2. CASE ~Conflict(t)
    <3>1. NoLock \in Tokens
      BY TokenTypes
    <3>2. calls' = [calls EXCEPT ![t] = @ + 1] /\ pc' = [pc EXCEPT ![t] = "lock"]
      BY <1>1, <2>2 DEF Validate
    <3>3. calls' \in [Txns -> Nat]
      BY <3>2 DEF Types
    <3>4. pc' \in [Txns -> Labels \cup Ended]
      BY <3>2 DEF Types
    <3>5. observed' \in [Txns -> Tokens]
      BY <1>1, <2>2, <3>1 DEF Validate, Types
    <3> QED
      BY <1>1, <3>3, <3>4, <3>5 DEF Validate, Types
  <2> QED
    BY <2>1, <2>2
<1>2. CASE CheckGlobalLog(t)
  <2>1. PICK g \in {globalLog, NothingListed} :
          /\ Finds(g)
          /\ IF Valid(t, g)
             THEN /\ draft' = [draft EXCEPT ![t] = Draft(t, g)]
                  /\ Goto(t, "claim")
                  /\ UNCHANGED goal
             ELSE ReleaseThen(t, "aborted") /\ UNCHANGED draft
    BY <1>2 DEF CheckGlobalLog
  <2>2. Draft(t, g) \in [Tables -> Entries] /\ faults' \in Nat
    BY <2>1, GlobalLogTypes, DraftType DEF Types
  <2>3. draft' \in [Txns -> [Tables -> Entries]]
    BY <2>1, <2>2 DEF Types
  <2>4. pc' \in [Txns -> Labels \cup Ended]
    BY <2>1 DEF Types
  <2>5. goal' \in [Txns -> {"committed", "aborted", "validate"}]
    BY <2>1 DEF Types
  <2> QED
    BY <1>2, <2>2, <2>3, <2>4, <2>5 DEF CheckGlobalLog, Types
<1>3. CASE Claim(t)
  <2>1. PICK x \in Tables : /\ Free(t, x) /\ WriteClaim(t, x)
                            /\ committed' = [committed EXCEPT ![t] = @ \cup {x}]
    BY <1>3 DEF Claim
  <2>2. committed' \in [Txns -> SUBSET Tables]
    BY <2>1 DEF Types
  <2> QED
    BY <1>3, <2>1, <2>2, ClaimTypes DEF Claim, Types
<1>4. CASE ClaimTaken(t)
  <2>1. claimFailures' \in [Txns -> Nat]
    BY <1>4 DEF ClaimTaken, Types
  <2>2. /\ pc' \in [Txns -> Labels \cup Ended]
        /\ goal' \in [Txns -> {"committed", "aborted", "validate"}]
    BY <1>4 DEF ClaimTaken, Types
  <2> QED
    BY <1>4, <2>1, <2>2 DEF ClaimTaken, Types
<1>5. CASE Publish(t)
  BY <1>5 DEF Publish, Types
<1>6. CASE GlobalLogUnreadable(t)
  BY <1>6 DEF GlobalLogUnreadable, Types
<1>7. CASE ClaimFails(t)
  <2>1. log' \in [Tables -> [Versions -> Objects]]
    BY <1>7, ClaimTypes DEF ClaimFails, Types
  <2> QED
    BY <1>7, <2>1 DEF ClaimFails, Types
<1> QED
  BY <1>1, <1>2, <1>3, <1>4, <1>5, <1>6, <1>7 DEF Committing

LEMMA JoinTypes ==
  ASSUME Types, NEW t \in Txns, JoinVersion(t)
  PROVE  Types'
<1>1. PICK x \in Tables :
        LET v == markerVersion[t][x] IN
        /\ markerVersion' = [markerVersion EXCEPT ![t][x] = v + 1]
        /\ \/ localLog' = [localLog EXCEPT ![t][x] = v] /\ UNCHANGED <<missed, faults>>
           \/ /\ Fault("read")
              /\ missed' = [missed EXCEPT ![t][x] = @ \cup {v}]
              /\ UNCHANGED localLog
        /\ IF v < scanned[t] THEN UNCHANGED <<pc, goal>> ELSE ReleaseThen(t, "validate")
  BY DEF JoinVersion
<1>2. markerVersion[t][x] \in Nat /\ markerVersion[t][x] \in Entries
  BY DEF Types, Entries
<1>3. markerVersion' \in [Txns -> [Tables -> Nat]]
  BY <1>1, <1>2 DEF Types
<1>4. localLog' \in [Txns -> [Tables -> Entries]]
  <2>1. CASE localLog' = localLog
    BY <2>1 DEF Types
  <2>2. CASE localLog' = [localLog EXCEPT ![t][x] = markerVersion[t][x]]
    BY <1>2, <2>2 DEF Types
  <2> QED
    BY <1>1, <2>1, <2>2
<1>5. faults' \in Nat
  BY <1>1 DEF Types
<1>6. missed' \in [Txns -> [Tables -> VersionSets]]
  <2>1. CASE missed' = missed
    BY <2>1 DEF Types
  <2>2. CASE missed' = [missed EXCEPT ![t][x] = @ \cup {markerVersion[t][x]}]
    <3>1. missed[t][x] \cup {markerVersion[t][x]} \in VersionSets
      BY <1>2 DEF Types, VersionSets
    <3> QED
      BY <2>2, <3>1 DEF Types
  <2> QED
    BY <1>1, <2>1, <2>2
<1>7. /\ pc' \in [Txns -> Labels \cup Ended]
      /\ goal' \in [Txns -> {"committed", "aborted", "validate"}]
  BY <1>1 DEF Types
<1> QED
  BY <1>3, <1>4, <1>5, <1>6, <1>7 DEF JoinVersion, Types

LEMMA TypesRepairing ==
  ASSUME Types, NEW t \in Txns, Repairing(t)
  PROVE  Types'
<1>1. CASE Scan(t)
  <2>1. \A v \in Versions : v \in Nat
    BY GlobalLogAssumption DEF Versions
  <2>2. faults' \in Nat /\ scanned' \in [Txns -> Nat]
    BY <1>1, <2>1 DEF Scan, Types
  <2>3. /\ pc' \in [Txns -> Labels \cup Ended]
        /\ goal' \in [Txns -> {"committed", "aborted", "validate"}]
    BY <1>1 DEF Scan, Types
  <2> QED
    BY <1>1, <2>2, <2>3 DEF Scan, Types
<1>2. CASE ReadEntry(t)
  <2>1. PICK g \in {globalLog, NothingListed}, x \in Tables :
          /\ Finds(g)
          /\ IF g[x] >= scanned[t]
             THEN Goto(t, "join") /\ UNCHANGED draft
             ELSE /\ draft' = [draft EXCEPT ![t] = [g EXCEPT ![x] = scanned[t]]]
                  /\ Goto(t, "repair")
    BY <1>2 DEF ReadEntry
  <2>2. [g EXCEPT ![x] = scanned[t]] \in [Tables -> Entries]
    BY GlobalLogTypes DEF Types, Entries
  <2>3. draft' \in [Txns -> [Tables -> Entries]]
    BY <2>1, <2>2 DEF Types
  <2>4. faults' \in Nat
    BY <2>1 DEF Types
  <2>5. pc' \in [Txns -> Labels \cup Ended]
    BY <2>1 DEF Types
  <2> QED
    BY <1>2, <2>3, <2>4, <2>5 DEF ReadEntry, Types
<1>3. CASE WriteEntry(t)
  <2>1. globalLog' \in [Tables -> Entries] /\ faults' \in Nat
    BY <1>3 DEF WriteEntry, Types
  <2>2. /\ pc' \in [Txns -> Labels \cup Ended]
        /\ goal' \in [Txns -> {"committed", "aborted", "validate"}]
    BY <1>3 DEF WriteEntry, Types
  <2> QED
    BY <1>3, <2>1, <2>2 DEF WriteEntry, Types
<1>4. CASE JoinVersion(t)
  BY <1>4, JoinTypes
<1> QED
  BY <1>1, <1>2, <1>3, <1>4 DEF Repairing

LEMMA TypesOther ==
  ASSUME Types, NEW t \in Txns, Releasing(t) \/ Crash(t)
  PROVE  Types'
<1>1. /\ goal[t] \in Labels \cup Ended
      /\ NoLock \in Tokens
  BY TokenTypes DEF Types
<1>2. pc' \in [Txns -> Labels \cup Ended] /\ lock' \in Tokens /\ faults' \in Nat
  <2>1. CASE ReadOwnLock(t)
    BY <1>1, <2>1 DEF ReadOwnLock, Types
  <2>2. CASE Unlock(t)
    BY <1>1, <2>2 DEF Unlock, Types
  <2>3. CASE Crash(t)
    BY <1>1, <2>3 DEF Crash, Types
  <2> QED
    BY <2>1, <2>2, <2>3 DEF Releasing
<1> QED
  BY <1>2 DEF Releasing, ReadOwnLock, Unlock, Crash, Types

LEMMA TypesForeign ==
  ASSUME Types, NEW x \in Tables, ForeignCommit(x)
  PROVE  Types'
<1>1. PICK v \in Versions \ {MaxVersion}, u \in BOOLEAN :
        log' = [log EXCEPT ![x][v + 1] = Commit(Engine, u, v)]
  BY DEF ForeignCommit
<1>2. v + 1 \in Versions /\ v \in Nat
  BY GlobalLogAssumption DEF Versions
<1>3. Commit(Engine, u, v) \in Objects
  BY <1>2, ObjectTypes DEF Writers
<1>4. log' \in [Tables -> [Versions -> Objects]]
  BY <1>1, <1>2, <1>3 DEF Types
<1>5. foreign' \in Nat
  BY DEF ForeignCommit, Types
<1> QED
  BY <1>4, <1>5 DEF ForeignCommit, Types

LEMMA TypesStep ==
  ASSUME Types, \A t \in Txns : OpenedBefore(t), [Next]_vars
  PROVE  Types'
<1>1. CASE UNCHANGED vars
  BY <1>1 DEF vars, Types
<1>2. ASSUME NEW t \in Txns,
             Step(t) \/ LockTimeout(t) \/ GlobalLogUnreadable(t) \/ ClaimFails(t) \/ Crash(t)
      PROVE  Types'
  BY <1>2, TypesOpening, TypesLocking, TypesCommitting, TypesRepairing, TypesOther
  DEF Step
<1>3. ASSUME NEW x \in Tables, ForeignCommit(x)
      PROVE  Types'
  BY <1>3, TypesForeign
<1> QED
  BY <1>1, <1>2, <1>3 DEF Next, AllEnded

-----------------------------------------------------------------------------
(* Every step leaves the logs alone or adds one commit at the end of one *)

\* A commit that w writes as version v of x
NewCommit(x, v) ==
  /\ v \in Versions /\ ~Exists(x, v)
  /\ Complete(x, v - 1)
  /\ \E w \in Writers \ {NoWriter}, u \in BOOLEAN, f \in Nat :
       /\ u => \A i \in f + 1 .. v - 1 : log[x][i].update => i \in MissedBy(w, x)
       /\ log' = [log EXCEPT ![x][v] = Commit(w, u, f)]

\* What was passed without being read stays so.
MissedStays == \A t \in Txns : \A x \in Tables : missed[t][x] \subseteq missed'[t][x]

LogStep == log' = log \/ \E x \in Tables : \E v \in Versions : NewCommit(x, v)

\* What exists stays as it is.
LEMMA LogIsFinal ==
  ASSUME Types, LogStep, NEW x \in Tables, NEW v \in Int, Exists(x, v)
  PROVE  log'[x][v] = log[x][v] /\ Exists(x, v)'
<1>1. CASE log' = log
  BY <1>1 DEF Exists
<1>2. ASSUME NEW y \in Tables, NEW n \in Versions, NewCommit(y, n)
      PROVE  log'[x][v] = log[x][v]
  <2>1. PICK o : log' = [log EXCEPT ![y][n] = o]
    BY <1>2 DEF NewCommit
  <2>2. v \in Versions /\ ~(x = y /\ v = n)
    BY <1>2 DEF NewCommit, Exists
  <2> QED
    BY <2>1, <2>2 DEF Types
<1> QED
  BY <1>1, <1>2 DEF LogStep, Exists

LEMMA CompleteIsFinal ==
  ASSUME Types, LogStep, NEW x \in Tables, NEW v \in Int, Complete(x, v)
  PROVE  Complete(x, v)'
BY LogIsFinal DEF Complete

LEMMA LogInvStep ==
  ASSUME Types, LogStep, LogInv
  PROVE  LogInv'
<1>1. CASE log' = log
  BY <1>1 DEF LogInv, Complete, Exists
<1>2. ASSUME NEW y \in Tables, NEW n \in Versions, NewCommit(y, n)
      PROVE  LogInv'
  <2>1. PICK w \in Writers \ {NoWriter}, u \in BOOLEAN, f \in Nat :
          log' = [log EXCEPT ![y][n] = Commit(w, u, f)]
    BY <1>2 DEF NewCommit
  <2>2. \A x \in Tables, v \in Versions :
          log'[x][v] = IF x = y /\ v = n THEN Commit(w, u, f) ELSE log[x][v]
    BY <2>1 DEF Types
  <2>3. Exists(y, n)'
    BY <2>2 DEF Exists, Commit
  <2>4. Complete(y, n)'
    <3>1. \A i \in 0 .. n - 1 : Exists(y, i)'
      <4> SUFFICES ASSUME NEW i \in 0 .. n - 1
                   PROVE  Exists(y, i)'
        OBVIOUS
      <4>1. Exists(y, i)
        BY <1>2 DEF NewCommit, Complete
      <4> QED
        BY <4>1, LogIsFinal
    <3> QED
      BY <2>3, <3>1, GlobalLogAssumption DEF Complete, Versions
  <2>5. ASSUME NEW x \in Tables, NEW v \in Versions, Exists(x, v)'
        PROVE  Complete(x, v)'
    <3>1. CASE x = y /\ v = n
      BY <2>4, <3>1
    <3>2. CASE ~(x = y /\ v = n)
      <4>1. Complete(x, v)
        BY <2>2, <2>5, <3>2 DEF LogInv, Exists
      <4> QED
        BY <4>1, CompleteIsFinal DEF Versions
    <3> QED
      BY <3>1, <3>2
  <2>6. ASSUME NEW x \in Tables, NEW v \in Versions, log'[x][v].update
        PROVE  Exists(x, v)'
    <3>1. CASE x = y /\ v = n
      BY <2>3, <3>1
    <3>2. CASE ~(x = y /\ v = n)
      <4>1. Exists(x, v)
        BY <2>2, <2>6, <3>2 DEF LogInv
      <4> QED
        BY <4>1, LogIsFinal DEF Versions
    <3> QED
      BY <3>1, <3>2
  <2> QED
    BY <2>5, <2>6 DEF LogInv
<1> QED
  BY <1>1, <1>2 DEF LogStep

LEMMA NoLostUpdateStep ==
  ASSUME Types, LogStep, MissedStays, LogInv, NoLostUpdate
  PROVE  NoLostUpdate'
<1>0. \A w : \A x \in Tables : MissedBy(w, x) \subseteq MissedBy(w, x)'
  BY DEF MissedBy, MissedStays
<1>1. CASE log' = log
  BY <1>0, <1>1 DEF NoLostUpdate
<1>2. ASSUME NEW y \in Tables, NEW n \in Versions, NewCommit(y, n)
      PROVE  NoLostUpdate'
  <2>1. PICK w \in Writers \ {NoWriter}, u \in BOOLEAN, f \in Nat :
          /\ u => \A i \in f + 1 .. n - 1 : log[y][i].update => i \in MissedBy(w, y)
          /\ log' = [log EXCEPT ![y][n] = Commit(w, u, f)]
    BY <1>2 DEF NewCommit
  <2>2. \A x \in Tables, v \in Versions :
          log'[x][v] = IF x = y /\ v = n THEN Commit(w, u, f) ELSE log[x][v]
    BY <2>1 DEF Types
  <2>3. SUFFICES ASSUME NEW x \in Tables, NEW v \in Versions, log'[x][v].update,
                        NEW i \in log'[x][v].from + 1 .. v - 1, log'[x][i].update,
                        i \notin MissedBy(log'[x][v].by, x)
                 PROVE  FALSE
    BY <1>0 DEF NoLostUpdate
  <2>4. log'[x][v].from \in Nat /\ i \in Versions /\ v \in Nat /\ n \in Nat
    <3>1. log'[x][v].from \in Nat
      <4>1. log[x][v].from \in Nat
        BY DEF Types, Objects
      <4>2. Commit(w, u, f).from \in Nat
        BY DEF Commit
      <4> QED
        BY <2>2, <4>1, <4>2
    <3> QED
      BY <3>1, GlobalLogAssumption DEF Versions
  <2>5. CASE x = y /\ v = n
    BY <2>1, <2>2, <2>3, <2>4, <2>5 DEF Commit
  <2>6. CASE x = y /\ v # n /\ i = n
    <3>1. Complete(y, v)
      BY <2>2, <2>3, <2>6 DEF LogInv
    <3> QED
      BY <1>2, <2>4, <2>6, <3>1 DEF Complete, NewCommit
  <2>7. CASE ~(x = y /\ v = n) /\ ~(x = y /\ i = n)
    BY <2>2, <2>3, <2>4, <2>7 DEF NoLostUpdate
  <2> QED
    BY <2>5, <2>6, <2>7
<1> QED
  BY <1>1, <1>2 DEF LogStep

LEMMA ClaimIsLogStep ==
  ASSUME Types, NEW t \in Txns, TxnInv(t), pc[t] = "claim",
         NEW x \in Tables, Claims(t, x), Free(t, x), WriteClaim(t, x)
  PROVE  LogStep
<1> DEFINE v == markerVersion[t][x]
<1>1. /\ v \in Versions /\ ~Exists(x, v)
      /\ Complete(x, v - 1)
  BY DEF Free, TxnInv, KnownExists
<1>2. t \in Writers \ {NoWriter} /\ Updates(t, x) \in BOOLEAN /\ readAt[t][x] \in Nat
  BY GlobalLogAssumption DEF Writers, Updates, Types
<1>3. Updates(t, x) => \A i \in readAt[t][x] + 1 .. v - 1 :
                         log[x][i].update => i \in MissedBy(t, x)
  BY DEF TxnInv, MissesNoUpdate, Validated, Claims, ToClaim, Joined, MissedBy
<1>4. NewCommit(x, v)
  BY <1>1, <1>2, <1>3 DEF NewCommit, WriteClaim
<1> QED
  BY <1>1, <1>4 DEF LogStep

LEMMA ForeignIsLogStep ==
  ASSUME Types, LogInv, NEW x \in Tables, ForeignCommit(x)
  PROVE  LogStep
<1>1. PICK v \in Versions \ {MaxVersion}, u \in BOOLEAN :
        IsHighest(x, v) /\ log' = [log EXCEPT ![x][v + 1] = Commit(Engine, u, v)]
  BY DEF ForeignCommit
<1>2. v \in Nat /\ v + 1 \in Versions /\ (v + 1) - 1 = v
  BY GlobalLogAssumption DEF Versions
<1>3. ~Exists(x, v + 1) /\ Complete(x, (v + 1) - 1)
  BY <1>1, <1>2 DEF IsHighest, LogInv
<1>4. Engine \in Writers \ {NoWriter}
  BY GlobalLogAssumption DEF Writers
<1>5. \A i \in v + 1 .. (v + 1) - 1 : log[x][i].update => i \in MissedBy(Engine, x)
  BY <1>2
<1>6. NewCommit(x, v + 1)
  BY <1>1, <1>2, <1>3, <1>4, <1>5 DEF NewCommit
<1> QED
  BY <1>2, <1>6 DEF LogStep

\* A client writes to the log of a table when it claims a version.
LEMMA LogSteps ==
  ASSUME NEW t \in Txns,
         Step(t) \/ LockTimeout(t) \/ GlobalLogUnreadable(t) \/ ClaimFails(t) \/ Crash(t)
  PROVE  log' = log \/ Claim(t) \/ ClaimFails(t)
<1>1. CASE Opening(t)
  BY <1>1 DEF Opening, Begin, SkipForeignVersion, Open
<1>2. CASE Locking(t) \/ LockTimeout(t)
  BY <1>2 DEF Locking, TakeLock, FindOwnLock, ObserveLock, FindLockStale,
              RereadLock, BreakLock, LockTimeout
<1>3. CASE Validate(t) \/ CheckGlobalLog(t) \/ ClaimTaken(t) \/ Publish(t) \/ GlobalLogUnreadable(t)
  BY <1>3 DEF Validate, CheckGlobalLog, ClaimTaken, Publish, GlobalLogUnreadable
<1>4. CASE Repairing(t) \/ Releasing(t) \/ Crash(t)
  BY <1>4 DEF Repairing, Scan, ReadEntry, WriteEntry, JoinVersion, Releasing, ReadOwnLock,
              Unlock, Crash
<1> QED
  BY <1>1, <1>2, <1>3, <1>4 DEF Step, Committing

LEMMA NextIsLogStep ==
  ASSUME IInv, [Next]_vars
  PROVE  LogStep
<1>1. CASE UNCHANGED vars
  BY <1>1 DEF vars, LogStep
<1>2. ASSUME NEW t \in Txns,
             Step(t) \/ LockTimeout(t) \/ GlobalLogUnreadable(t) \/ ClaimFails(t) \/ Crash(t)
      PROVE  LogStep
  <2>1. CASE Claim(t)
    BY <2>1, ClaimIsLogStep DEF Claim, IInv
  <2>2. CASE ClaimFails(t)
    BY <2>2, ClaimIsLogStep DEF ClaimFails, IInv, LogStep
  <2> QED
    BY <1>2, <2>1, <2>2, LogSteps DEF LogStep
<1>3. ASSUME NEW x \in Tables, ForeignCommit(x)
      PROVE  LogStep
  BY <1>3, ForeignIsLogStep DEF IInv
<1> QED
  BY <1>1, <1>2, <1>3 DEF Next, AllEnded

\* A version is passed in a repair only.
LEMMA MissedSteps ==
  ASSUME Types, [Next]_vars, NEW t \in Txns, NEW x \in Tables
  PROVE  \/ missed'[t][x] = missed[t][x]
         \/ /\ JoinVersion(t) /\ Claims(t, x)
            /\ missed'[t][x] = missed[t][x] \cup {markerVersion[t][x]}
<1>1. CASE missed' = missed
  BY <1>1
<1>2. ASSUME NEW u \in Txns, JoinVersion(u)
      PROVE  \/ missed'[t][x] = missed[t][x]
             \/ /\ JoinVersion(t) /\ Claims(t, x)
                /\ missed'[t][x] = missed[t][x] \cup {markerVersion[t][x]}
  <2>1. PICK y \in Tables :
          /\ Claims(u, y)
          /\ \/ missed' = missed
             \/ missed' = [missed EXCEPT ![u][y] = @ \cup {markerVersion[u][y]}]
    BY <1>2 DEF JoinVersion
  <2>2. CASE missed' = [missed EXCEPT ![u][y] = @ \cup {markerVersion[u][y]}]
    <3>1. missed'[t][x] = IF t = u /\ x = y THEN missed[t][x] \cup {markerVersion[u][y]}
                                            ELSE missed[t][x]
      BY <2>2 DEF Types
    <3> QED
      BY <1>2, <2>1, <3>1
  <2> QED
    BY <1>1, <2>1, <2>2
<1>3. CASE UNCHANGED vars
  BY <1>1, <1>3 DEF vars
<1>4. ASSUME NEW u \in Txns, Opening(u) \/ Locking(u) \/ LockTimeout(u)
      PROVE  missed' = missed
  BY <1>4 DEF Opening, Begin, SkipForeignVersion, Open, Locking, TakeLock, FindOwnLock,
              ObserveLock, FindLockStale, RereadLock, BreakLock, LockTimeout
<1>5. ASSUME NEW u \in Txns, Committing(u) \/ GlobalLogUnreadable(u) \/ ClaimFails(u)
      PROVE  missed' = missed
  BY <1>5 DEF Committing, Validate, CheckGlobalLog, Claim, ClaimTaken, Publish,
              GlobalLogUnreadable, ClaimFails
<1>6. ASSUME NEW u \in Txns, Repairing(u) \/ Releasing(u) \/ Crash(u)
      PROVE  missed' = missed \/ JoinVersion(u)
  BY <1>6 DEF Repairing, Scan, ReadEntry, WriteEntry, Releasing, ReadOwnLock, Unlock, Crash
<1>7. ASSUME NEW y \in Tables, ForeignCommit(y)
      PROVE  missed' = missed
  BY <1>7 DEF ForeignCommit
<1> QED
  BY <1>1, <1>2, <1>3, <1>4, <1>5, <1>6, <1>7 DEF Next, AllEnded, Step

LEMMA MissedStep ==
  ASSUME Types, [Next]_vars
  PROVE  MissedStays
BY MissedSteps DEF MissedStays

-----------------------------------------------------------------------------
(* What a transaction knows stays right *)

LEMMA ClaimsOne ==
  ASSUME NEW t \in Txns, NEW x \in Tables, NEW y \in Tables, Claims(t, x), Claims(t, y)
  PROVE  x = y
<1>1. PICK i \in 1 .. opened[t] :
        OpenOrder[t][i] = x /\ \A j \in 1 .. i - 1 : OpenOrder[t][j] \notin ToClaim(t)
  BY DEF Claims
<1>2. PICK k \in 1 .. opened[t] :
        OpenOrder[t][k] = y /\ \A j \in 1 .. k - 1 : OpenOrder[t][j] \notin ToClaim(t)
  BY DEF Claims
<1> QED
  BY <1>1, <1>2 DEF Claims

\* t is not at a step that its part of the invariant is about, or was there before.
Quiet(t) ==
  /\ opened'[t] = opened[t] /\ localLog'[t] = localLog[t]
  /\ markerVersion'[t] = markerVersion[t] /\ draft'[t] = draft[t]
  /\ committed'[t] = committed[t] /\ scanned'[t] = scanned[t]
  /\ missed'[t] = missed[t] /\ readAt'[t] = readAt[t]
  /\ \A L \in {{"begin", "open"}, {"claim"}, {"repair"}, Repairs, Validated} :
       pc'[t] \in L => pc[t] \in L

LEMMA QuietKeeps ==
  ASSUME Types, Types', LogStep, NEW t \in Txns, TxnInv(t), Quiet(t)
  PROVE  TxnInv(t)'
<1>0. /\ pc'[t] \in {"begin", "open"} => pc[t] \in {"begin", "open"}
      /\ pc'[t] = "claim" => pc[t] = "claim"
      /\ pc'[t] = "repair" => pc[t] = "repair"
      /\ pc'[t] \in Repairs => pc[t] \in Repairs
      /\ pc'[t] \in Validated => pc[t] \in Validated
  BY DEF Quiet
<1> USE DEF Quiet
<1>1. OpenedBefore(t)'
  BY <1>0 DEF TxnInv, OpenedBefore
<1>2. OpenTables(t)' = OpenTables(t) /\ Changed(t)' = Changed(t)
  BY DEF OpenTables, Changed
<1>3. \A x \in Tables : Claims(t, x)' = Claims(t, x)
  BY <1>2 DEF Claims, ToClaim
<1>4. \A x \in Tables, v \in Int : Complete(x, v) => Complete(x, v)'
  BY CompleteIsFinal
<1>5. KnownExists(t)'
  <2> SUFFICES ASSUME NEW x \in Tables
               PROVE  /\ Complete(x, localLog[t][x])'
                      /\ Complete(x, markerVersion[t][x] - 1)'
                      /\ x \in committed'[t] => Exists(x, markerVersion[t][x])'
                      /\ pc'[t] \in Repairs /\ Claims(t, x)' =>
                           Complete(x, scanned[t])' /\ markerVersion[t][x] <= scanned[t]
    BY DEF KnownExists
  <2>1. localLog[t][x] \in Int /\ markerVersion[t][x] \in Int /\ scanned[t] \in Int
    BY DEF Types, Entries, Unlisted
  <2> QED
    BY <1>0, <1>3, <1>4, <2>1, LogIsFinal DEF TxnInv, KnownExists
<1>6. DraftExists(t)'
  <2>1. \A x \in Tables : draft[t][x] \in Int
    BY DEF Types, Entries, Unlisted
  <2> QED
    BY <1>0, <1>2, <1>4, <2>1 DEF TxnInv, DraftExists
<1>7. MissesNoUpdate(t)'
  <2> SUFFICES ASSUME NEW x \in Tables, pc'[t] \in Validated, x \in Changed(t), Updates(t, x),
                      NEW v \in Joined(t, x)
               PROVE  ~log'[x][v].update
    BY <1>2 DEF MissesNoUpdate, Joined, Updates
  <2>1. v \in 0 .. markerVersion[t][x] - 1
    BY DEF Joined, Types
  <2>2. Exists(x, v)
    BY <2>1 DEF TxnInv, KnownExists, Complete
  <2>3. log'[x][v] = log[x][v]
    BY <2>1, <2>2, LogIsFinal
  <2> QED
    BY <1>0, <2>3 DEF TxnInv, MissesNoUpdate
<1> QED
  BY <1>1, <1>5, <1>6, <1>7 DEF TxnInv

\* A client changes nothing that another one knows.
LEMMA OthersAreQuiet ==
  ASSUME Types, NEW u \in Txns, NEW t \in Txns \ {u},
         Step(u) \/ LockTimeout(u) \/ GlobalLogUnreadable(u) \/ ClaimFails(u) \/ Crash(u)
  PROVE  Quiet(t)
<1> USE DEF Quiet, Types
<1>1. CASE Begin(u)
  BY <1>1 DEF Begin
<1>2. CASE SkipForeignVersion(u)
  BY <1>2 DEF SkipForeignVersion
<1>3. CASE Open(u)
  BY <1>3 DEF Open
<1>4. CASE Locking(u) \/ LockTimeout(u)
  BY <1>4 DEF Locking, TakeLock, FindOwnLock, ObserveLock, FindLockStale,
              RereadLock, BreakLock, LockTimeout
<1>5. CASE Validate(u)
  BY <1>5 DEF Validate
<1>6. CASE CheckGlobalLog(u) \/ GlobalLogUnreadable(u)
  BY <1>6 DEF CheckGlobalLog, GlobalLogUnreadable
<1>7. CASE Claim(u)
  BY <1>7 DEF Claim
<1>8. CASE ClaimTaken(u) \/ ClaimFails(u) \/ Publish(u)
  BY <1>8 DEF ClaimTaken, ClaimFails, Publish
<1>9. CASE Scan(u)
  BY <1>9 DEF Scan
<1>10. CASE ReadEntry(u) \/ WriteEntry(u)
  BY <1>10 DEF ReadEntry, WriteEntry
<1>11. CASE JoinVersion(u)
  BY <1>11 DEF JoinVersion
<1>12. CASE Releasing(u) \/ Crash(u)
  BY <1>12 DEF Releasing, ReadOwnLock, Unlock, Crash
<1> QED
  BY <1>1, <1>2, <1>3, <1>4, <1>5, <1>6, <1>7, <1>8, <1>9, <1>10, <1>11, <1>12
  DEF Step, Opening, Committing, Repairing

\* Steps after which a transaction knows nothing new
Plain(t) == \/ Locking(t) \/ LockTimeout(t) \/ GlobalLogUnreadable(t)
            \/ ClaimTaken(t) \/ ClaimFails(t) \/ Publish(t)
            \/ Releasing(t) \/ Crash(t)

LEMMA PlainIsQuiet ==
  ASSUME Types, NEW t \in Txns, Plain(t)
  PROVE  Quiet(t)
<1> USE DEF Quiet, Types, Validated, Repairs
<1>1. CASE Locking(t) \/ LockTimeout(t)
  BY <1>1 DEF Locking, TakeLock, FindOwnLock, ObserveLock, FindLockStale,
              RereadLock, BreakLock, LockTimeout, SeesOtherLock
<1>2. CASE GlobalLogUnreadable(t) \/ ClaimTaken(t) \/ ClaimFails(t) \/ Publish(t)
  BY <1>2 DEF GlobalLogUnreadable, ClaimTaken, ClaimFails, Publish
<1>3. CASE Releasing(t) \/ Crash(t)
  <2>1. goal[t] \in {"committed", "aborted", "validate"}
    OBVIOUS
  <2> QED
    BY <1>3, <2>1 DEF Releasing, ReadOwnLock, Unlock, Crash
<1> QED
  BY <1>1, <1>2, <1>3 DEF Plain

\* A transaction may take the global log, or an empty one, for its snapshot.
LEMMA GlobalLogComplete ==
  ASSUME Types, ListedVersionsExist, NEW g \in {globalLog, NothingListed}, NEW x \in Tables
  PROVE  Complete(x, g[x]) /\ g[x] \in Int
BY DEF Types, ListedVersionsExist, Complete, NothingListed, Unlisted, Entries

LEMMA OpeningKeeps ==
  ASSUME IInv, Types', LogStep, NEW t \in Txns, Opening(t)
  PROVE  TxnInv(t)'
<1> USE DEF IInv, Repairs
<1>0. /\ OpenedBefore(t) /\ KnownExists(t)
      /\ log' = log
  BY DEF TxnInv, Opening, Begin, SkipForeignVersion, Open
<1>1. CASE Begin(t)
  <2>1. PICK g \in {globalLog, NothingListed} : localLog' = [localLog EXCEPT ![t] = g]
    BY <1>1 DEF Begin
  <2>2. /\ pc'[t] = "open" /\ localLog'[t] = g /\ opened' = opened
        /\ markerVersion' = markerVersion /\ committed' = committed
    BY <1>1, <2>1 DEF Begin, Types
  <2>3. OpenedBefore(t)'
    BY <1>0, <1>1, <2>2 DEF OpenedBefore, Begin
  <2>4. KnownExists(t)'
    BY <1>0, <2>2, GlobalLogComplete DEF KnownExists, Complete, Exists
  <2> QED
    BY <2>2, <2>3, <2>4 DEF TxnInv, DraftExists, MissesNoUpdate, Validated
<1>2. CASE SkipForeignVersion(t)
  <2> DEFINE y == NextTable(t)
  <2>1. y \in Tables
    BY <1>0, <1>2, OpenTablesAreTables DEF SkipForeignVersion
  <2>2. /\ pc' = pc /\ pc[t] = "open" /\ opened' = opened
        /\ localLog'[t] = [localLog[t] EXCEPT ![y] = @ + 1]
        /\ markerVersion' = markerVersion /\ committed' = committed
    BY <1>2, <2>1 DEF SkipForeignVersion, Types
  <2>3. localLog[t][y] \in Int /\ Exists(y, localLog[t][y] + 1)
    BY <1>2, <2>1 DEF SkipForeignVersion, SkipsForeign, Foreign, Types, Entries, Unlisted
  <2>4. Complete(y, localLog[t][y] + 1)
    BY <1>0, <2>1, <2>3 DEF KnownExists, Complete
  <2>5. \A x \in Tables : Complete(x, localLog'[t][x])
    BY <1>0, <2>1, <2>2, <2>4 DEF KnownExists, Types
  <2>6. KnownExists(t)'
    BY <1>0, <2>2, <2>5 DEF KnownExists, Complete, Exists
  <2> QED
    BY <1>0, <2>2, <2>6 DEF TxnInv, OpenedBefore, DraftExists, MissesNoUpdate, Validated
<1>3. CASE Open(t)
  <2> DEFINE y == NextTable(t)
  <2>1. y \in Tables
    BY <1>0, <1>3, OpenTablesAreTables DEF Open
  <2>2. PICK v \in Versions :
          /\ IF localLog[t][y] # Unlisted THEN v = localLog[t][y] ELSE IsHighest(y, v)
          /\ localLog' = [localLog EXCEPT ![t][y] = v]
          /\ markerVersion' = [markerVersion EXCEPT ![t][y] = v + 1]
    BY <1>3 DEF Open
  <2>3. v \in Nat /\ (v + 1) - 1 = v
    BY GlobalLogAssumption DEF Versions
  <2>4. Complete(y, v)
    BY <1>0, <2>1, <2>2 DEF KnownExists, LogInv, IsHighest
  <2>5. \A x \in Tables : Complete(x, localLog'[t][x]) /\ Complete(x, markerVersion'[t][x] - 1)
    BY <1>0, <2>1, <2>2, <2>3, <2>4 DEF KnownExists, Types
  <2>6. /\ committed' = committed /\ committed[t] = {}
        /\ opened'[t] = opened[t] + 1
        /\ pc'[t] = (IF opened[t] + 1 < Len(OpenOrder[t]) THEN "open"
                     ELSE IF t \in ReadOnly THEN "committed" ELSE "validate")
    BY <1>0, <1>3 DEF Open, OpenedBefore, Types
  <2>7. OpenedBefore(t)'
    BY <2>6 DEF OpenedBefore
  <2>8. KnownExists(t)'
    BY <1>0, <2>5, <2>6 DEF KnownExists, Complete, Exists
  <2> QED
    BY <2>6, <2>7, <2>8 DEF TxnInv, DraftExists, MissesNoUpdate, Validated
<1> QED
  BY <1>1, <1>2, <1>3 DEF Opening

LEMMA ValidateKeeps ==
  ASSUME IInv, NEW t \in Txns, Validate(t)
  PROVE  TxnInv(t)'
<1>1. /\ UNCHANGED <<log, opened, localLog, markerVersion, draft, committed, scanned, missed, readAt>>
      /\ pc[t] = "validate"
      /\ \/ pc'[t] = "aborted"
         \/ pc'[t] = "lock" /\ ~Conflict(t)
  BY DEF Validate, IInv, Types
<1>2. MissesNoUpdate(t)'
  <2>1. CASE pc'[t] = "aborted"
    BY <2>1 DEF MissesNoUpdate, Validated
  <2>2. CASE ~Conflict(t)
    BY <1>1, <2>2 DEF MissesNoUpdate, Conflict, WriteConflict, Changed, OpenTables,
                      Updates, Joined
  <2> QED
    BY <1>1, <2>1, <2>2
<1> QED
  BY <1>1, <1>2 DEF IInv, TxnInv, OpenedBefore, KnownExists, DraftExists, Complete, Exists,
                    Repairs

LEMMA CheckKeeps ==
  ASSUME IInv, NEW t \in Txns, CheckGlobalLog(t)
  PROVE  TxnInv(t)'
<1> USE DEF IInv
<1>1. /\ UNCHANGED <<log, opened, localLog, markerVersion, committed, scanned, missed, readAt>>
      /\ pc[t] = "check" /\ pc'[t] \in {"claim", "release"}
  BY DEF CheckGlobalLog, Types
<1>2. TxnInv(t) /\ KnownExists(t)
  BY DEF TxnInv
<1>3. MissesNoUpdate(t)'
  BY <1>1, <1>2 DEF TxnInv, MissesNoUpdate, Validated, Changed, OpenTables, Updates, Joined
<1>4. DraftExists(t)'
  <2> SUFFICES ASSUME pc'[t] = "claim", NEW x \in Tables
               PROVE  IF x \in Changed(t) THEN draft'[t][x] = markerVersion[t][x]
                                          ELSE Complete(x, draft'[t][x])
    BY <1>1 DEF DraftExists, Changed, OpenTables, Complete, Exists
  <2>1. PICK g \in {globalLog, NothingListed} : draft'[t] = Draft(t, g)
    BY DEF CheckGlobalLog, Types
  <2>2. Complete(x, g[x]) /\ Complete(x, ReadVersion(t, x))
    BY <1>2, GlobalLogComplete DEF KnownExists, ReadVersion
  <2> QED
    BY <2>1, <2>2 DEF Draft, Larger
<1> QED
  BY <1>1, <1>2, <1>3, <1>4 DEF TxnInv, OpenedBefore, KnownExists, Complete, Exists, Repairs

LEMMA ClaimKeeps ==
  ASSUME IInv, Types', LogStep, NEW t \in Txns, Claim(t)
  PROVE  TxnInv(t)'
<1> USE DEF IInv
<1>1. PICK y \in Tables : /\ Claims(t, y) /\ Free(t, y) /\ WriteClaim(t, y)
                          /\ committed' = [committed EXCEPT ![t] = @ \cup {y}]
  BY DEF Claim
<1>2. /\ UNCHANGED <<pc, opened, localLog, markerVersion, draft, scanned, missed, readAt>>
      /\ pc[t] = "claim"
      /\ committed'[t] = committed[t] \cup {y}
  BY <1>1 DEF Claim, Types
<1>3. Exists(y, markerVersion[t][y])'
  <2>1. log'[y][markerVersion[t][y]].by = t
    BY <1>1 DEF Free, WriteClaim, Commit, Types
  <2> QED
    BY <1>1, <1>2, <2>1, GlobalLogAssumption DEF Exists, Free
<1>4. TxnInv(t) /\ \A x \in Tables, v \in Int : Complete(x, v) => Complete(x, v)'
  BY CompleteIsFinal
<1>5. KnownExists(t)'
  <2> SUFFICES ASSUME NEW x \in Tables
               PROVE  /\ Complete(x, localLog[t][x])'
                      /\ Complete(x, markerVersion[t][x] - 1)'
                      /\ x \in committed'[t] => Exists(x, markerVersion[t][x])'
    BY <1>2 DEF KnownExists, Repairs
  <2>1. localLog[t][x] \in Int /\ markerVersion[t][x] \in Int
    BY DEF Types, Entries, Unlisted
  <2> QED
    BY <1>2, <1>3, <1>4, <2>1, LogIsFinal DEF TxnInv, KnownExists
<1>6. Changed(t)' = Changed(t)
  BY <1>2 DEF Changed, OpenTables
<1>7. DraftExists(t)'
  <2>1. \A x \in Tables : draft[t][x] \in Int
    BY DEF Types, Entries, Unlisted
  <2> QED
    BY <1>2, <1>4, <1>6, <2>1 DEF TxnInv, DraftExists
<1>8. MissesNoUpdate(t)'
  <2> SUFFICES ASSUME NEW x \in Tables, x \in Changed(t), Updates(t, x), NEW v \in Joined(t, x)
               PROVE  ~log'[x][v].update
    BY <1>2, <1>6 DEF MissesNoUpdate, Joined, Updates
  <2>1. v \in 0 .. markerVersion[t][x] - 1
    BY DEF Joined, Types
  <2>2. Exists(x, v)
    BY <1>4, <2>1 DEF TxnInv, KnownExists, Complete
  <2>3. log'[x][v] = log[x][v]
    BY <2>1, <2>2, LogIsFinal
  <2> QED
    BY <1>2, <1>4, <2>3 DEF TxnInv, MissesNoUpdate, Validated
<1> QED
  BY <1>2, <1>4, <1>5, <1>7, <1>8 DEF TxnInv, OpenedBefore

\* A version that the repair found joins the snapshot, or is passed.
LEMMA JoinKeeps ==
  ASSUME IInv, NEW t \in Txns, JoinVersion(t)
  PROVE  TxnInv(t)'
<1> USE DEF IInv
<1>1. PICK y \in Tables :
        /\ Claims(t, y)
        /\ markerVersion'[t] = [markerVersion[t] EXCEPT ![y] = @ + 1]
        /\ \/ localLog'[t] = [localLog[t] EXCEPT ![y] = markerVersion[t][y]]
           \/ localLog'[t] = localLog[t]
        /\ \/ pc'[t] = "join" /\ markerVersion[t][y] < scanned[t]
           \/ pc'[t] = "release"
  BY DEF JoinVersion, Types
<1>2. pc[t] = "join" /\ UNCHANGED <<log, opened, committed, scanned>>
  BY DEF JoinVersion
<1>3. KnownExists(t) /\ y \notin committed[t]
  BY <1>1 DEF TxnInv, Claims, ToClaim
<1>4. /\ Complete(y, scanned[t]) /\ markerVersion[t][y] <= scanned[t]
      /\ scanned[t] \in Nat /\ markerVersion[t][y] \in Nat
  BY <1>1, <1>2, <1>3 DEF KnownExists, Repairs, Types
<1>5. Complete(y, markerVersion[t][y])
  BY <1>4 DEF Complete
<1>6. \A x \in Tables :
        /\ Complete(x, localLog'[t][x])
        /\ Complete(x, markerVersion'[t][x] - 1)
        /\ x \in committed[t] => Exists(x, markerVersion'[t][x])
  BY <1>1, <1>3, <1>4, <1>5 DEF KnownExists, Types
<1>7. \A x \in Tables : Claims(t, x)' => x = y
  <2>1. \A x \in Tables : Claims(t, x)' => Claims(t, x)
    BY <1>2 DEF Claims, ToClaim, Changed, OpenTables
  <2> QED
    BY <1>1, <2>1, ClaimsOne
<1>8. pc'[t] \in Repairs => markerVersion'[t][y] <= scanned[t]
  BY <1>1, <1>4 DEF Repairs, Types
<1>9. KnownExists(t)'
  BY <1>2, <1>4, <1>6, <1>7, <1>8 DEF KnownExists, Complete, Exists
<1> QED
  BY <1>1, <1>9 DEF TxnInv, OpenedBefore, DraftExists, MissesNoUpdate, Validated

LEMMA RepairingKeeps ==
  ASSUME IInv, Types', NEW t \in Txns, Repairing(t)
  PROVE  TxnInv(t)'
<1> USE DEF IInv
<1>0. KnownExists(t) /\ UNCHANGED <<log, opened, committed>>
  BY DEF TxnInv, Repairing, Scan, ReadEntry, WriteEntry, JoinVersion
<1>1. CASE Scan(t)
  <2>1. PICK y \in Tables, v \in Versions :
          /\ Claims(t, y)
          /\ v >= markerVersion[t][y] - 1
          /\ Prefix(y, markerVersion[t][y], v)
          /\ \/ pc'[t] = "release"
             \/ pc'[t] = "advance" /\ scanned'[t] = v /\ ~(v < markerVersion[t][y])
    BY <1>1 DEF Scan, Types
  <2>2. Complete(y, v)
    <3>1. v \in Nat /\ markerVersion[t][y] \in Nat
      BY GlobalLogAssumption DEF Versions, Types
    <3> QED
      BY <1>0, <2>1, <3>1 DEF KnownExists, Complete, Prefix
  <2>3. \A x \in Tables : Claims(t, x)' => x = y
    <3>1. \A x \in Tables : Claims(t, x)' => Claims(t, x)
      BY <1>0 DEF Claims, ToClaim, Changed, OpenTables
    <3> QED
      BY <2>1, <3>1, ClaimsOne
  <2>4. KnownExists(t)'
    <3>1. UNCHANGED <<localLog, markerVersion>>
      BY <1>1 DEF Scan
    <3>2. v \in Nat /\ markerVersion[t][y] \in Nat
      BY GlobalLogAssumption DEF Versions, Types
    <3> QED
      BY <1>0, <2>1, <2>2, <2>3, <3>1, <3>2 DEF KnownExists, Complete, Exists, Repairs
  <2> QED
    BY <2>1, <2>4 DEF TxnInv, OpenedBefore, DraftExists, MissesNoUpdate, Validated
<1>2. CASE ReadEntry(t)
  <2>1. PICK g \in {globalLog, NothingListed}, y \in Tables :
          /\ Claims(t, y)
          /\ IF g[y] >= scanned[t]
             THEN Goto(t, "join") /\ UNCHANGED draft
             ELSE /\ draft' = [draft EXCEPT ![t] = [g EXCEPT ![y] = scanned[t]]]
                  /\ Goto(t, "repair")
    BY <1>2 DEF ReadEntry
  <2>2. /\ pc[t] = "advance"
        /\ \/ pc'[t] = "join"
           \/ pc'[t] = "repair" /\ draft'[t] = [g EXCEPT ![y] = scanned[t]]
        /\ UNCHANGED <<localLog, markerVersion, scanned>>
    BY <1>2, <2>1 DEF ReadEntry, Types
  <2>3. Complete(y, scanned[t])
    BY <1>0, <2>1, <2>2 DEF KnownExists, Repairs
  <2>4. ASSUME pc'[t] = "repair", NEW x \in Tables
        PROVE  Complete(x, draft'[t][x])
    <3>1. g \in [Tables -> Entries]
      BY GlobalLogTypes DEF Types
    <3>2. draft'[t][x] = IF x = y THEN scanned[t] ELSE g[x]
      BY <2>2, <2>4, <3>1
    <3>3. Complete(x, g[x])
      BY GlobalLogComplete
    <3> QED
      BY <2>3, <3>2, <3>3
  <2>5. DraftExists(t)'
    BY <1>0, <2>2, <2>4 DEF DraftExists, Complete, Exists
  <2>6. KnownExists(t)'
    <3>1. \A x \in Tables : Claims(t, x)' => Claims(t, x)
      BY <1>0 DEF Claims, ToClaim, Changed, OpenTables
    <3> QED
      BY <1>0, <2>2, <3>1 DEF KnownExists, Complete, Exists, Repairs
  <2> QED
    BY <2>2, <2>5, <2>6 DEF TxnInv, OpenedBefore, MissesNoUpdate, Validated
<1>3. CASE WriteEntry(t)
  <2>1. /\ pc[t] = "repair" /\ pc'[t] \in {"join", "release"}
        /\ UNCHANGED <<localLog, markerVersion, scanned>>
    BY <1>3 DEF WriteEntry, Types
  <2>2. KnownExists(t)'
    <3>1. \A x \in Tables : Claims(t, x)' => Claims(t, x)
      BY <1>0 DEF Claims, ToClaim, Changed, OpenTables
    <3> QED
      BY <1>0, <2>1, <3>1 DEF KnownExists, Complete, Exists, Repairs
  <2> QED
    BY <2>1, <2>2 DEF TxnInv, OpenedBefore, DraftExists, MissesNoUpdate, Validated
<1>4. CASE JoinVersion(t)
  BY <1>4, JoinKeeps
<1> QED
  BY <1>1, <1>2, <1>3, <1>4 DEF Repairing

-----------------------------------------------------------------------------
(* What the global log lists exists *)

LEMMA UnchangedLists ==
  ASSUME IInv, LogStep, globalLog' = globalLog
  PROVE  ListedVersionsExist'
<1> SUFFICES ASSUME NEW x \in Tables, NEW v \in 0 .. globalLog[x]
             PROVE  Exists(x, v)'
  BY DEF ListedVersionsExist
<1>1. Exists(x, v)
  BY DEF IInv, ListedVersionsExist
<1> QED
  BY <1>1, LogIsFinal DEF IInv

LEMMA DraftLists ==
  ASSUME IInv, log' = log, NEW t \in Txns, globalLog' = draft[t],
         \A x \in Tables : Complete(x, draft[t][x])
  PROVE  ListedVersionsExist'
BY DEF ListedVersionsExist, Complete, Exists

LEMMA PublishLists ==
  ASSUME IInv, LogStep, NEW t \in Txns, Publish(t)
  PROVE  ListedVersionsExist'
<1>1. CASE globalLog' = globalLog
  BY <1>1, UnchangedLists
<1>2. CASE globalLog' = draft[t]
  <2>1. TxnInv(t) /\ pc[t] = "claim" /\ log' = log
    BY DEF IInv, Publish
  <2>2. \A x \in Tables : x \in Changed(t) => x \in committed[t]
    BY DEF Publish, ToClaim
  <2>3. ASSUME NEW x \in Tables, x \in Changed(t)
        PROVE  Complete(x, draft[t][x])
    <3>1. Complete(x, markerVersion[t][x] - 1) /\ Exists(x, markerVersion[t][x])
      BY <2>1, <2>2, <2>3 DEF TxnInv, KnownExists
    <3>2. markerVersion[t][x] \in Nat /\ draft[t][x] = markerVersion[t][x]
      BY <2>1, <2>3 DEF TxnInv, DraftExists, IInv, Types
    <3> QED
      BY <3>1, <3>2 DEF Complete
  <2>4. \A x \in Tables : Complete(x, draft[t][x])
    BY <2>1, <2>3 DEF TxnInv, DraftExists
  <2> QED
    BY <1>2, <2>1, <2>4, DraftLists
<1> QED
  BY <1>1, <1>2 DEF Publish

LEMMA ListedStep ==
  ASSUME IInv, LogStep, [Next]_vars
  PROVE  ListedVersionsExist'
<1>1. CASE UNCHANGED vars
  BY <1>1, UnchangedLists DEF vars
<1>2. ASSUME NEW t \in Txns,
             Step(t) \/ LockTimeout(t) \/ GlobalLogUnreadable(t) \/ ClaimFails(t) \/ Crash(t)
      PROVE  ListedVersionsExist'
  <2>1. CASE Publish(t)
    BY <2>1, PublishLists
  <2>2. CASE WriteEntry(t)
    <3>1. \A x \in Tables : Complete(x, draft[t][x])
      BY <2>2 DEF IInv, TxnInv, DraftExists, WriteEntry
    <3> QED
      BY <2>2, <3>1, DraftLists, UnchangedLists DEF WriteEntry
  <2>3. CASE Opening(t)
    BY <2>3, UnchangedLists DEF Opening, Begin, SkipForeignVersion, Open
  <2>4. CASE Locking(t) \/ LockTimeout(t)
    BY <2>4, UnchangedLists
    DEF Locking, TakeLock, FindOwnLock, ObserveLock, FindLockStale,
        RereadLock, BreakLock, LockTimeout
  <2>5. CASE Validate(t) \/ CheckGlobalLog(t) \/ Claim(t) \/ ClaimTaken(t)
             \/ GlobalLogUnreadable(t) \/ ClaimFails(t)
    BY <2>5, UnchangedLists
    DEF Validate, CheckGlobalLog, Claim, ClaimTaken, GlobalLogUnreadable, ClaimFails
  <2>6. CASE Scan(t) \/ ReadEntry(t) \/ JoinVersion(t) \/ Releasing(t) \/ Crash(t)
    BY <2>6, UnchangedLists
    DEF Scan, ReadEntry, JoinVersion, Releasing, ReadOwnLock, Unlock, Crash
  <2> QED
    BY <1>2, <2>1, <2>2, <2>3, <2>4, <2>5, <2>6 DEF Step, Committing, Repairing
<1>3. ASSUME NEW x \in Tables, ForeignCommit(x)
      PROVE  ListedVersionsExist'
  BY <1>3, UnchangedLists DEF ForeignCommit
<1> QED
  BY <1>1, <1>2, <1>3 DEF Next, AllEnded

-----------------------------------------------------------------------------
(* The theorems *)

LEMMA InitInv == Init => IInv
<1> SUFFICES ASSUME Init
             PROVE  IInv
  OBVIOUS
<1>1. Types
  BY InitTypes
<1>2. \A x \in Tables, v \in Versions :
        log[x][v] = IF v = 0 THEN Commit(Creator, FALSE, 0) ELSE Absent
  BY DEF Init
<1>3. \A x \in Tables, v \in Versions : (Exists(x, v) <=> v = 0) /\ ~log[x][v].update
  BY <1>2, GlobalLogAssumption DEF Exists, Commit, Absent
<1>4. 0 \in Versions
  BY GlobalLogAssumption DEF Versions
<1>5. \A x \in Tables : Complete(x, 0) /\ Complete(x, Unlisted)
  BY <1>3, <1>4 DEF Complete, Unlisted
<1>6. LogInv
  BY <1>3, <1>5 DEF LogInv
<1>7. ASSUME NEW t \in Txns
      PROVE  TxnInv(t)
  <2>1. opened[t] < Len(OpenOrder[t])
    BY GlobalLogAssumption DEF Init
  <2>2. KnownExists(t)
    BY <1>5 DEF Init, KnownExists, NothingListed, Unlisted, Repairs
  <2> QED
    BY <2>1, <2>2 DEF Init, TxnInv, OpenedBefore, DraftExists, MissesNoUpdate, Validated
<1>8. ListedVersionsExist
  <2>1. \A x \in Tables : globalLog[x] = 0 \/ globalLog[x] = Unlisted
    BY DEF Init
  <2> QED
    BY <1>5, <2>1 DEF ListedVersionsExist, Complete
<1>9. NoLostUpdate
  BY <1>3 DEF NoLostUpdate
<1> QED
  BY <1>1, <1>6, <1>7, <1>8, <1>9 DEF IInv

LEMMA StepInv == IInv /\ [Next]_vars => IInv'
<1> SUFFICES ASSUME IInv, [Next]_vars
             PROVE  IInv'
  OBVIOUS
<1>1. LogStep
  BY NextIsLogStep
<1>2. Types'
  BY TypesStep DEF IInv, TxnInv
<1>3. LogInv' /\ NoLostUpdate'
  BY <1>1, LogInvStep, NoLostUpdateStep, MissedStep DEF IInv
<1>4. ListedVersionsExist'
  BY <1>1, ListedStep
<1>5. ASSUME NEW t \in Txns, Quiet(t)
      PROVE  TxnInv(t)'
  BY <1>1, <1>2, <1>5, QuietKeeps DEF IInv
<1>6. ASSUME NEW t \in Txns
      PROVE  TxnInv(t)'
  <2>1. CASE UNCHANGED vars
    <3>1. Quiet(t)
      BY <2>1 DEF vars, Quiet
    <3> QED
      BY <1>5, <3>1
  <2>2. ASSUME NEW u \in Txns,
               Step(u) \/ LockTimeout(u) \/ GlobalLogUnreadable(u) \/ ClaimFails(u) \/ Crash(u)
        PROVE  TxnInv(t)'
    <3>1. CASE u # t
      BY <1>5, <2>2, <3>1, OthersAreQuiet DEF IInv
    <3>2. CASE u = t
      <4>1. CASE Plain(t)
        BY <1>5, <4>1, PlainIsQuiet DEF IInv
      <4>2. CASE Opening(t)
        BY <1>1, <1>2, <4>2, OpeningKeeps
      <4>3. CASE Validate(t)
        BY <4>3, ValidateKeeps
      <4>4. CASE CheckGlobalLog(t)
        BY <4>4, CheckKeeps
      <4>5. CASE Claim(t)
        BY <1>1, <1>2, <4>5, ClaimKeeps
      <4>6. CASE Repairing(t)
        BY <1>2, <4>6, RepairingKeeps
      <4> QED
        BY <2>2, <3>2, <4>1, <4>2, <4>3, <4>4, <4>5, <4>6 DEF Plain, Step, Committing
    <3> QED
      BY <3>1, <3>2
  <2>3. ASSUME NEW x \in Tables, ForeignCommit(x)
        PROVE  TxnInv(t)'
    <3>1. Quiet(t)
      BY <2>3 DEF ForeignCommit, Quiet
    <3> QED
      BY <1>5, <3>1
  <2> QED
    BY <2>1, <2>2, <2>3 DEF Next, AllEnded
<1> QED
  BY <1>2, <1>3, <1>4, <1>6 DEF IInv

\* The inductive invariant holds.
THEOREM Inductive == Spec => []IInv
<1> QED
  BY InitInv, StepInv, PTL DEF Spec

\* Type correctness; in particular no version is listed that a table cannot
\* have, though markerVersion may lie above.
THEOREM TypeCorrect == Spec => []TypeOK
<1>1. IInv => TypeOK
  <2> SUFFICES ASSUME IInv
               PROVE  TypeOK
    OBVIOUS
  <2>1. \A x \in Tables : globalLog[x] \in {Unlisted} \cup Versions
    <3> SUFFICES ASSUME NEW x \in Tables, globalLog[x] \in Nat
                 PROVE  globalLog[x] \in Versions
      BY DEF IInv, Types, Entries
    <3>1. Exists(x, globalLog[x])
      BY DEF IInv, ListedVersionsExist
    <3> QED
      BY <3>1 DEF Exists
  <2>2. globalLog \in [Tables -> {Unlisted} \cup Versions]
    BY <2>1 DEF IInv, Types
  <2> QED
    BY <2>2 DEF IInv, Types, TypeOK, VersionSets
<1> QED
  BY <1>1, Inductive, PTL

\* Every version the global log lists, and every version below, is in the log
\* of its table: create_global_snapshot and update_global_entry never run
\* ahead of the commits, even if the lock was broken under their feet.
THEOREM SnapshotsAreReadable == Spec => []ListedVersionsExist
<1>1. IInv => ListedVersionsExist
  BY DEF IInv
<1> QED
  BY <1>1, Inductive, PTL

\* A commit that replaces a file overlooks no other replacement of it, but for
\* versions that its own client passed in a repair because their only read
\* failed (wait_for_marker, which repair_global_log ignores): otherwise the
\* put-if-absent of write_commit and the conflicts of repaired versions
\* suffice, with or without the lock, under either isolation.
THEOREM UpdatesAreNotLost == Spec => []NoLostUpdate
<1>1. IInv => NoLostUpdate
  BY DEF IInv
<1> QED
  BY <1>1, Inductive, PTL

-----------------------------------------------------------------------------
(* The lock *)

\* The client that put the token has ended, or gone on to another one.
Dead(token) ==
  /\ token.by \in Txns /\ token.n <= calls[token.by]
  /\ pc[token.by] \in Ended \/ token.n < calls[token.by]

\* Who works under the lock has it; who is about to break a lock found a dead
\* one.
LockIsKnown == lock # NoLock => lock.by \in Txns /\ lock.n <= calls[lock.by]
HoldsLock(t) == pc[t] \in Critical \cup {"unlock"} => lock = Token(t)
FoundDead(t) == pc[t] = "reread" => Dead(observed[t])
BreaksDead(t) == pc[t] = "break" => Dead(lock)
LockInv == LockIsKnown /\ \A t \in Txns : HoldsLock(t) /\ FoundDead(t) /\ BreaksDead(t)

\* Nobody reads the lock between another client's last look and its delete.
OneBreaker == \A t, u \in Txns : pc[t] = "break" /\ pc[u] = "break" => t = u

\* A lock is left behind by clients that crash only, and then there is one
\* client at most that commits and may find it.
BreakersAreAlone ==
  /\ "unlock" \notin FaultKinds
  /\ \A c \in MayCrash : \A t, u \in Txns \ (ReadOnly \cup {c}) : t = u
NeverLeft ==
  lock # NoLock =>
    /\ lock = Token(lock.by)
    /\ pc[lock.by] \in Critical \cup {"lock", "release", "unlock", "crashed"}
CrashesMay(t) == pc[t] = "crashed" => t \in MayCrash
OnlyReads(t) ==
  t \in ReadOnly => /\ pc[t] \in {"begin", "open", "committed", "crashed"}
                    /\ \A x \in Tables : CommitsOf(t, x) = {}
LeftInv == NeverLeft /\ \A t \in Txns : CrashesMay(t) /\ OnlyReads(t)

\* Steps that have to do with the lock, of t; all others leave it alone.
LockStep(t) ==
  \/ TakeLock(t) \/ FindOwnLock(t) \/ FindLockStale(t) \/ RereadLock(t)
  \/ BreakLock(t) \/ Validate(t) \/ ReadOwnLock(t) \/ Unlock(t)
\* In the other steps t stays at work, or goes on to a place where it neither
\* works under the lock nor is about to break it.
OffLock(t) ==
  /\ UNCHANGED <<lock, calls>>
  /\ \A u \in Txns \ {t} : pc'[u] = pc[u] /\ observed'[u] = observed[u]
  /\ pc'[t] \in Critical \cup {"unlock"} => pc[t] \in Critical \cup {"unlock"}
  /\ pc'[t] \notin {"reread", "break"}
  /\ pc[t] \notin Ended

\* The steps of a client that are not about the lock
LEMMA OtherSteps ==
  ASSUME Types, NEW t \in Txns,
         Step(t) \/ LockTimeout(t) \/ GlobalLogUnreadable(t) \/ ClaimFails(t) \/ Crash(t)
  PROVE  LockStep(t) \/ OffLock(t)
<1> USE DEF LockStep, OffLock, Types, Critical
<1>1. CASE Begin(t)
  BY <1>1 DEF Begin
<1>2. CASE SkipForeignVersion(t)
  BY <1>2 DEF SkipForeignVersion
<1>3. CASE Open(t)
  BY <1>3 DEF Open
<1>4. CASE ObserveLock(t) \/ LockTimeout(t)
  BY <1>4 DEF ObserveLock, LockTimeout, SeesOtherLock
<1>5. CASE CheckGlobalLog(t) \/ GlobalLogUnreadable(t)
  BY <1>5 DEF CheckGlobalLog, GlobalLogUnreadable
<1>6. CASE Claim(t)
  BY <1>6 DEF Claim
<1>7. CASE ClaimTaken(t) \/ ClaimFails(t) \/ Publish(t)
  BY <1>7 DEF ClaimTaken, ClaimFails, Publish
<1>8. CASE Scan(t)
  BY <1>8 DEF Scan
<1>9. CASE ReadEntry(t) \/ WriteEntry(t)
  BY <1>9 DEF ReadEntry, WriteEntry
<1>10. CASE JoinVersion(t)
  BY <1>10 DEF JoinVersion
<1>11. CASE Crash(t)
  BY <1>11 DEF Crash
<1> QED
  BY <1>1, <1>2, <1>3, <1>4, <1>5, <1>6, <1>7, <1>8, <1>9, <1>10, <1>11
  DEF Step, Opening, Locking, Committing, Repairing, Releasing

\* A dead token stays dead: nobody uses a token again.
LEMMA DeadStaysDead ==
  ASSUME Types, NEW k \in Tokens, Dead(k),
         calls' \in [Txns -> Nat],
         \A u \in Txns : calls'[u] >= calls[u] /\ (pc[u] \in Ended => pc'[u] \in Ended)
  PROVE  Dead(k)'
BY DEF Types, Tokens, Dead

\* The lock, kept by every step as long as one client at most is about to
\* break it.
LEMMA LockStepInv ==
  ASSUME IInv, IInv', LockInv, OneBreaker, ~SlowHolders, NEW t \in Txns,
         Step(t) \/ LockTimeout(t) \/ GlobalLogUnreadable(t) \/ ClaimFails(t) \/ Crash(t)
  PROVE  LockInv'
<1> USE DEF LockInv
<1>a. Types /\ Types'
  BY DEF IInv
<1>b. /\ NoLock \in Tokens /\ ~(NoLock.by \in Txns)
      /\ \A u \in Txns : Token(u).by = u /\ Token(u).n = calls[u]
  BY <1>a, TokenTypes, GlobalLogAssumption DEF NoLock, Token
<1>c. \A u \in Txns, k \in Tokens : k.by = u /\ k.n = calls[u] => k = Token(u)
  BY DEF Tokens, Token
<1>d. \A k \in Tokens : Dead(k) => k # NoLock
  BY <1>b DEF Dead
<1>1. CASE OffLock(t)
  <2>1. \A u \in Txns : Token(u)' = Token(u)
    BY <1>1 DEF OffLock, Token
  <2>2. \A k \in Tokens : Dead(k) => Dead(k)'
    <3>1. calls' \in [Txns -> Nat] /\ \A u \in Txns : calls'[u] >= calls[u] /\ (pc[u] \in Ended => pc'[u] \in Ended)
      BY <1>1, <1>a DEF OffLock, Types
    <3> QED BY <1>a, <3>1, DeadStaysDead
  <2> QED BY <1>1, <1>a, <2>1, <2>2 DEF OffLock, LockIsKnown, HoldsLock, FoundDead, BreaksDead, Types
<1>2. ASSUME UNCHANGED calls,
             \A u \in Txns \ {t} : pc'[u] = pc[u] /\ observed'[u] = observed[u],
             pc[t] \notin Ended
      PROVE  /\ \A u \in Txns : Token(u)' = Token(u)
             /\ \A k \in Tokens : Dead(k) => Dead(k)'
             /\ \A u \in Txns \ {t} : FoundDead(u)'
             /\ \A u \in Txns \ {t} : lock' = lock => HoldsLock(u)' /\ BreaksDead(u)'
  <2>1. \A u \in Txns : Token(u)' = Token(u)
    BY <1>2 DEF Token
  <2>2. \A k \in Tokens : Dead(k) => Dead(k)'
    <3>1. calls' \in [Txns -> Nat] /\ \A u \in Txns : calls'[u] >= calls[u] /\ (pc[u] \in Ended => pc'[u] \in Ended)
      BY <1>2, <1>a DEF Types
    <3> QED BY <1>a, <3>1, DeadStaysDead
  <2> QED BY <1>2, <1>a, <2>1, <2>2 DEF HoldsLock, FoundDead, BreaksDead, Types
<1>3. CASE TakeLock(t)
  <2>1. /\ UNCHANGED <<calls, observed>> /\ lock = NoLock /\ lock' = Token(t) /\ pc[t] = "lock"
        /\ pc'[t] \in {"lock", "check"} /\ \A u \in Txns \ {t} : pc'[u] = pc[u]
    BY <1>3, <1>a DEF TakeLock, Types
  <2>2. \A u \in Txns : pc[u] \notin Critical \cup {"unlock", "break"}
    BY <2>1, <1>b DEF HoldsLock, BreaksDead, Dead
  <2> QED BY <1>2, <1>a, <1>b, <2>1, <2>2 DEF LockIsKnown, HoldsLock, FoundDead, BreaksDead, Types, Critical
<1>4. CASE FindOwnLock(t)
  <2>1. /\ UNCHANGED <<calls, observed, lock>> /\ lock = Token(t) /\ pc[t] = "lock"
        /\ pc'[t] = "check" /\ \A u \in Txns \ {t} : pc'[u] = pc[u]
    BY <1>4, <1>a DEF FindOwnLock, Types
  <2> QED BY <1>2, <2>1 DEF LockIsKnown, HoldsLock, FoundDead, BreaksDead
<1>5. CASE FindLockStale(t)
  <2>1. /\ UNCHANGED <<calls, observed, lock>> /\ lock # NoLock /\ pc[t] = "lock"
        /\ lock = observed[t] /\ Abandoned(lock)
        /\ pc'[t] = "reread" /\ \A u \in Txns \ {t} : pc'[u] = pc[u]
    BY <1>5, <1>a DEF FindLockStale, SeesOtherLock, Stale, Types
  <2>2. Dead(lock)
    <3>1. lock \in Tokens /\ lock.by \in Txns /\ lock.n <= calls[lock.by] /\ lock.n \in Nat /\ calls[lock.by] \in Nat
      BY <1>a, <2>1 DEF LockIsKnown, Types, Tokens
    <3> QED BY <1>c, <2>1, <3>1 DEF Abandoned, Dead
  <2>3. Dead(observed[t])'
    BY <1>2, <1>a, <2>1, <2>2 DEF Types
  <2> QED BY <1>2, <2>1, <2>3 DEF LockIsKnown, HoldsLock, FoundDead, BreaksDead, Critical
<1>6. CASE RereadLock(t)
  <2>1. /\ UNCHANGED <<calls, lock>> /\ pc[t] = "reread"
        /\ pc'[t] = (IF lock = observed[t] THEN "break" ELSE "lock")
        /\ \A u \in Txns \ {t} : pc'[u] = pc[u] /\ observed'[u] = observed[u]
    BY <1>6, <1>a DEF RereadLock, Types
  <2>2. lock = observed[t] => Dead(lock)'
    BY <1>2, <1>a, <2>1 DEF FoundDead, Types
  <2> QED BY <1>2, <2>1, <2>2 DEF LockIsKnown, HoldsLock, FoundDead, BreaksDead, Critical
<1>7. CASE BreakLock(t)
  <2>1. /\ UNCHANGED <<calls, observed>> /\ lock' = NoLock /\ pc[t] = "break" /\ pc'[t] = "lock"
        /\ \A u \in Txns \ {t} : pc'[u] = pc[u]
    BY <1>7, <1>a DEF BreakLock, Types
  <2>2. Dead(lock)
    BY <2>1 DEF BreaksDead
  <2>3. \A u \in Txns : pc[u] \notin Critical \cup {"unlock"}
    <3> SUFFICES ASSUME NEW u \in Txns, lock = Token(u), pc[u] \in Critical \cup {"unlock"} PROVE FALSE
      BY DEF HoldsLock
    <3> QED BY <1>a, <1>b, <2>2 DEF Dead, Critical, Types
  <2>4. \A u \in Txns \ {t} : pc[u] # "break"
    BY <2>1 DEF OneBreaker
  <2> QED BY <1>2, <2>1, <2>3, <2>4 DEF LockIsKnown, HoldsLock, FoundDead, BreaksDead, Critical
<1>8. CASE Validate(t)
  <2>1. /\ UNCHANGED lock /\ pc[t] = "validate" /\ pc'[t] \in {"aborted", "lock"}
        /\ \A u \in Txns \ {t} : pc'[u] = pc[u] /\ observed'[u] = observed[u] /\ calls'[u] = calls[u]
        /\ calls'[t] >= calls[t]
    BY <1>8, <1>a DEF Validate, Types
  <2>c. calls' \in [Txns -> Nat] /\ \A u \in Txns : calls'[u] >= calls[u] /\ (pc[u] \in Ended => pc'[u] \in Ended)
    <3>1. \A u \in Txns : calls[u] \in Nat /\ calls'[u] \in Nat
      BY <1>a DEF Types
    <3>2. \A u \in Txns \ {t} : calls'[u] >= calls[u] /\ (pc[u] \in Ended => pc'[u] \in Ended)
      BY <2>1, <3>1
    <3> QED BY <1>a, <2>1, <3>2 DEF Types
  <2>2. \A k \in Tokens : Dead(k) => Dead(k)'
    BY <1>a, <2>c, DeadStaysDead
  <2>3. \A u \in Txns \ {t} : Token(u)' = Token(u)
    BY <2>1 DEF Token
  <2>4. LockIsKnown'
    <3> SUFFICES ASSUME lock # NoLock PROVE lock.by \in Txns /\ lock.n <= calls'[lock.by]
      BY <2>1 DEF LockIsKnown
    <3>1. lock.by \in Txns /\ lock.n <= calls[lock.by] /\ lock.n \in Nat
      BY <1>a DEF LockIsKnown, Types, Tokens
    <3>2. calls'[lock.by] >= calls[lock.by] /\ calls'[lock.by] \in Nat /\ calls[lock.by] \in Nat
      BY <1>a, <2>c, <3>1 DEF Types
    <3> QED BY <3>1, <3>2
  <2> QED BY <1>a, <2>1, <2>2, <2>3, <2>4 DEF HoldsLock, FoundDead, BreaksDead, Critical, Types
<1>9. CASE ReadOwnLock(t)
  <2>1. /\ UNCHANGED <<calls, observed, lock>> /\ pc[t] = "release"
        /\ pc'[t] = (IF lock = Token(t) THEN "unlock" ELSE goal[t])
        /\ \A u \in Txns \ {t} : pc'[u] = pc[u]
    BY <1>9, <1>a DEF ReadOwnLock, Types
  <2>2. goal[t] \in {"committed", "aborted", "validate"}
    BY <1>a DEF Types
  <2>3. pc'[t] \notin Critical \cup {"reread", "break"} /\ (pc'[t] = "unlock" => lock = Token(t))
    BY <2>1, <2>2 DEF Critical
  <2> QED BY <1>2, <2>1, <2>3 DEF LockIsKnown, HoldsLock, FoundDead, BreaksDead
<1>10. CASE Unlock(t)
  <2>1. /\ UNCHANGED <<calls, observed>> /\ pc[t] = "unlock" /\ pc'[t] = goal[t]
        /\ lock' \in {lock, NoLock}
        /\ \A u \in Txns \ {t} : pc'[u] = pc[u]
    BY <1>10, <1>a DEF Unlock, Types
  <2>2. goal[t] \in {"committed", "aborted", "validate"} /\ lock = Token(t)
    BY <1>a, <2>1 DEF Types, HoldsLock
  <2>3. \A u \in Txns \ {t} : pc[u] \notin Critical \cup {"unlock"}
    BY <1>b, <2>2 DEF HoldsLock
  <2>4. \A u \in Txns : pc[u] # "break"
    <3> SUFFICES ASSUME Dead(lock) PROVE FALSE
      BY DEF BreaksDead
    <3>1. lock.by = t /\ lock.n = calls[t] /\ calls[t] \in Nat
      BY <1>a, <1>b, <2>2 DEF Types
    <3> QED BY <2>1, <3>1 DEF Dead
  <2> QED BY <1>2, <2>1, <2>2, <2>3, <2>4 DEF LockIsKnown, HoldsLock, FoundDead, BreaksDead, Critical
<1> QED BY <1>a, <1>1, <1>3, <1>4, <1>5, <1>6, <1>7, <1>8, <1>9, <1>10, OtherSteps DEF LockStep

\* Other engines know no lock.
LEMMA LockInvNext ==
  ASSUME IInv, IInv', LockInv, OneBreaker, ~SlowHolders, [Next]_vars
  PROVE  LockInv'
<1>1. CASE UNCHANGED vars \/ \E x \in Tables : ForeignCommit(x)
  <2>1. UNCHANGED <<lock, calls, pc, observed>>
    BY <1>1 DEF vars, ForeignCommit
  <2> QED BY <2>1 DEF LockInv, LockIsKnown, HoldsLock, FoundDead, BreaksDead, Dead, Token
<1> QED BY <1>1, LockStepInv DEF Next, AllEnded

\* At first the lock is free.
LEMMA InitLockInv == Init => LockInv
<1> SUFFICES ASSUME Init PROVE LockInv
  OBVIOUS
<1>1. lock = NoLock /\ \A t \in Txns : pc[t] = "begin"
  BY DEF Init
<1> QED BY <1>1 DEF LockInv, LockIsKnown, HoldsLock, FoundDead, BreaksDead, Critical

\* As long as no client may hold the lock for longer than its lease, it keeps
\* clients apart, whoever crashes and whatever fails, unless two clients are
\* about to delete a stale lock at the same time.
THEOREM LockIsSafe ==
  ASSUME ~SlowHolders
  PROVE  Spec /\ []OneBreaker => []LockIsExclusive
<1>1. LockInv => LockIsExclusive
  <2> SUFFICES ASSUME LockInv, NEW t \in Txns, NEW u \in Txns, pc[t] \in Critical, pc[u] \in Critical
               PROVE  t = u
    BY DEF LockIsExclusive
  <2>1. Token(t) = Token(u)
    BY DEF LockInv, HoldsLock
  <2> QED BY <2>1 DEF Token
<1> QED BY <1>1, InitLockInv, LockInvNext, Inductive, PTL DEF Spec

-----------------------------------------------------------------------------
(* When one client at most is about to break a lock *)

\* A transaction writes commits of its own, while it claims versions.
LEMMA ClaimsItsOwn ==
  ASSUME Types, NEW t \in Txns,
         Step(t) \/ LockTimeout(t) \/ GlobalLogUnreadable(t) \/ ClaimFails(t) \/ Crash(t),
         NEW x \in Tables, NEW v \in Versions
  PROVE  log'[x][v] = log[x][v] \/ (pc[t] = "claim" /\ log'[x][v].by = t)
<1>1. CASE log' = log
  BY <1>1
<1>2. ASSUME NEW y \in Tables, WriteClaim(t, y), Free(t, y)
      PROVE  log'[x][v] = log[x][v] \/ log'[x][v].by = t
  BY <1>2 DEF WriteClaim, Free, Commit, Types
<1>3. CASE Claim(t)
  BY <1>2, <1>3 DEF Claim
<1>4. CASE ClaimFails(t)
  BY <1>1, <1>2, <1>4 DEF ClaimFails
<1> QED BY <1>1, <1>3, <1>4, LogSteps

\* The places of a transaction after a step
LEMMA StepsOn ==
  ASSUME IInv, NEW t \in Txns,
         Step(t) \/ LockTimeout(t) \/ GlobalLogUnreadable(t) \/ ClaimFails(t) \/ Crash(t)
  PROVE  /\ \A u \in Txns \ {t} : pc'[u] = pc[u]
         /\ pc'[t] = "crashed" => t \in MayCrash
         /\ t \in ReadOnly /\ pc[t] \in {"begin", "open", "committed", "crashed"} =>
              pc'[t] \in {"begin", "open", "committed", "crashed"}
<1> USE DEF Types
<1>a. Types
  BY DEF IInv
<1>1. CASE Begin(t) \/ SkipForeignVersion(t)
  BY <1>a, <1>1 DEF Begin, SkipForeignVersion
<1>2. CASE Open(t)
  BY <1>a, <1>2 DEF Open
<1>3. CASE Locking(t) \/ LockTimeout(t)
  BY <1>a, <1>3 DEF Locking, TakeLock, FindOwnLock, ObserveLock, FindLockStale,
              RereadLock, BreakLock, LockTimeout, SeesOtherLock
<1>4. CASE Validate(t) \/ CheckGlobalLog(t) \/ GlobalLogUnreadable(t)
  BY <1>a, <1>4 DEF Validate, CheckGlobalLog, GlobalLogUnreadable
<1>5. CASE Claim(t) \/ ClaimTaken(t) \/ ClaimFails(t) \/ Publish(t)
  BY <1>a, <1>5 DEF Claim, ClaimTaken, ClaimFails, Publish
<1>6. CASE Scan(t)
  BY <1>a, <1>6 DEF Scan
<1>7. CASE ReadEntry(t) \/ WriteEntry(t) \/ JoinVersion(t)
  BY <1>a, <1>7 DEF ReadEntry, WriteEntry, JoinVersion
<1>8. CASE Releasing(t) \/ Crash(t)
  <2>1. goal[t] \in {"committed", "aborted", "validate"}
    BY <1>a
  <2> QED BY <1>a, <1>8, <2>1 DEF Releasing, ReadOwnLock, Unlock, Crash
<1> QED
  BY <1>1, <1>2, <1>3, <1>4, <1>5, <1>6, <1>7, <1>8 DEF Step, Opening, Committing, Repairing

\* A transaction that only reads is at no other place and writes nothing; who
\* crashes was able to.
LEMMA PlacesStep ==
  ASSUME IInv, [Next]_vars, \A t \in Txns : CrashesMay(t) /\ OnlyReads(t)
  PROVE  \A t \in Txns : CrashesMay(t)' /\ OnlyReads(t)'
<1> SUFFICES ASSUME NEW u \in Txns PROVE CrashesMay(u)' /\ OnlyReads(u)'
  OBVIOUS
<1>1. CASE UNCHANGED vars
  BY <1>1 DEF vars, CrashesMay, OnlyReads, CommitsOf
<1>2. ASSUME NEW x \in Tables, ForeignCommit(x)
      PROVE  CrashesMay(u)' /\ OnlyReads(u)'
  <2>1. PICK v \in Versions, b \in BOOLEAN : log' = [log EXCEPT ![x][v + 1] = Commit(Engine, b, v)]
    BY <1>2 DEF ForeignCommit
  <2>2. pc' = pc /\ Engine # u
    BY <1>2, GlobalLogAssumption DEF ForeignCommit
  <2>3. \A y \in Tables : CommitsOf(u, y)' \subseteq CommitsOf(u, y)
    BY <2>1, <2>2 DEF CommitsOf, Commit, IInv, Types
  <2> QED BY <2>2, <2>3 DEF CrashesMay, OnlyReads
<1>3. ASSUME NEW t \in Txns,
             Step(t) \/ LockTimeout(t) \/ GlobalLogUnreadable(t) \/ ClaimFails(t) \/ Crash(t)
      PROVE  CrashesMay(u)' /\ OnlyReads(u)'
  <2>1. /\ \A w \in Txns \ {t} : pc'[w] = pc[w]
        /\ pc'[t] = "crashed" => t \in MayCrash
        /\ t \in ReadOnly /\ pc[t] \in {"begin", "open", "committed", "crashed"} =>
             pc'[t] \in {"begin", "open", "committed", "crashed"}
    BY <1>3, StepsOn
  <2>2. u # t \/ pc[t] # "claim" => \A y \in Tables : CommitsOf(u, y)' \subseteq CommitsOf(u, y)
    <3>1. \A y \in Tables, v \in Versions :
            log'[y][v] = log[y][v] \/ (pc[t] = "claim" /\ log'[y][v].by = t)
      BY <1>3, ClaimsItsOwn DEF IInv
    <3> QED BY <3>1 DEF CommitsOf
  <2> QED BY <2>1, <2>2 DEF CrashesMay, OnlyReads
<1> QED BY <1>1, <1>2, <1>3 DEF Next, AllEnded

\* Without errors when it is deleted, a lock is left by a crash only.
LEMMA NeverLeftStep ==
  ASSUME IInv, IInv', LockInv, NeverLeft, "unlock" \notin FaultKinds, NEW t \in Txns,
         Step(t) \/ LockTimeout(t) \/ GlobalLogUnreadable(t) \/ ClaimFails(t) \/ Crash(t)
  PROVE  NeverLeft'
<1>a. Types /\ Types'
  BY DEF IInv
<1>b. /\ ~(NoLock.by \in Txns)
      /\ \A u \in Txns : Token(u).by = u /\ Token(u) # NoLock
      /\ lock # NoLock => lock.by \in Txns
  BY GlobalLogAssumption DEF NoLock, Token, LockInv, LockIsKnown
<1> DEFINE Held == Critical \cup {"lock", "release", "unlock", "crashed"}
<1>c. ASSUME UNCHANGED <<lock, calls>>, \A u \in Txns \ {t} : pc'[u] = pc[u],
             lock = Token(t) => pc'[t] \in Held
      PROVE  NeverLeft'
  <2> SUFFICES ASSUME lock # NoLock PROVE lock = Token(lock.by)' /\ pc'[lock.by] \in Held
    BY <1>c DEF NeverLeft
  <2>1. lock.by \in Txns /\ lock = Token(lock.by) /\ pc[lock.by] \in Held
    BY <1>b DEF NeverLeft
  <2> QED BY <1>c, <2>1 DEF Token
<1>d. lock = Token(t) => pc[t] \in Held
  BY <1>b DEF NeverLeft
<1> USE DEF Types, Critical
<1>1. CASE Begin(t) \/ SkipForeignVersion(t)
  BY <1>a, <1>c, <1>d, <1>1 DEF Begin, SkipForeignVersion
<1>2. CASE Open(t)
  BY <1>a, <1>c, <1>d, <1>2 DEF Open
<1>3. CASE FindOwnLock(t) \/ ObserveLock(t) \/ FindLockStale(t) \/ RereadLock(t) \/ LockTimeout(t)
  BY <1>a, <1>c, <1>d, <1>3 DEF FindOwnLock, ObserveLock, FindLockStale, RereadLock, LockTimeout, SeesOtherLock
<1>4. CASE BreakLock(t)
  BY <1>4 DEF BreakLock, NeverLeft
<1>5. CASE TakeLock(t)
  <2>1. lock' = Token(t) /\ UNCHANGED calls /\ pc'[t] \in {"lock", "check"}
    BY <1>a, <1>5 DEF TakeLock
  <2>2. lock' = Token(t)' /\ lock'.by = t
    BY <1>b, <2>1 DEF Token
  <2> QED BY <2>1, <2>2 DEF NeverLeft
<1>6. CASE Validate(t)
  <2>1. /\ UNCHANGED lock /\ pc[t] = "validate"
        /\ \A u \in Txns \ {t} : pc'[u] = pc[u] /\ calls'[u] = calls[u]
    BY <1>a, <1>6 DEF Validate
  <2> SUFFICES ASSUME lock # NoLock PROVE lock = Token(lock.by)' /\ pc'[lock.by] \in Held
    BY <2>1 DEF NeverLeft
  <2>2. lock.by \in Txns /\ lock = Token(lock.by) /\ pc[lock.by] \in Held
    BY <1>b DEF NeverLeft
  <2> QED BY <2>1, <2>2 DEF Token
<1>7. CASE CheckGlobalLog(t) \/ GlobalLogUnreadable(t)
  BY <1>a, <1>c, <1>d, <1>7 DEF CheckGlobalLog, GlobalLogUnreadable
<1>8. CASE Claim(t) \/ ClaimTaken(t) \/ ClaimFails(t) \/ Publish(t)
  BY <1>a, <1>c, <1>d, <1>8 DEF Claim, ClaimTaken, ClaimFails, Publish
<1>9. CASE Scan(t)
  BY <1>a, <1>c, <1>d, <1>9 DEF Scan
<1>10. CASE ReadEntry(t) \/ WriteEntry(t) \/ JoinVersion(t)
  BY <1>a, <1>c, <1>d, <1>10 DEF ReadEntry, WriteEntry, JoinVersion
<1>11. CASE ReadOwnLock(t) \/ Crash(t)
  BY <1>a, <1>c, <1>d, <1>11 DEF ReadOwnLock, Crash
<1>12. CASE Unlock(t)
  BY <1>12 DEF Unlock, NeverLeft
<1> QED
  BY <1>1, <1>2, <1>3, <1>4, <1>5, <1>6, <1>7, <1>8, <1>9, <1>10, <1>11, <1>12
  DEF Step, Opening, Locking, Committing, Repairing, Releasing

\* A lock that may be broken is that of a client that crashed, and whoever
\* finds it is alone.
LEMMA BreakersAlone ==
  ASSUME IInv, LockInv, LeftInv, BreakersAreAlone
  PROVE  OneBreaker
<1> SUFFICES ASSUME NEW t \in Txns, NEW u \in Txns, pc[t] = "break", pc[u] = "break" PROVE t = u
  BY DEF OneBreaker
<1>1. Dead(lock)
  BY DEF LockInv, BreaksDead
<1>2. lock.by \in Txns /\ lock # NoLock
  BY <1>1, GlobalLogAssumption DEF Dead, NoLock
<1>3. lock = Token(lock.by) /\ calls[lock.by] \in Nat
  BY <1>2 DEF LeftInv, NeverLeft, IInv, Types
<1>4. lock.n = calls[lock.by]
  BY <1>2, <1>3 DEF Token
<1>5. pc[lock.by] = "crashed"
  BY <1>1, <1>2, <1>3, <1>4 DEF Dead, LeftInv, NeverLeft, Critical
<1>6. lock.by \in MayCrash
  BY <1>2, <1>5 DEF LeftInv, CrashesMay
<1>7. t \notin ReadOnly /\ u \notin ReadOnly
  BY DEF LeftInv, OnlyReads
<1> QED BY <1>5, <1>6, <1>7 DEF BreakersAreAlone

\* What is said about lock and clients holds at the start and stays.
LEMMA LeftInductive ==
  ASSUME ~SlowHolders, BreakersAreAlone
  PROVE  Spec => [](IInv /\ LockInv /\ LeftInv)
<1>1. Init => LeftInv
  <2> SUFFICES ASSUME Init PROVE LeftInv
    OBVIOUS
  <2>1. lock = NoLock /\ \A t \in Txns : pc[t] = "begin"
    BY DEF Init
  <2>2. \A t \in Txns, x \in Tables : CommitsOf(t, x) = {}
    BY GlobalLogAssumption DEF Init, CommitsOf, Commit, Absent
  <2> QED BY <2>1, <2>2 DEF LeftInv, NeverLeft, CrashesMay, OnlyReads
<1>2. IInv /\ IInv' /\ LockInv /\ LeftInv /\ [Next]_vars => LockInv' /\ LeftInv'
  <2> SUFFICES ASSUME IInv, IInv', LockInv, LeftInv, [Next]_vars PROVE LockInv' /\ LeftInv'
    OBVIOUS
  <2>1. OneBreaker
    BY BreakersAlone
  <2>2. LockInv'
    BY <2>1, LockInvNext
  <2>3. \A t \in Txns : CrashesMay(t)' /\ OnlyReads(t)'
    BY PlacesStep DEF LeftInv
  <2>4. NeverLeft'
    <3>1. CASE UNCHANGED vars \/ \E x \in Tables : ForeignCommit(x)
      <4>1. UNCHANGED <<lock, calls, pc>>
        BY <3>1 DEF vars, ForeignCommit
      <4> QED BY <4>1 DEF LeftInv, NeverLeft, Token
    <3> QED BY <3>1, NeverLeftStep DEF Next, AllEnded, LeftInv, BreakersAreAlone
  <2> QED BY <2>2, <2>3, <2>4 DEF LeftInv
<1> QED BY <1>1, <1>2, InitLockInv, Inductive, PTL DEF Spec

\* The lock keeps clients apart when locks are left by crashes only, and no two
\* clients that commit live on to find the lock of a crashed one: for any
\* number of clients if none crashes, for two that may both crash.
THEOREM LockKeepsClientsApart ==
  ASSUME ~SlowHolders, BreakersAreAlone
  PROVE  Spec => []LockIsExclusive
<1>1. IInv /\ LockInv /\ LeftInv => OneBreaker
  BY BreakersAlone
<1> QED BY <1>1, LeftInductive, LockIsSafe, PTL

-----------------------------------------------------------------------------
(* The global log as a sequence of snapshots *)

\* The outcome is a failure: commits may be left that nobody has acknowledged.
Failed(t) ==
  pc[t] \in {"aborted", "crashed"} \/ (pc[t] \in {"release", "unlock"} /\ goal[t] = "aborted")
Acknowledged(t) ==
  pc[t] = "committed" \/ (pc[t] \in {"release", "unlock"} /\ goal[t] = "committed")

\* A transaction opens tables only.
OpensTables(t) == OpenTables(t) \subseteq Tables

\* A transaction that has not failed has one commit in each table it counts as
\* committed, and no other.
CommitsKnown(t) ==
  /\ committed[t] \subseteq Changed(t)
  /\ ~Failed(t) => \A x \in Tables :
       CommitsOf(t, x) = IF x \in committed[t] THEN {markerVersion[t][x]} ELSE {}

\* What is about to be written to the global log takes nothing back, and is new
\* for the tables that are changed.
TakesNothingBack(t) ==
  /\ pc[t] \in {"claim", "repair"} => \A x \in Tables : draft[t][x] >= globalLog[x]
  /\ pc[t] = "claim" => \A x \in Changed(t) : draft[t][x] > globalLog[x]

\* What is acknowledged was listed as a whole, and still is.
Published(t) ==
  Acknowledged(t) /\ t \notin ReadOnly =>
    /\ committed[t] = Changed(t)
    /\ \A x \in Changed(t) : draft[t][x] = markerVersion[t][x]
    /\ \A x \in Tables : draft[t][x] <= globalLog[x]

ForwardInv == \A t \in Txns : OpensTables(t) /\ TakesNothingBack(t)
CutInv == \A t \in Txns : CommitsKnown(t) /\ Published(t)

\* Every read of the global log is answered.  The first error makes a listed
\* log look empty; after the second one commit() is true and nothing is listed.
LogIsFound == "head" \notin FaultKinds
LogIsWritten == "publish" \notin FaultKinds

\* What a client knows of its transaction stays as it is.
StaysPut(u) ==
  /\ pc'[u] = pc[u] /\ goal'[u] = goal[u] /\ opened'[u] = opened[u]
  /\ localLog'[u] = localLog[u] /\ markerVersion'[u] = markerVersion[u]
  /\ draft'[u] = draft[u] /\ committed'[u] = committed[u] /\ scanned'[u] = scanned[u]
  /\ missed'[u] = missed[u] /\ readAt'[u] = readAt[u]

\* Every step of a client leaves the other clients where they are.
LEMMA OthersStayPut ==
  ASSUME Types, NEW t \in Txns, NEW u \in Txns \ {t},
         Step(t) \/ LockTimeout(t) \/ GlobalLogUnreadable(t) \/ ClaimFails(t) \/ Crash(t)
  PROVE  StaysPut(u)
<1> USE DEF Types, StaysPut
<1>1. CASE Begin(t) \/ SkipForeignVersion(t)
  BY <1>1 DEF Begin, SkipForeignVersion
<1>2. CASE Open(t)
  BY <1>2 DEF Open
<1>3. CASE Locking(t) \/ LockTimeout(t)
  BY <1>3 DEF Locking, TakeLock, FindOwnLock, ObserveLock, FindLockStale,
              RereadLock, BreakLock, LockTimeout
<1>4. CASE Validate(t) \/ CheckGlobalLog(t) \/ GlobalLogUnreadable(t)
  BY <1>4 DEF Validate, CheckGlobalLog, GlobalLogUnreadable
<1>5. CASE Claim(t) \/ ClaimTaken(t) \/ ClaimFails(t) \/ Publish(t)
  BY <1>5 DEF Claim, ClaimTaken, ClaimFails, Publish
<1>6. CASE Scan(t)
  BY <1>6 DEF Scan
<1>7. CASE ReadEntry(t) \/ WriteEntry(t) \/ JoinVersion(t)
  BY <1>7 DEF ReadEntry, WriteEntry, JoinVersion
<1>8. CASE Releasing(t) \/ Crash(t)
  BY <1>8 DEF Releasing, ReadOwnLock, Unlock, Crash
<1> QED
  BY <1>1, <1>2, <1>3, <1>4, <1>5, <1>6, <1>7, <1>8 DEF Step, Opening, Committing, Repairing

\* Others add no commits to those of a transaction, and take none away.
LEMMA OthersCommits ==
  ASSUME IInv, LogStep, NEW t \in Txns, NEW u \in Txns \ {t},
         Step(t) \/ LockTimeout(t) \/ GlobalLogUnreadable(t) \/ ClaimFails(t) \/ Crash(t)
  PROVE  \A x \in Tables : CommitsOf(u, x)' = CommitsOf(u, x)
<1> SUFFICES ASSUME NEW x \in Tables, NEW v \in Versions
             PROVE  log'[x][v].by = u <=> log[x][v].by = u
  BY DEF CommitsOf
<1>1. Types /\ v \in Int
  BY DEF IInv, Versions
<1>2. log'[x][v] = log[x][v] \/ (pc[t] = "claim" /\ log'[x][v].by = t)
  BY <1>1, ClaimsItsOwn
<1>3. log[x][v].by = u => Exists(x, v)
  BY GlobalLogAssumption DEF Exists
<1> QED BY <1>1, <1>2, <1>3, LogIsFinal

\* The global log is written by clients that have the lock, from their draft.
LEMMA WritesItsDraft ==
  ASSUME Types, NEW t \in Txns,
         Step(t) \/ LockTimeout(t) \/ GlobalLogUnreadable(t) \/ ClaimFails(t) \/ Crash(t)
  PROVE  globalLog' = globalLog \/ (pc[t] \in {"claim", "repair"} /\ globalLog' = draft[t])
<1>1. CASE Opening(t) \/ Locking(t) \/ LockTimeout(t)
  BY <1>1 DEF Opening, Begin, SkipForeignVersion, Open, Locking, TakeLock, FindOwnLock,
              ObserveLock, FindLockStale, RereadLock, BreakLock, LockTimeout
<1>2. CASE Committing(t) \/ GlobalLogUnreadable(t) \/ ClaimFails(t)
  BY <1>2 DEF Committing, Validate, CheckGlobalLog, Claim, ClaimTaken, Publish,
              GlobalLogUnreadable, ClaimFails
<1>3. CASE Repairing(t) \/ Releasing(t) \/ Crash(t)
  BY <1>3 DEF Repairing, Scan, ReadEntry, WriteEntry, JoinVersion, Releasing, ReadOwnLock,
              Unlock, Crash
<1> QED BY <1>1, <1>2, <1>3 DEF Step

\* What it writes takes nothing back.
LEMMA MovesForward ==
  ASSUME IInv, ForwardInv, [Next]_vars
  PROVE  \A x \in Tables : globalLog'[x] >= globalLog[x]
<1>1. \A x \in Tables : globalLog[x] \in Int
  BY DEF IInv, Types, Entries, Unlisted
<1>2. CASE globalLog' = globalLog
  BY <1>1, <1>2
<1>3. ASSUME NEW t \in Txns,
             Step(t) \/ LockTimeout(t) \/ GlobalLogUnreadable(t) \/ ClaimFails(t) \/ Crash(t)
      PROVE  \A x \in Tables : globalLog'[x] >= globalLog[x]
  <2>1. globalLog' = globalLog \/ (pc[t] \in {"claim", "repair"} /\ globalLog' = draft[t])
    BY <1>3, WritesItsDraft DEF IInv
  <2> QED BY <1>2, <2>1 DEF ForwardInv, TakesNothingBack
<1> QED BY <1>2, <1>3 DEF Next, AllEnded, vars, ForeignCommit

\* The commits of a transaction that has not failed
LEMMA CommitsKnownStep ==
  ASSUME IInv, IInv', LogStep, NEW t \in Txns, CommitsKnown(t),
         Step(t) \/ LockTimeout(t) \/ GlobalLogUnreadable(t) \/ ClaimFails(t) \/ Crash(t)
  PROVE  CommitsKnown(t)'
<1>a. Types /\ Types' /\ TxnInv(t)
  BY DEF IInv
<1>b. pc[t] # "claim" => \A x \in Tables : CommitsOf(t, x)' = CommitsOf(t, x)
  <2> SUFFICES ASSUME pc[t] # "claim", NEW x \in Tables, NEW v \in Versions
               PROVE  log'[x][v] = log[x][v]
    BY DEF CommitsOf
  <2> QED BY <1>a, ClaimsItsOwn
<1>c. ASSUME UNCHANGED <<opened, committed>>, Failed(t) => Failed(t)',
             \A x \in committed[t] : markerVersion'[t][x] = markerVersion[t][x],
             \A x \in Tables : CommitsOf(t, x)' = CommitsOf(t, x)
      PROVE  CommitsKnown(t)'
  <2>1. Changed(t)' = Changed(t)
    BY <1>c DEF Changed, OpenTables
  <2> QED BY <1>c, <2>1 DEF CommitsKnown
<1>1. CASE Begin(t) \/ SkipForeignVersion(t)
  BY <1>a, <1>b, <1>c, <1>1 DEF Begin, SkipForeignVersion, Failed, Types
<1>2. CASE Open(t)
  <2>1. committed[t] = {} /\ UNCHANGED committed /\ pc[t] = "open"
    BY <1>a, <1>2 DEF Open, TxnInv, OpenedBefore
  <2> QED BY <1>b, <2>1 DEF CommitsKnown, Failed
<1>3. CASE Locking(t) \/ LockTimeout(t)
  BY <1>a, <1>b, <1>c, <1>3
  DEF Locking, TakeLock, FindOwnLock, ObserveLock, FindLockStale,
      RereadLock, BreakLock, LockTimeout, SeesOtherLock, Failed, Types
<1>4. CASE Validate(t) \/ CheckGlobalLog(t) \/ GlobalLogUnreadable(t)
  BY <1>a, <1>b, <1>c, <1>4 DEF Validate, CheckGlobalLog, GlobalLogUnreadable, Failed, Types
<1>5. CASE ClaimTaken(t) \/ Publish(t)
  <2>1. log' = log /\ pc[t] = "claim" /\ UNCHANGED <<opened, committed, markerVersion>>
    BY <1>5 DEF ClaimTaken, Publish
  <2> QED BY <1>c, <2>1 DEF Failed, CommitsOf
<1>6. CASE ClaimFails(t)
  <2>1. Failed(t)' /\ UNCHANGED <<opened, committed>>
    BY <1>a, <1>6 DEF ClaimFails, Failed, Types
  <2> QED BY <2>1 DEF CommitsKnown, Changed, OpenTables
<1>7. CASE Claim(t)
  <2>1. PICK y \in Tables : /\ Claims(t, y) /\ Free(t, y) /\ WriteClaim(t, y)
                            /\ committed' = [committed EXCEPT ![t] = @ \cup {y}]
    BY <1>7 DEF Claim
  <2>2. /\ UNCHANGED <<pc, opened, markerVersion>> /\ pc[t] = "claim"
        /\ committed'[t] = committed[t] \cup {y}
        /\ y \in Changed(t) /\ y \notin committed[t] /\ Changed(t)' = Changed(t)
    BY <1>a, <1>7, <2>1 DEF Claim, Types, Claims, ToClaim, Changed, OpenTables
  <2>3. \A x \in Tables, v \in Versions :
          log'[x][v].by = IF x = y /\ v = markerVersion[t][y] THEN t ELSE log[x][v].by
    BY <1>a, <2>1 DEF WriteClaim, Free, Commit, Types
  <2>4. markerVersion[t][y] \in Versions
    BY <2>1 DEF Free
  <2>5. /\ \A x \in Tables \ {y} : CommitsOf(t, x)' = CommitsOf(t, x)
        /\ CommitsOf(t, y)' = CommitsOf(t, y) \cup {markerVersion[t][y]}
    BY <2>3, <2>4 DEF CommitsOf
  <2> QED BY <2>2, <2>5 DEF CommitsKnown, Failed
<1>8. CASE Scan(t)
  BY <1>a, <1>b, <1>c, <1>8 DEF Scan, Failed, Types
<1>9. CASE ReadEntry(t) \/ WriteEntry(t) \/ JoinVersion(t)
  <2>1. JoinVersion(t) => \A x \in committed[t] : markerVersion'[t][x] = markerVersion[t][x]
    BY <1>a DEF JoinVersion, Claims, ToClaim, Types
  <2>2. /\ UNCHANGED <<opened, committed>> /\ pc[t] \in Repairs
        /\ \A x \in committed[t] : markerVersion'[t][x] = markerVersion[t][x]
    BY <1>9, <2>1 DEF ReadEntry, WriteEntry, JoinVersion, Repairs
  <2> QED BY <1>b, <1>c, <2>2 DEF Failed, Repairs
<1>10. CASE Releasing(t) \/ Crash(t)
  <2>1. /\ UNCHANGED <<log, opened, committed, markerVersion, goal>>
        /\ \/ pc[t] = "release" /\ pc'[t] \in {"unlock", goal[t]}
           \/ pc[t] = "unlock" /\ pc'[t] = goal[t]
           \/ pc[t] \notin Ended /\ pc'[t] = "crashed"
    BY <1>a, <1>10 DEF Releasing, ReadOwnLock, Unlock, Crash, Types
  <2>2. Failed(t) => Failed(t)'
    BY <2>1 DEF Failed
  <2> QED BY <1>c, <2>1, <2>2 DEF CommitsOf
<1> QED
  BY <1>1, <1>2, <1>3, <1>4, <1>5, <1>6, <1>7, <1>8, <1>9, <1>10
  DEF Step, Opening, Committing, Repairing

\* Tables are opened by open_new_table only, one after the other.
LEMMA OpensOneMore ==
  ASSUME Types, NEW t \in Txns,
         Step(t) \/ LockTimeout(t) \/ GlobalLogUnreadable(t) \/ ClaimFails(t) \/ Crash(t)
  PROVE  Open(t) \/ UNCHANGED <<opened, readAt>>
<1>1. CASE Begin(t) \/ SkipForeignVersion(t) \/ Locking(t) \/ LockTimeout(t)
  BY <1>1 DEF Begin, SkipForeignVersion, Locking, TakeLock, FindOwnLock,
              ObserveLock, FindLockStale, RereadLock, BreakLock, LockTimeout
<1>2. CASE Committing(t) \/ GlobalLogUnreadable(t) \/ ClaimFails(t)
  BY <1>2 DEF Committing, Validate, CheckGlobalLog, Claim, ClaimTaken, Publish,
              GlobalLogUnreadable, ClaimFails
<1>3. CASE Repairing(t) \/ Releasing(t) \/ Crash(t)
  BY <1>3 DEF Repairing, Scan, ReadEntry, WriteEntry, JoinVersion, Releasing, ReadOwnLock,
              Unlock, Crash
<1> QED BY <1>1, <1>2, <1>3 DEF Step, Opening

\* The tables that are open after that
LEMMA OpenOpens ==
  ASSUME Types, NEW t \in Txns, Open(t)
  PROVE  OpenTables(t)' = OpenTables(t) \cup {NextTable(t)}
<1>1. opened'[t] = opened[t] + 1 /\ opened[t] \in Nat
  BY DEF Open, Types
<1>2. 1 .. opened[t] + 1 = (1 .. opened[t]) \cup {opened[t] + 1}
  BY <1>1
<1> QED BY <1>1, <1>2 DEF OpenTables, NextTable

\* Only tables are opened.
LEMMA OpensTablesStep ==
  ASSUME IInv, NEW t \in Txns, OpensTables(t),
         Step(t) \/ LockTimeout(t) \/ GlobalLogUnreadable(t) \/ ClaimFails(t) \/ Crash(t)
  PROVE  OpensTables(t)'
<1>1. CASE Open(t)
  <2>1. NextTable(t) \in Tables
    BY <1>1, OpenTablesAreTables DEF Open, IInv, TxnInv
  <2> QED BY <1>1, <2>1, OpenOpens DEF IInv, OpensTables
<1>2. CASE UNCHANGED opened
  BY <1>2 DEF OpensTables, OpenTables
<1> QED BY <1>1, <1>2, OpensOneMore DEF IInv
\* Where a draft comes from
LEMMA DraftSteps ==
  ASSUME Types, NEW t \in Txns, pc'[t] \in {"claim", "repair"},
         Step(t) \/ LockTimeout(t) \/ GlobalLogUnreadable(t) \/ ClaimFails(t) \/ Crash(t)
  PROVE  CheckGlobalLog(t) \/ Claim(t) \/ ReadEntry(t)
<1> USE DEF Types
<1>1. CASE Begin(t) \/ SkipForeignVersion(t)
  BY <1>1 DEF Begin, SkipForeignVersion
<1>2. CASE Open(t)
  BY <1>2 DEF Open
<1>3. CASE Locking(t) \/ LockTimeout(t)
  BY <1>3 DEF Locking, TakeLock, FindOwnLock, ObserveLock, FindLockStale,
              RereadLock, BreakLock, LockTimeout, SeesOtherLock
<1>4. CASE Validate(t) \/ GlobalLogUnreadable(t)
  BY <1>4 DEF Validate, GlobalLogUnreadable
<1>5. CASE ClaimTaken(t) \/ ClaimFails(t) \/ Publish(t)
  BY <1>5 DEF ClaimTaken, ClaimFails, Publish
<1>6. CASE Scan(t)
  BY <1>6 DEF Scan
<1>7. CASE WriteEntry(t) \/ JoinVersion(t)
  BY <1>7 DEF WriteEntry, JoinVersion
<1>8. CASE Releasing(t) \/ Crash(t)
  <2>1. goal[t] \in {"committed", "aborted", "validate"}
    OBVIOUS
  <2> QED BY <1>8, <2>1 DEF Releasing, ReadOwnLock, Unlock, Crash
<1> QED
  BY <1>1, <1>2, <1>3, <1>4, <1>5, <1>6, <1>7, <1>8 DEF Step, Opening, Committing, Repairing

\* The draft has what the log lists, and newer versions.
LEMMA TakesNothingBackStep ==
  ASSUME IInv, IInv', LogIsFound, NEW t \in Txns, OpensTables(t), TakesNothingBack(t),
         Step(t) \/ LockTimeout(t) \/ GlobalLogUnreadable(t) \/ ClaimFails(t) \/ Crash(t)
  PROVE  TakesNothingBack(t)'
<1> SUFFICES ASSUME pc'[t] \in {"claim", "repair"}
             PROVE  /\ \A x \in Tables : draft'[t][x] >= globalLog'[x]
                    /\ pc'[t] = "claim" => \A x \in Changed(t)' : draft'[t][x] > globalLog'[x]
  BY DEF TakesNothingBack
<1>a. Types /\ Types' /\ \A x \in Tables : globalLog[x] \in Int
  BY DEF IInv, Types, Entries, Unlisted
<1>1. CASE CheckGlobalLog(t)
  <2>1. /\ draft'[t] = Draft(t, globalLog) /\ Valid(t, globalLog)
        /\ globalLog' = globalLog /\ Changed(t)' = Changed(t)
    BY <1>a, <1>1 DEF CheckGlobalLog, LogIsFound, Types, Changed, OpenTables
  <2>2. \A x \in Tables : markerVersion[t][x] \in Int /\ ReadVersion(t, x) \in Int
    BY <1>a DEF Types, ReadVersion
  <2>3. Changed(t) \subseteq Tables
    BY DEF Changed, OpensTables
  <2> QED BY <1>a, <2>1, <2>2, <2>3 DEF Draft, Valid, Larger
<1>2. CASE Claim(t)
  <2>1. UNCHANGED <<pc, draft, globalLog, opened>>
    BY <1>2 DEF Claim
  <2> QED BY <2>1 DEF TakesNothingBack, Changed, OpenTables
<1>3. CASE ReadEntry(t)
  <2>0. PICK y \in Tables :
          IF globalLog[y] >= scanned[t]
          THEN Goto(t, "join") /\ UNCHANGED draft
          ELSE /\ draft' = [draft EXCEPT ![t] = [globalLog EXCEPT ![y] = scanned[t]]]
               /\ Goto(t, "repair")
    BY <1>3 DEF ReadEntry, LogIsFound
  <2>1. /\ globalLog[y] < scanned[t] /\ globalLog' = globalLog
        /\ draft'[t] = [globalLog EXCEPT ![y] = scanned[t]] /\ pc'[t] = "repair"
    <3>1. ~(globalLog[y] >= scanned[t])
      BY <1>a, <2>0 DEF Types
    <3>2. scanned[t] \in Int
      BY <1>a DEF Types
    <3>3. draft' = [draft EXCEPT ![t] = [globalLog EXCEPT ![y] = scanned[t]]] /\ Goto(t, "repair")
      BY <2>0, <3>1
    <3> QED BY <1>a, <1>3, <3>1, <3>2, <3>3 DEF ReadEntry, Types
  <2>2. \A x \in Tables : draft'[t][x] = IF x = y THEN scanned[t] ELSE globalLog[x]
    BY <1>a, <2>1 DEF Types
  <2> QED BY <1>a, <2>1, <2>2 DEF Types
<1> QED BY <1>a, <1>1, <1>2, <1>3, DraftSteps

\* How a transaction comes to be acknowledged
LEMMA AcknowledgedSteps ==
  ASSUME IInv, NEW t \in Txns \ ReadOnly, Acknowledged(t)',
         Step(t) \/ LockTimeout(t) \/ GlobalLogUnreadable(t) \/ ClaimFails(t) \/ Crash(t)
  PROVE  \/ Publish(t)
         \/ /\ Acknowledged(t)
            /\ UNCHANGED <<globalLog, opened, localLog, markerVersion, draft, committed, readAt>>
<1> USE DEF Types, Acknowledged
<1>a. Types
  BY DEF IInv
<1>1. CASE Begin(t) \/ SkipForeignVersion(t)
  BY <1>a, <1>1 DEF Begin, SkipForeignVersion
<1>2. CASE Open(t)
  BY <1>a, <1>2 DEF Open
<1>3. CASE Locking(t) \/ LockTimeout(t)
  BY <1>a, <1>3 DEF Locking, TakeLock, FindOwnLock, ObserveLock, FindLockStale,
              RereadLock, BreakLock, LockTimeout, SeesOtherLock
<1>4. CASE Validate(t) \/ CheckGlobalLog(t) \/ GlobalLogUnreadable(t)
  BY <1>a, <1>4 DEF Validate, CheckGlobalLog, GlobalLogUnreadable
<1>5. CASE Claim(t) \/ ClaimTaken(t) \/ ClaimFails(t)
  BY <1>a, <1>5 DEF Claim, ClaimTaken, ClaimFails
<1>6. CASE Scan(t)
  BY <1>a, <1>6 DEF Scan
<1>7. CASE ReadEntry(t) \/ WriteEntry(t) \/ JoinVersion(t)
  BY <1>a, <1>7 DEF ReadEntry, WriteEntry, JoinVersion
<1>8. CASE Releasing(t) \/ Crash(t)
  BY <1>a, <1>8 DEF Releasing, ReadOwnLock, Unlock, Crash
<1> QED
  BY <1>1, <1>2, <1>3, <1>4, <1>5, <1>6, <1>7, <1>8 DEF Step, Opening, Committing, Repairing

\* Whoever is acknowledged is listed.
LEMMA PublishedStep ==
  ASSUME IInv, LogIsWritten, NEW t \in Txns, OpensTables(t), CommitsKnown(t), Published(t),
         Step(t) \/ LockTimeout(t) \/ GlobalLogUnreadable(t) \/ ClaimFails(t) \/ Crash(t)
  PROVE  Published(t)'
<1> SUFFICES ASSUME Acknowledged(t)', t \notin ReadOnly
             PROVE  /\ committed'[t] = Changed(t)'
                    /\ \A x \in Changed(t)' : draft'[t][x] = markerVersion'[t][x]
                    /\ \A x \in Tables : draft'[t][x] <= globalLog'[x]
  BY DEF Published
<1>1. CASE Publish(t)
  <2>1. /\ globalLog' = draft[t] /\ pc[t] = "claim" /\ ToClaim(t) = {}
        /\ UNCHANGED <<opened, markerVersion, draft, committed>>
    BY <1>1 DEF Publish, LogIsWritten
  <2>2. Changed(t)' = Changed(t) /\ committed[t] = Changed(t) /\ Changed(t) \subseteq Tables
    BY <2>1 DEF Changed, OpenTables, OpensTables, ToClaim, CommitsKnown
  <2>3. \A x \in Tables : draft[t][x] <= draft[t][x]
    <3>1. \A x \in Tables : draft[t][x] \in Int
      BY DEF IInv, Types, Entries, Unlisted
    <3> QED BY <3>1
  <2> QED BY <2>1, <2>2, <2>3 DEF IInv, TxnInv, DraftExists
<1>2. CASE /\ Acknowledged(t)
           /\ UNCHANGED <<globalLog, opened, localLog, markerVersion, draft, committed, readAt>>
  BY <1>2 DEF Published, Changed, OpenTables
<1> QED BY <1>1, <1>2, AcknowledgedSteps

\* Whoever has not written the global log yet still has it as it was found.
LEMMA ForwardInvStep ==
  ASSUME IInv, IInv', LogIsFound, LockIsExclusive, ForwardInv, [Next]_vars
  PROVE  ForwardInv'
<1> SUFFICES ASSUME NEW u \in Txns PROVE OpensTables(u)' /\ TakesNothingBack(u)'
  BY DEF ForwardInv
<1>0. OpensTables(u) /\ TakesNothingBack(u)
  BY DEF ForwardInv
<1>1. ASSUME UNCHANGED globalLog, StaysPut(u)
      PROVE  OpensTables(u)' /\ TakesNothingBack(u)'
  BY <1>0, <1>1 DEF StaysPut, OpensTables, TakesNothingBack, Changed, OpenTables
<1>2. CASE UNCHANGED vars \/ \E x \in Tables : ForeignCommit(x)
  <2>1. UNCHANGED <<globalLog, txnVars>>
    BY <1>2 DEF vars, ForeignCommit
  <2> QED BY <1>1, <2>1 DEF StaysPut
<1>3. ASSUME NEW t \in Txns,
             Step(t) \/ LockTimeout(t) \/ GlobalLogUnreadable(t) \/ ClaimFails(t) \/ Crash(t)
      PROVE  OpensTables(u)' /\ TakesNothingBack(u)'
  <2>1. CASE u = t
    BY <1>0, <1>3, <2>1, OpensTablesStep, TakesNothingBackStep
  <2>2. CASE u # t /\ globalLog' = globalLog
    BY <1>1, <1>3, <2>2, OthersStayPut DEF IInv
  <2>3. CASE u # t /\ pc[t] \in {"claim", "repair"}
    <3>1. pc[u] \notin {"claim", "repair"} /\ StaysPut(u)
      BY <1>3, <2>3, OthersStayPut DEF IInv, LockIsExclusive, Critical
    <3> QED BY <1>0, <3>1 DEF StaysPut, OpensTables, TakesNothingBack, OpenTables
  <2> QED BY <1>3, <2>1, <2>2, <2>3, WritesItsDraft DEF IInv
<1> QED BY <1>2, <1>3 DEF Next, AllEnded

\* At first nothing is open.
LEMMA InitForwardInv == Init => ForwardInv
<1> SUFFICES ASSUME Init, NEW t \in Txns PROVE OpensTables(t) /\ TakesNothingBack(t)
  BY DEF ForwardInv
<1>1. pc[t] = "begin" /\ opened[t] = 0
  BY DEF Init
<1> QED BY <1>1 DEF OpensTables, OpenTables, TakesNothingBack

\* As long as one client at a time works on the global log, no write of it
\* takes anything back.
LEMMA ForwardIfExclusive ==
  ASSUME LogIsFound
  PROVE  Spec /\ []LockIsExclusive => []ForwardInv /\ EntriesMoveForward
<1>1. IInv /\ IInv' /\ LockIsExclusive /\ ForwardInv /\ [Next]_vars => ForwardInv'
  BY ForwardInvStep
<1>2. IInv /\ ForwardInv /\ [Next]_vars => [\A x \in Tables : globalLog'[x] >= globalLog[x]]_vars
  BY MovesForward
<1> QED BY <1>1, <1>2, InitForwardInv, Inductive, PTL DEF Spec, EntriesMoveForward

\* The global log only moves forward: create_global_snapshot and
\* update_global_entry write what they read under the lock, with newer versions
\* of the tables they are about, as long as an existing log is found.
THEOREM GlobalLogMovesForward ==
  ASSUME ~SlowHolders, BreakersAreAlone, LogIsFound
  PROVE  Spec => EntriesMoveForward
BY LockKeepsClientsApart, ForwardIfExclusive, PTL

\* The commits of every transaction are known, and listed when acknowledged.
LEMMA CutInvStep ==
  ASSUME IInv, IInv', LogIsWritten, ForwardInv, CutInv, [Next]_vars
  PROVE  CutInv'
<1> SUFFICES ASSUME NEW u \in Txns PROVE CommitsKnown(u)' /\ Published(u)'
  BY DEF CutInv
<1>0. CommitsKnown(u) /\ Published(u) /\ OpensTables(u) /\ LogStep /\ Types
  BY NextIsLogStep DEF CutInv, ForwardInv, IInv
<1>1. ASSUME StaysPut(u), \A x \in Tables : CommitsOf(u, x)' = CommitsOf(u, x)
      PROVE  CommitsKnown(u)' /\ Published(u)'
  <2>1. \A x \in Tables : globalLog'[x] >= globalLog[x]
    BY MovesForward
  <2>2. /\ Changed(u)' = Changed(u) /\ (Acknowledged(u)' <=> Acknowledged(u))
        /\ (Failed(u)' <=> Failed(u))
    BY <1>1 DEF StaysPut, Changed, OpenTables, Acknowledged, Failed
  <2>3. CommitsKnown(u)'
    BY <1>0, <1>1, <2>2 DEF StaysPut, CommitsKnown
  <2>4. \A x \in Tables : globalLog[x] \in Int /\ globalLog'[x] \in Int /\ draft[u][x] \in Int
    BY DEF IInv, Types, Entries, Unlisted
  <2>5. (\A x \in Tables : draft[u][x] <= globalLog[x]) => \A x \in Tables : draft[u][x] <= globalLog'[x]
    BY <2>1, <2>4
  <2> QED BY <1>0, <1>1, <2>2, <2>3, <2>5 DEF StaysPut, Published
<1>2. CASE UNCHANGED vars
  BY <1>1, <1>2 DEF vars, StaysPut, CommitsOf
<1>3. ASSUME NEW y \in Tables, ForeignCommit(y)
      PROVE  CommitsKnown(u)' /\ Published(u)'
  <2>1. StaysPut(u)
    BY <1>3 DEF ForeignCommit, StaysPut
  <2>2. ASSUME NEW x \in Tables, NEW v \in Versions
        PROVE  log'[x][v].by = u <=> log[x][v].by = u
    <3>1. PICK n \in Versions, o \in BOOLEAN :
            IsHighest(y, n) /\ log' = [log EXCEPT ![y][n + 1] = Commit(Engine, o, n)]
      BY <1>3 DEF ForeignCommit
    <3>2. log'[x][v] = IF x = y /\ v = n + 1 THEN Commit(Engine, o, n) ELSE log[x][v]
      BY <1>0, <3>1 DEF Types
    <3>3. x = y /\ v = n + 1 => ~Exists(x, v)
      BY <3>1, GlobalLogAssumption DEF IsHighest, Versions
    <3> QED BY <3>2, <3>3, GlobalLogAssumption DEF Commit, Exists
  <2> QED BY <1>1, <2>1, <2>2 DEF CommitsOf
<1>4. ASSUME NEW t \in Txns,
             Step(t) \/ LockTimeout(t) \/ GlobalLogUnreadable(t) \/ ClaimFails(t) \/ Crash(t)
      PROVE  CommitsKnown(u)' /\ Published(u)'
  <2>1. CASE u = t
    BY <1>0, <1>4, <2>1, CommitsKnownStep, PublishedStep
  <2>2. CASE u # t
    BY <1>0, <1>1, <1>4, <2>2, OthersStayPut, OthersCommits
  <2> QED BY <2>1, <2>2
<1> QED BY <1>2, <1>3, <1>4 DEF Next, AllEnded

\* At first no transaction has committed.
LEMMA InitCutInv == Init => CutInv
<1> SUFFICES ASSUME Init, NEW t \in Txns PROVE CommitsKnown(t) /\ Published(t)
  BY DEF CutInv
<1>1. pc[t] = "begin" /\ committed[t] = {}
  BY DEF Init
<1>2. \A x \in Tables, v \in Versions : log[x][v].by # t
  BY GlobalLogAssumption DEF Init, Commit, Absent
<1> QED BY <1>1, <1>2 DEF CommitsKnown, Published, Acknowledged, CommitsOf

\* Transactions that only read have no commits.
LEMMA ReadersDoNotCommit == Spec => [](\A t \in Txns : CrashesMay(t) /\ OnlyReads(t))
<1> DEFINE P == \A t \in Txns : CrashesMay(t) /\ OnlyReads(t)
<1>1. Init => P
  <2> SUFFICES ASSUME Init, NEW t \in Txns PROVE CrashesMay(t) /\ OnlyReads(t)
    OBVIOUS
  <2>1. pc[t] = "begin" /\ \A x \in Tables, v \in Versions : log[x][v].by # t
    BY GlobalLogAssumption DEF Init, Commit, Absent
  <2> QED BY <2>1 DEF CrashesMay, OnlyReads, CommitsOf
<1>2. IInv /\ P /\ [Next]_vars => P'
  BY PlacesStep
<1> QED BY <1>1, <1>2, Inductive, PTL DEF Spec

\* As long as one client at a time works on the global log, what is
\* acknowledged is listed as a whole.
LEMMA CutIfExclusive ==
  ASSUME LogIsFound, LogIsWritten
  PROVE  Spec /\ []LockIsExclusive => []CutInv
<1>1. IInv /\ IInv' /\ ForwardInv /\ CutInv /\ [Next]_vars => CutInv'
  BY CutInvStep
<1> QED BY <1>1, InitCutInv, Inductive, ForwardIfExclusive, PTL DEF Spec

\* The global log is a cut through the acknowledged transactions, though the
\* commits of one reach the logs of its tables one by one, and other engines,
\* crashed clients and repairs come between them: a snapshot has all of a
\* transaction or nothing.
THEOREM GlobalLogCuts ==
  ASSUME ~SlowHolders, BreakersAreAlone, LogIsFound, LogIsWritten
  PROVE  Spec => []GlobalLogIsACut
<1>1. ASSUME ForwardInv, CutInv, \A t \in Txns : OnlyReads(t) PROVE GlobalLogIsACut
  <2> SUFFICES ASSUME NEW t \in Txns, NEW x \in Changed(t), pc[t] = "committed"
               PROVE  IF t \in ReadOnly THEN CommitsOf(t, x) = {}
                      ELSE \E v \in CommitsOf(t, x) : v <= globalLog[x]
    BY DEF GlobalLogIsACut
  <2>1. x \in Tables
    BY <1>1 DEF ForwardInv, OpensTables, Changed
  <2>2. CASE t \in ReadOnly
    BY <1>1, <2>1, <2>2 DEF OnlyReads
  <2>3. CASE t \notin ReadOnly
    <3>1. CommitsOf(t, x) = {markerVersion[t][x]} /\ markerVersion[t][x] <= globalLog[x]
      BY <1>1, <2>1, <2>3 DEF CutInv, CommitsKnown, Published, Failed, Acknowledged
    <3> QED BY <2>3, <3>1
  <2> QED BY <2>2, <2>3
<1>2. ForwardInv /\ CutInv /\ (\A t \in Txns : CrashesMay(t) /\ OnlyReads(t)) => GlobalLogIsACut
  BY <1>1
<1> QED BY <1>2, ReadersDoNotCommit, CutIfExclusive, ForwardIfExclusive, LockKeepsClientsApart, PTL

-----------------------------------------------------------------------------
(* The order of the acknowledged transactions *)

\* The acknowledged transactions with commits, and the others
Wrote(t) == Acknowledged(t) /\ t \notin ReadOnly /\ Changed(t) # {}
\* A snapshot as begin found it, but for commits of other engines
Unjoined(t) ==
  pc[t] \notin {"begin", "crashed"} /\ (pc[t] = "open" \/ t \in ReadOnly \/ Changed(t) = {})

\* What was read was listed, or written by another engine.
ListedBelow(x, n) == \A v \in Versions : v <= n /\ log[x][v].by \in Txns => v <= globalLog[x]
SnapshotListed(t) ==
  /\ pc[t] = "begin" => opened[t] = 0
  /\ Unjoined(t) => /\ \A x \in Tables : localLog[t][x] \in Nat /\ ListedBelow(x, localLog[t][x])
                    /\ \A x \in OpenTables(t) : \/ readAt[t][x] = localLog[t][x]
                                                \/ pc[t] = "open" /\ x = NextTable(t)
ReadsListed(t) ==
  \A x \in OpenTables(t) : Complete(x, readAt[t][x]) /\ ListedBelow(x, readAt[t][x])

\* With Isolation::Serializable, no version has joined what a validated
\* transaction read, and none is listed above its own when it claims them.
ReadsUnjoined(t) ==
  pc[t] \in Validated => \A x \in WasRead(t) : Joined(t, x) = {}
ReadsNewest(t) ==
  pc[t] = "claim" => \A x \in WasRead(t) : globalLog[x] < markerVersion[t][x]

\* The versions that a repair finds, and passes, are listed by the repair itself;
\* whoever wrote them is not acknowledged, and will not be.
FromWrote(x, v) == \E a \in Txns : Wrote(a) /\ log[x][v].by = a
RepairsUnlisted(t) ==
  \A x \in Tables : Claims(t, x) =>
    /\ pc[t] = "repair" => draft[t][x] >= scanned[t]
    /\ pc[t] = "join" => globalLog[x] >= scanned[t]
    /\ pc[t] \in Repairs \cup {"scan"} =>
         \A v \in Versions : v >= markerVersion[t][x] => ~FromWrote(x, v)
MissedUnlisted(t) ==
  \A x \in Tables : \A v \in missed[t][x] : v <= globalLog[x] /\ ~FromWrote(x, v)

\* a was listed before b.
Before(a, b) ==
  /\ \A x \in Tables : draft[a][x] <= draft[b][x]
  /\ \A x \in Changed(b) : draft[a][x] < draft[b][x]
  /\ \A x \in Changed(b) \cap OpenTables(a) : readAt[a][x] < draft[b][x]
  /\ \A x \in Changed(a) \cap WasRead(b) : draft[a][x] <= readAt[b][x]
InOrder(a, b) == Wrote(a) /\ Wrote(b) /\ a # b => Before(a, b) \/ Before(b, a)

\* A snapshot has all the commits of a transaction or none.
SeesAllOrNone(r, a) ==
  Unjoined(r) /\ Wrote(a) =>
    \/ \A x \in Tables : draft[a][x] <= localLog[r][x]
    \/ \A x \in Changed(a) : localLog[r][x] < draft[a][x]

AllTablesListed == \A x \in Tables : globalLog[x] \in Nat
OrderInv ==
  /\ AllTablesListed
  /\ \A t \in Txns : SnapshotListed(t) /\ ReadsListed(t) /\ ReadsUnjoined(t) /\ ReadsNewest(t)
  /\ \A t \in Txns : RepairsUnlisted(t) /\ MissedUnlisted(t)
  /\ \A a, b \in Txns : InOrder(a, b) /\ SeesAllOrNone(a, b)

\* What a step does to the snapshot of its transaction
LEMMA SnapshotSteps ==
  ASSUME IInv, NEW t \in Txns,
         Step(t) \/ LockTimeout(t) \/ GlobalLogUnreadable(t) \/ ClaimFails(t) \/ Crash(t)
  PROVE  \/ Opening(t)
         \/ /\ pc[t] \notin Ended /\ pc'[t] \notin {"begin", "open"}
            /\ pc[t] \in {"begin", "open"} => pc'[t] = "crashed"
            /\ UNCHANGED <<opened, readAt>>
            /\ \/ UNCHANGED <<localLog, markerVersion>>
               \/ pc[t] = "join" /\ Changed(t) # {}
<1> USE DEF Types
<1>a. Types
  BY DEF IInv
<1>3. CASE Locking(t) \/ LockTimeout(t)
  BY <1>a, <1>3 DEF Locking, TakeLock, FindOwnLock, ObserveLock, FindLockStale,
              RereadLock, BreakLock, LockTimeout, SeesOtherLock
<1>4. CASE Validate(t) \/ CheckGlobalLog(t) \/ GlobalLogUnreadable(t)
  BY <1>a, <1>4 DEF Validate, CheckGlobalLog, GlobalLogUnreadable
<1>5. CASE Claim(t) \/ ClaimTaken(t) \/ ClaimFails(t) \/ Publish(t)
  BY <1>a, <1>5 DEF Claim, ClaimTaken, ClaimFails, Publish
<1>6. CASE Scan(t)
  BY <1>a, <1>6 DEF Scan
<1>7. CASE ReadEntry(t) \/ WriteEntry(t) \/ JoinVersion(t)
  <2>1. \A x \in Tables : Claims(t, x) => Changed(t) # {}
    BY DEF Claims, ToClaim
  <2> QED BY <1>a, <1>7, <2>1 DEF ReadEntry, WriteEntry, JoinVersion
<1>8. CASE Releasing(t) \/ Crash(t)
  <2>1. goal[t] \in {"committed", "aborted", "validate"}
    BY <1>a
  <2> QED BY <1>a, <1>8, <2>1 DEF Releasing, ReadOwnLock, Unlock, Crash
<1> QED
  BY <1>3, <1>4, <1>5, <1>6, <1>7, <1>8 DEF Step, Committing, Repairing

\* Which versions of transactions lie below an existing one does not change.
LEMMA ListedBelowStays ==
  ASSUME IInv, LogStep, IInv', NEW x \in Tables, NEW n \in Int, Complete(x, n),
         globalLog'[x] >= globalLog[x], ListedBelow(x, n)
  PROVE  ListedBelow(x, n)'
<1> SUFFICES ASSUME NEW v \in Versions, v <= n, log'[x][v].by \in Txns
             PROVE  v <= globalLog'[x]
  BY DEF ListedBelow
<1>1. v \in Nat
  BY GlobalLogAssumption DEF Versions
<1>2. Exists(x, v)
  BY <1>1 DEF Complete
<1>3. log'[x][v] = log[x][v]
  BY <1>1, <1>2, LogIsFinal DEF IInv
<1>4. v <= globalLog[x]
  BY <1>3 DEF ListedBelow
<1>5. globalLog[x] \in Int /\ globalLog'[x] \in Int
  BY DEF IInv, Types, Entries, Unlisted
<1> QED BY <1>1, <1>4, <1>5

\* What was opened before, and was listed, stays so.
LEMMA OpenStays ==
  ASSUME IInv, LogStep, IInv', NEW t \in Txns, OpensTables(t), NEW x \in OpenTables(t),
         \A y \in Tables : globalLog'[y] >= globalLog[y],
         Complete(x, readAt[t][x]), ListedBelow(x, readAt[t][x]), readAt'[t][x] = readAt[t][x]
  PROVE  (Complete(x, readAt[t][x]) /\ ListedBelow(x, readAt[t][x]))'
<1>1. x \in Tables /\ readAt[t][x] \in Int /\ Types
  BY DEF OpensTables, IInv, Types
<1>2. PICK n \in Int : n = readAt[t][x]
  BY <1>1
<1>3. Complete(x, n)' /\ ListedBelow(x, n)'
  BY <1>1, <1>2, CompleteIsFinal, ListedBelowStays
<1> QED BY <1>2, <1>3

\* begin: the snapshot is the global log.
LEMMA BeginSees ==
  ASSUME IInv, LogIsFound, NEW t \in Txns, Begin(t)
  PROVE  localLog'[t] = globalLog /\ UNCHANGED <<log, globalLog, opened>> /\ pc[t] = "begin"
BY DEF IInv, Types, Begin, LogIsFound

\* skip_foreign_versions: the next version is not one of a transaction.
LEMMA SkipSees ==
  ASSUME IInv, NEW t \in Txns, SkipForeignVersion(t)
  PROVE  /\ NextTable(t) \in Tables
         /\ localLog'[t] = [localLog[t] EXCEPT ![NextTable(t)] = @ + 1]
         /\ localLog[t][NextTable(t)] \in Nat
         /\ log[NextTable(t)][localLog[t][NextTable(t)] + 1].by \notin Txns
         /\ UNCHANGED <<log, globalLog, opened, pc, readAt>> /\ pc[t] = "open"
<1>1. NextTable(t) \in Tables /\ pc[t] = "open"
  BY OpenTablesAreTables DEF IInv, TxnInv, SkipForeignVersion
<1>2. localLog[t][NextTable(t)] \in Nat
  BY <1>1 DEF IInv, Types, Entries, SkipForeignVersion, SkipsForeign
<1>3. log[NextTable(t)][localLog[t][NextTable(t)] + 1].by \notin Txns
  BY GlobalLogAssumption DEF SkipForeignVersion, SkipsForeign, Foreign
<1> QED BY <1>1, <1>2, <1>3 DEF IInv, Types, SkipForeignVersion

\* open_new_table: a listed table is read in the version of the snapshot.
LEMMA OpenSees ==
  ASSUME IInv, NEW t \in Txns, Open(t), \A x \in Tables : localLog[t][x] \in Nat
  PROVE  /\ NextTable(t) \in Tables
         /\ localLog'[t] = localLog[t]
         /\ readAt'[t] = [readAt[t] EXCEPT ![NextTable(t)] = localLog[t][NextTable(t)]]
         /\ UNCHANGED <<log, globalLog>> /\ pc[t] = "open" /\ pc'[t] # "begin"
<1>1. NextTable(t) \in Tables /\ pc[t] = "open"
  BY OpenTablesAreTables DEF IInv, TxnInv, Open
<1>2. localLog[t][NextTable(t)] # Unlisted
  BY <1>1 DEF Unlisted
<1>3. \E v \in Versions :
       /\ v = localLog[t][NextTable(t)]
       /\ localLog' = [localLog EXCEPT ![t][NextTable(t)] = v]
       /\ readAt' = [readAt EXCEPT ![t][NextTable(t)] = v]
  BY <1>2 DEF Open
<1>4. pc'[t] # "begin" /\ UNCHANGED <<log, globalLog>>
  BY DEF IInv, Types, Open
<1>5. PICK v \in Versions :
       /\ v = localLog[t][NextTable(t)]
       /\ localLog' = [localLog EXCEPT ![t][NextTable(t)] = v]
       /\ readAt' = [readAt EXCEPT ![t][NextTable(t)] = v]
  BY <1>3
<1>6. /\ localLog'[t] = [localLog[t] EXCEPT ![NextTable(t)] = v]
      /\ readAt'[t] = [readAt[t] EXCEPT ![NextTable(t)] = v]
  BY <1>5 DEF IInv, Types
<1>7. localLog'[t] = localLog[t]
  BY <1>1, <1>5, <1>6 DEF IInv, Types
<1> QED BY <1>1, <1>4, <1>5, <1>6, <1>7

\* A snapshot that is left alone stays listed.
LEMMA SnapshotStays ==
  ASSUME IInv, LogStep, IInv', NEW t \in Txns, NEW x \in Tables,
         \A y \in Tables : globalLog'[y] >= globalLog[y],
         localLog[t][x] \in Nat, ListedBelow(x, localLog[t][x]), localLog'[t][x] = localLog[t][x]
  PROVE  (localLog[t][x] \in Nat /\ ListedBelow(x, localLog[t][x]))'
<1>1. PICK n \in Nat : n = localLog[t][x]
  OBVIOUS
<1>2. Complete(x, n)
  BY <1>1 DEF IInv, TxnInv, KnownExists
<1>3. ListedBelow(x, n)'
  BY <1>1, <1>2, ListedBelowStays
<1> QED BY <1>1, <1>3

\* What is listed as it is opened
LEMMA OpeningSnapshot ==
  ASSUME IInv, IInv', LogStep, LogIsFound, AllTablesListed, NEW t \in Txns,
         \A x \in Tables : globalLog'[x] >= globalLog[x],
         SnapshotListed(t), Opening(t)
  PROVE  SnapshotListed(t)'
<1>a. Types /\ Types'
  BY DEF IInv
<1>1. CASE Begin(t)
  <2>1. /\ localLog'[t] = globalLog /\ UNCHANGED <<log, globalLog, opened>>
        /\ opened[t] = 0 /\ pc'[t] = "open"
    BY <1>a, <1>1, BeginSees DEF SnapshotListed, Begin, Types
  <2>2. OpenTables(t)' = {}
    BY <2>1 DEF OpenTables
  <2>3. \A x \in Tables : (localLog[t][x] \in Nat /\ ListedBelow(x, localLog[t][x]))'
    BY <2>1 DEF AllTablesListed, ListedBelow
  <2> QED BY <2>1, <2>2, <2>3 DEF SnapshotListed
<1>2. CASE SkipForeignVersion(t)
  <2> DEFINE y == NextTable(t)
  <2>1. /\ y \in Tables /\ localLog'[t] = [localLog[t] EXCEPT ![y] = @ + 1]
        /\ localLog[t][y] \in Nat /\ log[y][localLog[t][y] + 1].by \notin Txns
        /\ UNCHANGED <<log, globalLog, opened, pc, readAt>> /\ pc[t] = "open"
    BY <1>2, SkipSees
  <2>2. Unjoined(t) /\ OpenTables(t)' = OpenTables(t) /\ NextTable(t)' = y
    BY <2>1 DEF Unjoined, OpenTables, NextTable
  <2>3. \A x \in Tables : localLog'[t][x] = IF x = y THEN localLog[t][y] + 1 ELSE localLog[t][x]
    BY <1>a, <2>1 DEF Types
  <2>4. \A x \in Tables : localLog[t][x] \in Nat /\ ListedBelow(x, localLog[t][x])
    BY <2>2 DEF SnapshotListed
  <2>5. ASSUME NEW x \in Tables
        PROVE  (localLog[t][x] \in Nat /\ ListedBelow(x, localLog[t][x]))'
    <3>1. CASE x # y
      BY <2>1, <2>3, <2>4, <3>1 DEF ListedBelow
    <3>2. CASE x = y
      <4>1. PICK n \in Nat : n = localLog[t][y]
        BY <2>1
      <4>2. ASSUME NEW v \in Versions, v <= n + 1, log[y][v].by \in Txns
            PROVE  v <= globalLog[y]
        <5>1. v \in Int /\ v # n + 1
          BY <2>1, <4>1, <4>2, GlobalLogAssumption DEF Versions
        <5>2. v <= n
          BY <4>1, <4>2, <5>1
        <5> QED BY <2>1, <2>4, <4>1, <4>2, <5>2 DEF ListedBelow
      <4>3. localLog'[t][x] = n + 1
        BY <2>3, <3>2, <4>1
      <4> QED BY <2>1, <3>2, <4>2, <4>3 DEF ListedBelow
    <3> QED BY <3>1, <3>2
  <2>6. \A x \in OpenTables(t) : readAt'[t][x] = localLog'[t][x] \/ x = y
    <3> SUFFICES ASSUME NEW x \in OpenTables(t), x # y PROVE readAt'[t][x] = localLog'[t][x]
      OBVIOUS
    <3>1. readAt[t][x] = localLog[t][x]
      BY <2>2 DEF SnapshotListed
    <3> QED BY <1>a, <2>1, <3>1 DEF Types
  <2> QED BY <2>1, <2>2, <2>5, <2>6 DEF SnapshotListed
<1>3. CASE Open(t)
  <2> DEFINE y == NextTable(t)
  <2>0. pc[t] = "open" /\ Unjoined(t)
    BY <1>3 DEF Open, Unjoined
  <2>1. \A x \in Tables : localLog[t][x] \in Nat /\ ListedBelow(x, localLog[t][x])
    BY <2>0 DEF SnapshotListed
  <2>2. /\ y \in Tables /\ localLog'[t] = localLog[t]
        /\ readAt'[t] = [readAt[t] EXCEPT ![y] = localLog[t][y]]
        /\ UNCHANGED <<log, globalLog>> /\ pc'[t] # "begin"
    BY <1>3, <2>1, OpenSees
  <2>3. \A x \in Tables : (localLog[t][x] \in Nat /\ ListedBelow(x, localLog[t][x]))'
    BY <2>1, <2>2 DEF ListedBelow
  <2>4. ASSUME NEW x \in OpenTables(t) \cup {y} PROVE readAt'[t][x] = localLog'[t][x]
    <3>1. CASE x = y
      BY <1>a, <2>2, <3>1 DEF Types
    <3>2. CASE x # y
      <4>1. readAt[t][x] = localLog[t][x]
        BY <2>0, <3>2 DEF SnapshotListed
      <4> QED BY <1>a, <2>2, <3>2, <4>1 DEF Types
    <3> QED BY <3>1, <3>2
  <2>5. OpenTables(t)' = OpenTables(t) \cup {y}
    BY <1>a, <1>3, OpenOpens
  <2> QED BY <2>2, <2>3, <2>4, <2>5 DEF SnapshotListed
<1> QED BY <1>1, <1>2, <1>3 DEF Opening

\* What is listed, as other steps leave it
LEMMA SettledSnapshot ==
  ASSUME IInv, IInv', LogStep, NEW t \in Txns,
         \A x \in Tables : globalLog'[x] >= globalLog[x],
         SnapshotListed(t), Unjoined(t)' => Unjoined(t),
         Unjoined(t) => localLog'[t] = localLog[t],
         opened'[t] = opened[t], readAt'[t] = readAt[t],
         pc'[t] = "begin" => pc[t] = "begin",
         pc[t] = "open" => pc'[t] = "open" \/ pc'[t] = "crashed"
  PROVE  SnapshotListed(t)'
<1>1. OpenTables(t)' = OpenTables(t) /\ NextTable(t)' = NextTable(t)
  BY DEF OpenTables, NextTable
<1>2. pc'[t] = "crashed" => ~Unjoined(t)'
  BY DEF Unjoined
<1>3. CASE Unjoined(t)'
  <2>1. Unjoined(t) /\ localLog'[t] = localLog[t]
    BY <1>3
  <2>2. \A x \in Tables : (localLog[t][x] \in Nat /\ ListedBelow(x, localLog[t][x]))'
    <3> SUFFICES ASSUME NEW x \in Tables
                 PROVE  (localLog[t][x] \in Nat /\ ListedBelow(x, localLog[t][x]))'
      OBVIOUS
    <3>1. localLog[t][x] \in Nat /\ ListedBelow(x, localLog[t][x])
      BY <2>1 DEF SnapshotListed
    <3> QED BY <2>1, <3>1, SnapshotStays
  <2> QED BY <1>1, <1>2, <1>3, <2>1, <2>2 DEF SnapshotListed
<1>4. CASE ~Unjoined(t)'
  BY <1>4 DEF SnapshotListed
<1> QED BY <1>3, <1>4

\* Every snapshot is listed, but for commits of other engines.
LEMMA SnapshotListedStep ==
  ASSUME IInv, IInv', LogStep, LogIsFound, AllTablesListed, NEW t \in Txns,
         \A x \in Tables : globalLog'[x] >= globalLog[x],
         OnlyReads(t), SnapshotListed(t),
         Step(t) \/ LockTimeout(t) \/ GlobalLogUnreadable(t) \/ ClaimFails(t) \/ Crash(t)
  PROVE  SnapshotListed(t)'
<1>1. CASE Opening(t)
  BY <1>1, OpeningSnapshot
<1>2. CASE /\ pc[t] \notin Ended /\ pc'[t] \notin {"begin", "open"}
           /\ pc[t] \in {"begin", "open"} => pc'[t] = "crashed"
           /\ UNCHANGED <<opened, readAt>>
           /\ \/ UNCHANGED <<localLog, markerVersion>>
              \/ pc[t] = "join" /\ Changed(t) # {}
  <2>1. Changed(t)' = Changed(t)
    BY <1>2 DEF Changed, OpenTables
  <2>2. Unjoined(t)' => Unjoined(t)
    BY <1>2, <2>1 DEF Unjoined
  <2>3. Unjoined(t) => localLog' = localLog
    BY <1>2 DEF Unjoined, OnlyReads
  <2> QED BY <1>2, <2>2, <2>3, SettledSnapshot
<1> QED BY <1>1, <1>2, SnapshotSteps

\* Whatever was read is listed, but for commits of other engines.
LEMMA ReadsListedStep ==
  ASSUME IInv, IInv', LogStep, NEW t \in Txns,
         \A x \in Tables : globalLog'[x] >= globalLog[x],
         OpensTables(t), SnapshotListed(t), ReadsListed(t),
         Step(t) \/ LockTimeout(t) \/ GlobalLogUnreadable(t) \/ ClaimFails(t) \/ Crash(t)
  PROVE  ReadsListed(t)'
<1>1. CASE UNCHANGED <<opened, readAt>>
  <2>1. OpenTables(t)' = OpenTables(t)
    BY <1>1 DEF OpenTables
  <2>2. \A x \in OpenTables(t) : (Complete(x, readAt[t][x]) /\ ListedBelow(x, readAt[t][x]))'
    BY <1>1, OpenStays DEF ReadsListed
  <2> QED BY <2>1, <2>2 DEF ReadsListed
<1>2. CASE Open(t)
  <2>0. PICK y : y = NextTable(t)
    OBVIOUS
  <2>1. pc[t] = "open" /\ Unjoined(t)
    BY <1>2 DEF Open, Unjoined
  <2>2. \A x \in Tables : localLog[t][x] \in Nat /\ ListedBelow(x, localLog[t][x])
    BY <2>1 DEF SnapshotListed
  <2>3. /\ y \in Tables
        /\ readAt'[t] = [readAt[t] EXCEPT ![y] = localLog[t][y]]
        /\ UNCHANGED <<log, globalLog>>
    BY <1>2, <2>0, <2>2, OpenSees
  <2>4. readAt'[t][y] = localLog[t][y] /\ Complete(y, localLog[t][y])
    BY <2>3 DEF IInv, Types, TxnInv, KnownExists
  <2>5. (Complete(y, readAt[t][y]))' /\ ListedBelow(y, readAt[t][y])'
    BY <2>2, <2>3, <2>4 DEF ListedBelow, Complete, Exists
  <2>6. ASSUME NEW x \in OpenTables(t), x # y
        PROVE  (Complete(x, readAt[t][x]) /\ ListedBelow(x, readAt[t][x]))'
    <3>1. readAt'[t][x] = readAt[t][x]
      BY <2>3, <2>6 DEF IInv, Types
    <3> QED BY <3>1, OpenStays DEF ReadsListed
  <2>7. OpenTables(t)' = OpenTables(t) \cup {y}
    BY <1>2, <2>0, OpenOpens DEF IInv
  <2> QED BY <2>5, <2>6, <2>7 DEF ReadsListed
<1> QED BY <1>1, <1>2, OpensOneMore DEF IInv

\* How a transaction comes to be validated
LEMMA ValidatedSteps ==
  ASSUME IInv, NEW t \in Txns, pc'[t] \in Validated,
         Step(t) \/ LockTimeout(t) \/ GlobalLogUnreadable(t) \/ ClaimFails(t) \/ Crash(t)
  PROVE  /\ UNCHANGED <<opened, markerVersion, missed, readAt>>
         /\ pc[t] \in Validated \/ (pc[t] = "validate" /\ ~Conflict(t))
<1> USE DEF Types, Validated
<1>a. Types
  BY DEF IInv
<1>1. CASE Begin(t) \/ SkipForeignVersion(t)
  BY <1>a, <1>1 DEF Begin, SkipForeignVersion
<1>2. CASE Open(t)
  BY <1>a, <1>2 DEF Open
<1>3. CASE Locking(t) \/ LockTimeout(t)
  BY <1>a, <1>3 DEF Locking, TakeLock, FindOwnLock, ObserveLock, FindLockStale,
              RereadLock, BreakLock, LockTimeout, SeesOtherLock
<1>4. CASE Validate(t) \/ CheckGlobalLog(t) \/ GlobalLogUnreadable(t)
  BY <1>a, <1>4 DEF Validate, CheckGlobalLog, GlobalLogUnreadable
<1>5. CASE Claim(t) \/ ClaimTaken(t) \/ ClaimFails(t) \/ Publish(t)
  BY <1>a, <1>5 DEF Claim, ClaimTaken, ClaimFails, Publish
<1>6. CASE Scan(t)
  BY <1>a, <1>6 DEF Scan
<1>7. CASE ReadEntry(t) \/ WriteEntry(t) \/ JoinVersion(t)
  BY <1>a, <1>7 DEF ReadEntry, WriteEntry, JoinVersion
<1>8. CASE Releasing(t) \/ Crash(t)
  <2>1. goal[t] \in {"committed", "aborted", "validate"}
    BY <1>a
  <2> QED BY <1>a, <1>8, <2>1 DEF Releasing, ReadOwnLock, Unlock, Crash
<1> QED
  BY <1>1, <1>2, <1>3, <1>4, <1>5, <1>6, <1>7, <1>8 DEF Step, Opening, Committing, Repairing

\* Nothing joins what was read by a validated transaction.
LEMMA ReadsUnjoinedStep ==
  ASSUME IInv, Serializable, NEW t \in Txns, OpensTables(t), ReadsUnjoined(t),
         Step(t) \/ LockTimeout(t) \/ GlobalLogUnreadable(t) \/ ClaimFails(t) \/ Crash(t)
  PROVE  ReadsUnjoined(t)'
<1> SUFFICES ASSUME pc'[t] \in Validated, NEW x \in WasRead(t)'
             PROVE  Joined(t, x)' = {}
  BY DEF ReadsUnjoined
<1>1. /\ UNCHANGED <<opened, markerVersion, missed, readAt>>
      /\ pc[t] \in Validated \/ (pc[t] = "validate" /\ ~Conflict(t))
  BY ValidatedSteps
<1>2. x \in WasRead(t) /\ Joined(t, x)' = Joined(t, x)
  BY <1>1 DEF WasRead, OpenTables, Joined
<1> QED BY <1>1, <1>2 DEF ReadsUnjoined, Conflict, ReadConflict

\* No version that was read is listed anew when the claims are made.
LEMMA ReadsNewestStep ==
  ASSUME IInv, LogIsFound, Serializable, NEW t \in Txns, OpensTables(t), ReadsNewest(t),
         Step(t) \/ LockTimeout(t) \/ GlobalLogUnreadable(t) \/ ClaimFails(t) \/ Crash(t)
  PROVE  ReadsNewest(t)'
<1> SUFFICES ASSUME pc'[t] = "claim", NEW x \in WasRead(t)'
             PROVE  globalLog'[x] < markerVersion'[t][x]
  BY DEF ReadsNewest
<1>1. UNCHANGED <<opened, markerVersion>>
  BY ValidatedSteps DEF Validated
<1>2. x \in WasRead(t) /\ x \in Tables /\ x \in OpenTables(t)
  BY <1>1 DEF WasRead, OpenTables, OpensTables
<1>3. CASE CheckGlobalLog(t)
  <2>1. Valid(t, globalLog) /\ globalLog' = globalLog
    BY <1>3 DEF CheckGlobalLog, LogIsFound, IInv, Types
  <2>2. markerVersion[t][x] \in Int /\ globalLog[x] \in Int
    BY <1>2 DEF IInv, Types, Entries, Unlisted
  <2>3. globalLog[x] < markerVersion[t][x] \/ globalLog[x] <= markerVersion[t][x] - 1
    BY <1>2, <2>1 DEF Valid, OnlyRead, ReadVersion
  <2> QED BY <1>1, <2>1, <2>2, <2>3
<1>4. CASE Claim(t)
  BY <1>1, <1>2, <1>4 DEF Claim, ReadsNewest
<1>5. ~ReadEntry(t)
  BY DEF ReadEntry, IInv, Types
<1> QED BY <1>3, <1>4, <1>5, DraftSteps DEF IInv

\* What no step changes of a transaction that was acknowledged before it
Settled(a) ==
  /\ Wrote(a)
  /\ draft'[a] = draft[a] /\ opened'[a] = opened[a] /\ readAt'[a] = readAt[a]

\* A transaction with commits is acknowledged as it writes the global log.
LEMMA WroteSteps ==
  ASSUME IInv, [Next]_vars, NEW a \in Txns, Wrote(a)'
  PROVE  (Publish(a) /\ a \notin ReadOnly) \/ Settled(a)
<1>1. ASSUME StaysPut(a) PROVE Settled(a)
  BY <1>1 DEF StaysPut, Settled, Wrote, Acknowledged, Changed, OpenTables
<1>2. CASE UNCHANGED vars \/ \E x \in Tables : ForeignCommit(x)
  <2>1. UNCHANGED txnVars
    BY <1>2 DEF vars, ForeignCommit
  <2> QED BY <1>1, <2>1 DEF StaysPut
<1>3. ASSUME NEW t \in Txns,
             Step(t) \/ LockTimeout(t) \/ GlobalLogUnreadable(t) \/ ClaimFails(t) \/ Crash(t)
      PROVE  (Publish(a) /\ a \notin ReadOnly) \/ Settled(a)
  <2>1. CASE a # t
    BY <1>1, <1>3, <2>1, OthersStayPut DEF IInv
  <2>2. CASE a = t
    <3>1. a \notin ReadOnly /\ Acknowledged(a)'
      BY DEF Wrote
    <3>2. Publish(a) \/ (Acknowledged(a) /\ UNCHANGED <<opened, draft, readAt>>)
      BY <1>3, <2>2, <3>1, AcknowledgedSteps
    <3> QED BY <3>1, <3>2 DEF Settled, Wrote, Changed, OpenTables
  <2> QED BY <2>1, <2>2
<1> QED BY <1>2, <1>3 DEF Next, AllEnded

\* The versions that a transaction is about to list are its commits, and are
\* not listed yet.
LEMMA PublishesNew ==
  ASSUME IInv, ForwardInv, CutInv, NEW b \in Txns, Publish(b), NEW x \in Changed(b)
  PROVE  /\ x \in Tables /\ draft[b][x] \in Versions /\ draft[b][x] \in Nat
         /\ log[x][draft[b][x]].by = b
         /\ draft[b][x] > globalLog[x]
<1>1. x \in Tables /\ pc[b] = "claim" /\ ToClaim(b) = {}
  BY DEF ForwardInv, OpensTables, Changed, Publish
<1>2. x \in committed[b] /\ draft[b][x] = markerVersion[b][x] /\ draft[b][x] > globalLog[x]
  BY <1>1 DEF ToClaim, IInv, TxnInv, DraftExists, ForwardInv, TakesNothingBack
<1>3. CommitsOf(b, x) = {markerVersion[b][x]}
  BY <1>1, <1>2 DEF CutInv, CommitsKnown, Failed
<1>4. markerVersion[b][x] \in CommitsOf(b, x)
  BY <1>3
<1> QED BY <1>1, <1>2, <1>4, GlobalLogAssumption DEF CommitsOf, Versions

\* Whoever writes the global log comes after all that did before.
LEMMA PublishesAfter ==
  ASSUME IInv, ForwardInv, CutInv, OrderInv, NEW a \in Txns, NEW b \in Txns,
         Publish(b), Wrote(a)
  PROVE  Before(a, b)
<1>1. pc[b] = "claim"
  BY DEF Publish
<1>2. \A x \in Tables : /\ draft[a][x] \in Int /\ draft[b][x] \in Int /\ globalLog[x] \in Int
                        /\ readAt[a][x] \in Int /\ readAt[b][x] \in Int
  BY DEF IInv, Types, Entries, Unlisted
<1>3. \A x \in Tables : draft[a][x] <= globalLog[x] /\ globalLog[x] <= draft[b][x]
  BY <1>1, <1>2 DEF CutInv, Published, Wrote, ForwardInv, TakesNothingBack
<1>4. \A x \in Changed(b) : x \in Tables /\ draft[b][x] > globalLog[x]
  BY PublishesNew
<1>5. ASSUME NEW x \in Changed(b) \cap OpenTables(a)
      PROVE  readAt[a][x] < draft[b][x]
  <2>1. /\ x \in Tables /\ draft[b][x] \in Versions /\ log[x][draft[b][x]].by \in Txns
        /\ draft[b][x] > globalLog[x]
    BY PublishesNew
  <2>2. ListedBelow(x, readAt[a][x])
    BY DEF OrderInv, ReadsListed
  <2>3. draft[b][x] <= readAt[a][x] => draft[b][x] <= globalLog[x]
    BY <2>1, <2>2 DEF ListedBelow
  <2> QED BY <1>2, <2>1, <2>3
<1>6. ASSUME NEW x \in Changed(a) \cap WasRead(b)
      PROVE  draft[a][x] <= readAt[b][x]
  <2>1. x \in Tables /\ globalLog[x] < markerVersion[b][x]
    BY <1>1 DEF OrderInv, ReadsNewest, ForwardInv, OpensTables, Changed
  <2>2. /\ draft[a][x] = markerVersion[a][x]
        /\ CommitsOf(a, x) = {markerVersion[a][x]}
    BY <2>1 DEF CutInv, CommitsKnown, Published, Wrote, Failed, Acknowledged
  <2>3. FromWrote(x, draft[a][x])
    BY <2>2 DEF FromWrote, CommitsOf
  <2>4. draft[a][x] \notin missed[b][x]
    BY <2>1, <2>3 DEF OrderInv, MissedUnlisted
  <2>5. Joined(b, x) = {}
    BY <1>1 DEF OrderInv, ReadsUnjoined, Validated
  <2>6. draft[a][x] \notin readAt[b][x] + 1 .. markerVersion[b][x] - 1
    BY <2>4, <2>5 DEF Joined
  <2>7. markerVersion[b][x] \in Int
    BY <2>1 DEF IInv, Types
  <2> QED BY <1>2, <1>3, <2>1, <2>6, <2>7
<1>7. \A x \in Tables : draft[a][x] <= draft[b][x]
  BY <1>2, <1>3
<1>8. \A x \in Changed(b) : draft[a][x] < draft[b][x]
  BY <1>2, <1>3, <1>4
<1> QED BY <1>5, <1>6, <1>7, <1>8 DEF Before

\* No snapshot has any of what is about to be listed.
LEMMA PublishesUnseen ==
  ASSUME IInv, ForwardInv, CutInv, OrderInv, NEW r \in Txns, NEW a \in Txns,
         Publish(a), Unjoined(r)
  PROVE  \A x \in Changed(a) : localLog[r][x] < draft[a][x]
<1> SUFFICES ASSUME NEW x \in Changed(a) PROVE localLog[r][x] < draft[a][x]
  OBVIOUS
<1>1. /\ x \in Tables /\ draft[a][x] \in Versions /\ log[x][draft[a][x]].by \in Txns
      /\ draft[a][x] > globalLog[x] /\ draft[a][x] \in Nat
  BY PublishesNew
<1>2. localLog[r][x] \in Nat /\ ListedBelow(x, localLog[r][x])
  BY <1>1 DEF OrderInv, SnapshotListed
<1>3. draft[a][x] <= localLog[r][x] => draft[a][x] <= globalLog[x]
  BY <1>1, <1>2 DEF ListedBelow
<1>4. globalLog[x] \in Int
  BY <1>1 DEF IInv, Types, Entries, Unlisted
<1> QED BY <1>1, <1>2, <1>3, <1>4

\* The order in which transactions were listed stays.
LEMMA InOrderStep ==
  ASSUME IInv, LockIsExclusive, ForwardInv, CutInv, OrderInv, [Next]_vars,
         NEW a \in Txns, NEW b \in Txns
  PROVE  InOrder(a, b)'
<1> SUFFICES ASSUME Wrote(a)', Wrote(b)', a # b PROVE Before(a, b)' \/ Before(b, a)'
  BY DEF InOrder
<1>0. ASSUME NEW c \in Txns, NEW d \in Txns, Before(c, d),
             draft'[c] = draft[c], opened'[c] = opened[c], readAt'[c] = readAt[c],
             draft'[d] = draft[d], opened'[d] = opened[d], readAt'[d] = readAt[d]
      PROVE  Before(c, d)'
  BY <1>0 DEF Before, Changed, OpenTables, WasRead
<1>1. ASSUME NEW c \in Txns, NEW d \in Txns, Settled(c), Publish(d)
      PROVE  Before(c, d)'
  <2>1. Before(c, d)
    BY <1>1, PublishesAfter DEF Settled
  <2>2. UNCHANGED <<draft, opened, readAt>>
    BY <1>1 DEF Publish
  <2> QED BY <1>0, <2>1, <2>2
<1>2. CASE Settled(a) /\ Settled(b)
  <2>1. Before(a, b) \/ Before(b, a)
    BY <1>2 DEF Settled, OrderInv, InOrder
  <2> QED BY <1>0, <1>2, <2>1 DEF Settled
<1>3. ~(Publish(a) /\ Publish(b))
  BY DEF Publish, LockIsExclusive, Critical
<1> QED BY <1>1, <1>2, <1>3, WroteSteps

\* What a step does to a snapshot that nothing has joined
LEMMA UnjoinedSteps ==
  ASSUME IInv, LogIsFound, OrderInv, [Next]_vars, NEW r \in Txns, OnlyReads(r), Unjoined(r)'
  PROVE  \/ Begin(r)
         \/ SkipForeignVersion(r)
         \/ Unjoined(r) /\ localLog'[r] = localLog[r]
<1>1. ASSUME StaysPut(r) PROVE Unjoined(r) /\ localLog'[r] = localLog[r]
  BY <1>1 DEF StaysPut, Unjoined, Changed, OpenTables
<1>2. CASE UNCHANGED vars \/ \E x \in Tables : ForeignCommit(x)
  <2>1. UNCHANGED txnVars
    BY <1>2 DEF vars, ForeignCommit
  <2> QED BY <1>1, <2>1 DEF StaysPut
<1>3. ASSUME NEW t \in Txns,
             Step(t) \/ LockTimeout(t) \/ GlobalLogUnreadable(t) \/ ClaimFails(t) \/ Crash(t)
      PROVE  \/ Begin(r)
             \/ SkipForeignVersion(r)
             \/ Unjoined(r) /\ localLog'[r] = localLog[r]
  <2>1. CASE r # t
    BY <1>1, <1>3, <2>1, OthersStayPut DEF IInv
  <2>2. CASE Open(r)
    <3>1. Unjoined(r)
      BY <2>2 DEF Open, Unjoined
    <3>2. \A x \in Tables : localLog[r][x] \in Nat
      BY <3>1 DEF OrderInv, SnapshotListed
    <3> QED BY <2>2, <3>1, <3>2, OpenSees
  <2>3. CASE /\ pc[r] \notin Ended /\ pc'[r] \notin {"begin", "open"}
             /\ pc[r] \in {"begin", "open"} => pc'[r] = "crashed"
             /\ UNCHANGED <<opened, readAt>>
             /\ \/ UNCHANGED <<localLog, markerVersion>>
                \/ pc[r] = "join" /\ Changed(r) # {}
    <3>1. Changed(r)' = Changed(r)
      BY <2>3 DEF Changed, OpenTables
    <3> QED BY <2>3, <3>1 DEF Unjoined, OnlyReads
  <2> QED BY <1>3, <2>1, <2>2, <2>3, SnapshotSteps DEF Opening
<1> QED BY <1>2, <1>3 DEF Next, AllEnded

\* A snapshot keeps seeing all of a transaction or nothing.
LEMMA SeesAllOrNoneStep ==
  ASSUME IInv, IInv', LogIsFound, ForwardInv, CutInv, OrderInv, [Next]_vars,
         NEW r \in Txns, NEW a \in Txns, OnlyReads(r)
  PROVE  SeesAllOrNone(r, a)'
<1> SUFFICES ASSUME Unjoined(r)', Wrote(a)'
             PROVE  \/ \A x \in Tables : draft'[a][x] <= localLog'[r][x]
                    \/ \A x \in Changed(a)' : localLog'[r][x] < draft'[a][x]
  BY DEF SeesAllOrNone
<1>1. CASE Publish(a)
  <2>1. UNCHANGED <<draft, opened, localLog>> /\ pc'[a] = "release" /\ pc[a] = "claim"
    BY <1>1 DEF Publish, IInv, Types
  <2>2. ~Begin(r) /\ ~SkipForeignVersion(r)
    <3>1. r = a => pc[r] = "claim"
      BY <2>1
    <3>2. r # a => pc'[r] = pc[r]
      BY <1>1 DEF Publish, IInv, Types
    <3>3. Begin(r) => pc[r] = "begin" /\ pc'[r] = "open"
      BY DEF Begin, IInv, Types
    <3>4. SkipForeignVersion(r) => pc[r] = "open" /\ pc' = pc
      BY DEF SkipForeignVersion
    <3> QED BY <2>1, <3>1, <3>2, <3>3, <3>4
  <2>3. Unjoined(r)
    BY <2>2, UnjoinedSteps
  <2>4. \A x \in Changed(a) : localLog[r][x] < draft[a][x]
    BY <1>1, <2>3, PublishesUnseen
  <2> QED BY <2>1, <2>4 DEF Changed, OpenTables
<1>2. CASE Settled(a)
  <2>1. draft'[a] = draft[a] /\ Changed(a)' = Changed(a) /\ Wrote(a)
    BY <1>2 DEF Settled, Changed, OpenTables
  <2>2. CASE Begin(r)
    BY <2>1, <2>2, BeginSees DEF CutInv, Published, Wrote
  <2>3. CASE Unjoined(r) /\ localLog'[r] = localLog[r]
    BY <2>1, <2>3 DEF OrderInv, SeesAllOrNone
  <2>4. CASE SkipForeignVersion(r)
    <3>1. PICK y : y = NextTable(r)
      OBVIOUS
    <3>2. /\ y \in Tables /\ localLog'[r] = [localLog[r] EXCEPT ![y] = @ + 1]
          /\ localLog[r][y] \in Nat /\ log[y][localLog[r][y] + 1].by \notin Txns
          /\ pc[r] = "open"
      BY <2>4, <3>1, SkipSees
    <3>3. Unjoined(r)
      BY <3>2 DEF Unjoined
    <3>4. \A x \in Tables : /\ localLog'[r][x] = IF x = y THEN localLog[r][y] + 1 ELSE localLog[r][x]
                            /\ localLog[r][x] \in Int /\ draft[a][x] \in Int
      BY <3>2 DEF IInv, Types, Entries, Unlisted
    <3>5. CASE \A x \in Tables : draft[a][x] <= localLog[r][x]
      BY <2>1, <3>4, <3>5
    <3>6. CASE \A x \in Changed(a) : localLog[r][x] < draft[a][x]
      <4>1. ASSUME NEW x \in Changed(a) PROVE localLog'[r][x] < draft[a][x]
        <5>1. x \in Tables /\ x \in committed[a] /\ draft[a][x] = markerVersion[a][x]
          BY <2>1 DEF ForwardInv, OpensTables, Changed, CutInv, Published, Wrote
        <5>2. CommitsOf(a, x) = {markerVersion[a][x]}
          BY <2>1, <5>1 DEF CutInv, CommitsKnown, Wrote, Acknowledged, Failed
        <5>3. log[x][draft[a][x]].by \in Txns
          BY <5>1, <5>2 DEF CommitsOf
        <5>4. CASE x = y
          <6>1. draft[a][x] # localLog[r][x] + 1
            BY <3>2, <5>3, <5>4
          <6> QED BY <3>4, <3>6, <4>1, <5>1, <5>4, <6>1
        <5>5. CASE x # y
          BY <3>4, <3>6, <5>1, <5>5
        <5> QED BY <5>4, <5>5
      <4> QED BY <2>1, <4>1
    <3> QED BY <2>1, <3>3, <3>5, <3>6 DEF OrderInv, SeesAllOrNone
  <2> QED BY <2>2, <2>3, <2>4, UnjoinedSteps
<1> QED BY <1>1, <1>2, WroteSteps

\* Who comes to be acknowledged has not written what is listed already.
LEMMA ListedKeepsWriters ==
  ASSUME IInv, LogStep, CutInv, ForwardInv, [Next]_vars, NEW x \in Tables, NEW v \in Nat,
         v <= globalLog[x], ~FromWrote(x, v)
  PROVE  ~FromWrote(x, v)'
<1> SUFFICES ASSUME NEW a \in Txns, Wrote(a)', log'[x][v].by = a
             PROVE  FALSE
  BY DEF FromWrote
<1>1. Exists(x, v) /\ v \in Versions
  BY DEF IInv, ListedVersionsExist, Exists
<1>2. log[x][v].by = a
  BY <1>1, LogIsFinal DEF IInv
<1>3. CASE Settled(a)
  BY <1>2, <1>3 DEF Settled, FromWrote
<1>4. CASE Publish(a)
  <2>1. pc[a] = "claim" /\ v \in CommitsOf(a, x)
    BY <1>1, <1>2, <1>4 DEF Publish, CommitsOf
  <2>2. x \in committed[a] /\ v = markerVersion[a][x] /\ x \in Changed(a)
    BY <2>1 DEF CutInv, CommitsKnown, Failed
  <2>3. draft[a][x] = markerVersion[a][x] /\ draft[a][x] > globalLog[x]
    BY <2>1, <2>2 DEF IInv, TxnInv, DraftExists, ForwardInv, TakesNothingBack
  <2>4. globalLog[x] \in Int
    BY DEF IInv, Types, Entries, Unlisted
  <2> QED BY <2>2, <2>3, <2>4
<1> QED BY <1>3, <1>4, WroteSteps

\* What a transaction claims is not listed, and nobody acknowledged wrote it.
LEMMA ClaimsUnlisted ==
  ASSUME IInv, ForwardInv, CutInv, NEW t \in Txns, pc[t] = "claim",
         NEW x \in Changed(t), x \in Tables, NEW v \in Versions, v >= markerVersion[t][x]
  PROVE  ~FromWrote(x, v)
<1> SUFFICES ASSUME NEW a \in Txns, Wrote(a), log[x][v].by = a
             PROVE  FALSE
  BY DEF FromWrote
<1>1. v \in CommitsOf(a, x)
  BY DEF CommitsOf
<1>2. x \in committed[a] /\ v = markerVersion[a][x] /\ x \in Changed(a)
  BY <1>1 DEF CutInv, CommitsKnown, Failed, Wrote, Acknowledged
<1>3. v <= globalLog[x]
  BY <1>2 DEF CutInv, Published, Wrote
<1>4. markerVersion[t][x] > globalLog[x]
  BY DEF IInv, TxnInv, DraftExists, ForwardInv, TakesNothingBack
<1>5. /\ globalLog[x] \in Int /\ markerVersion[t][x] \in Int /\ v \in Int
  <2>1. Types
    BY DEF IInv
  <2>2. globalLog[x] \in Entries
    BY <2>1 DEF Types
  <2>3. markerVersion[t][x] \in Nat
    BY <2>1 DEF Types
  <2>4. v \in Nat
    BY GlobalLogAssumption DEF Versions
  <2> QED BY <2>2, <2>3, <2>4 DEF Entries, Unlisted
<1> QED BY <1>3, <1>4, <1>5

\* Where a repair comes from
LEMMA RepairSteps ==
  ASSUME IInv, NEW t \in Txns, pc'[t] \in Repairs \cup {"scan"},
         Step(t) \/ LockTimeout(t) \/ GlobalLogUnreadable(t) \/ ClaimFails(t) \/ Crash(t)
  PROVE  ClaimTaken(t) \/ Repairing(t)
<1> USE DEF Types, Repairs
<1>a. Types
  BY DEF IInv
<1>1. CASE Begin(t) \/ SkipForeignVersion(t)
  BY <1>a, <1>1 DEF Begin, SkipForeignVersion
<1>2. CASE Open(t)
  BY <1>a, <1>2 DEF Open
<1>3. CASE Locking(t) \/ LockTimeout(t)
  BY <1>a, <1>3 DEF Locking, TakeLock, FindOwnLock, ObserveLock, FindLockStale,
              RereadLock, BreakLock, LockTimeout, SeesOtherLock
<1>4. CASE Validate(t) \/ CheckGlobalLog(t) \/ GlobalLogUnreadable(t)
  BY <1>a, <1>4 DEF Validate, CheckGlobalLog, GlobalLogUnreadable
<1>5. CASE Claim(t) \/ ClaimFails(t) \/ Publish(t)
  BY <1>a, <1>5 DEF Claim, ClaimFails, Publish
<1>6. CASE Releasing(t) \/ Crash(t)
  <2>1. goal[t] \in {"committed", "aborted", "validate"}
    BY <1>a
  <2> QED BY <1>a, <1>6, <2>1 DEF Releasing, ReadOwnLock, Unlock, Crash
<1> QED BY <1>1, <1>2, <1>3, <1>4, <1>5, <1>6 DEF Step, Opening, Committing

\* What a repair found stays unlisted but for the repair itself.
LEMMA RepairsUnlistedStep ==
  ASSUME IInv, IInv', LogIsFound, LockIsExclusive, ForwardInv, CutInv, [Next]_vars,
         NEW t \in Txns, RepairsUnlisted(t),
         \A x \in Tables : globalLog'[x] >= globalLog[x]
  PROVE  RepairsUnlisted(t)'
<1> SUFFICES ASSUME NEW x \in Tables, Claims(t, x)', pc'[t] \in Repairs \cup {"scan"}
             PROVE  /\ pc'[t] = "repair" => draft'[t][x] >= scanned'[t]
                    /\ pc'[t] = "join" => globalLog'[x] >= scanned'[t]
                    /\ \A v \in Versions : v >= markerVersion'[t][x] => ~FromWrote(x, v)'
  BY DEF RepairsUnlisted, Repairs
<1>a. /\ globalLog[x] \in Int /\ globalLog'[x] \in Int /\ draft[t][x] \in Int
      /\ scanned[t] \in Nat /\ markerVersion[t][x] \in Nat /\ Types /\ Types'
      /\ \A v \in Versions : v \in Nat
  <2>1. Types /\ Types'
    BY DEF IInv
  <2>2. \A v \in Versions : v \in Nat
    BY GlobalLogAssumption DEF Versions
  <2>3. /\ globalLog[x] \in Int /\ globalLog'[x] \in Int /\ draft[t][x] \in Int
        /\ scanned[t] \in Nat /\ markerVersion[t][x] \in Nat
    BY <2>1 DEF Types, Entries, Unlisted
  <2> QED BY <2>1, <2>2, <2>3
<1>b. ASSUME pc[t] \in Critical, Claims(t, x), NEW v \in Versions, ~FromWrote(x, v),
             ~Claim(t), ~ClaimFails(t), ~Publish(t)
      PROVE  ~FromWrote(x, v)'
  <2> SUFFICES ASSUME NEW a \in Txns, Wrote(a)', log'[x][v].by = a
               PROVE  FALSE
    BY DEF FromWrote
  <2>1. \A u \in Txns \ {t} : pc[u] # "claim"
    BY <1>b DEF LockIsExclusive, Critical
  <2>2. Settled(a)
    BY <1>b, <2>1, WroteSteps DEF Publish
  <2>3. log'[x][v].by = log[x][v].by \/ log'[x][v].by \notin Txns
    <3>1. CASE UNCHANGED vars
      BY <3>1 DEF vars
    <3>2. ASSUME NEW y \in Tables, ForeignCommit(y)
          PROVE  log'[x][v].by = log[x][v].by \/ log'[x][v].by \notin Txns
      <4>1. PICK n \in Versions, o \in BOOLEAN : log' = [log EXCEPT ![y][n + 1] = Commit(Engine, o, n)]
        BY <3>2 DEF ForeignCommit
      <4> QED BY <1>a, <4>1, GlobalLogAssumption DEF Types, Commit
    <3>3. ASSUME NEW u \in Txns,
                 Step(u) \/ LockTimeout(u) \/ GlobalLogUnreadable(u) \/ ClaimFails(u) \/ Crash(u)
          PROVE  log'[x][v] = log[x][v]
      <4>1. ~Claim(u) /\ ~ClaimFails(u)
        BY <1>b, <2>1 DEF Claim, ClaimFails
      <4> QED BY <3>3, <4>1, LogSteps
    <3> QED BY <3>1, <3>2, <3>3 DEF Next, AllEnded
  <2>4. log[x][v].by = a
    BY <2>3
  <2> QED BY <1>b, <2>2, <2>4 DEF Settled, FromWrote
<1>c. Claims(t, x)' /\ opened'[t] = opened[t] /\ committed'[t] = committed[t] => Claims(t, x)
  BY DEF Claims, ToClaim, Changed, OpenTables
<1>1. ASSUME StaysPut(t)
      PROVE  /\ pc'[t] = "repair" => draft'[t][x] >= scanned'[t]
             /\ pc'[t] = "join" => globalLog'[x] >= scanned'[t]
             /\ \A v \in Versions : v >= markerVersion'[t][x] => ~FromWrote(x, v)'
  <2>1. Claims(t, x) /\ pc[t] \in Repairs \cup {"scan"} /\ pc[t] \in Critical
    BY <1>1, <1>c DEF StaysPut, Repairs, Critical
  <2>2. ~Claim(t) /\ ~ClaimFails(t) /\ ~Publish(t)
    BY <2>1 DEF Claim, ClaimFails, Publish, Repairs
  <2> QED BY <1>1, <1>a, <1>b, <2>1, <2>2 DEF StaysPut, RepairsUnlisted
<1>2. CASE UNCHANGED vars \/ \E y \in Tables : ForeignCommit(y)
  <2>1. UNCHANGED txnVars
    BY <1>2 DEF vars, ForeignCommit
  <2> QED BY <1>1, <2>1 DEF StaysPut
<1>3. ASSUME NEW u \in Txns \ {t},
             Step(u) \/ LockTimeout(u) \/ GlobalLogUnreadable(u) \/ ClaimFails(u) \/ Crash(u)
      PROVE  StaysPut(t)
  BY <1>3, <1>a, OthersStayPut
<1>4. CASE ClaimTaken(t)
  <2>1. pc[t] = "claim" /\ pc'[t] = "scan" /\ UNCHANGED <<log, opened, committed, markerVersion>>
    BY <1>4, <1>a DEF ClaimTaken, Types, Repairs
  <2>2. Claims(t, x) /\ x \in Changed(t) /\ pc[t] \in Critical
    BY <1>c, <2>1 DEF Claims, ToClaim, Critical
  <2>3. ~Claim(t) /\ ~ClaimFails(t) /\ ~Publish(t)
    BY <1>a, <2>1 DEF Claim, ClaimFails, Publish, Types
  <2> QED BY <1>b, <2>1, <2>2, <2>3, ClaimsUnlisted
<1>5. CASE Repairing(t)
  <2>1. /\ pc[t] \in Repairs \cup {"scan"} /\ UNCHANGED <<opened, committed>>
        /\ markerVersion'[t][x] >= markerVersion[t][x]
    <3>1. CASE Scan(t) \/ ReadEntry(t) \/ WriteEntry(t)
      BY <3>1, <1>a DEF Scan, ReadEntry, WriteEntry, Repairs
    <3>2. CASE JoinVersion(t)
      <4>1. PICK y \in Tables : markerVersion' = [markerVersion EXCEPT ![t][y] = markerVersion[t][y] + 1]
        BY <3>2 DEF JoinVersion
      <4>2. markerVersion'[t][x] \in {markerVersion[t][x], markerVersion[t][x] + 1}
        BY <1>a, <4>1 DEF Types
      <4> QED BY <1>a, <3>2, <4>2 DEF JoinVersion, Repairs
    <3> QED BY <1>5, <3>1, <3>2 DEF Repairing
  <2>2. Claims(t, x) /\ pc[t] \in Critical
    BY <1>c, <2>1 DEF Critical, Repairs
  <2>3. ~Claim(t) /\ ~ClaimFails(t) /\ ~Publish(t)
    BY <2>1 DEF Claim, ClaimFails, Publish, Repairs
  <2>4. ASSUME NEW v \in Versions, v >= markerVersion'[t][x]
        PROVE  ~FromWrote(x, v)'
    <3>1. markerVersion'[t][x] \in Nat
      BY <1>a DEF Types
    <3>2. v >= markerVersion[t][x]
      BY <1>a, <2>1, <2>4, <3>1
    <3> QED BY <1>b, <2>1, <2>2, <2>3, <3>2 DEF RepairsUnlisted
  <2>5. /\ pc'[t] = "repair" => draft'[t][x] >= scanned'[t]
        /\ pc'[t] = "join" => globalLog'[x] >= scanned'[t]
    <3>1. CASE Scan(t)
      BY <1>a, <3>1 DEF Scan, Types
    <3>2. CASE ReadEntry(t)
      <4>1. PICK y \in Tables :
              /\ Claims(t, y)
              /\ IF globalLog[y] >= scanned[t]
                 THEN Goto(t, "join") /\ UNCHANGED draft
                 ELSE /\ draft' = [draft EXCEPT ![t] = [globalLog EXCEPT ![y] = scanned[t]]]
                      /\ Goto(t, "repair")
        BY <3>2 DEF ReadEntry, LogIsFound
      <4>2. y = x /\ UNCHANGED <<globalLog, scanned>>
        BY <2>2, <3>2, <4>1, ClaimsOne DEF ReadEntry
      <4> QED BY <1>a, <4>1, <4>2 DEF Types
    <3>3. CASE WriteEntry(t)
      <4>1. pc[t] = "repair" /\ UNCHANGED scanned /\ pc'[t] \in {"join", "release"}
        BY <1>a, <3>3 DEF WriteEntry, Types
      <4>2. pc'[t] = "join" => globalLog' = draft[t]
        BY <1>a, <3>3 DEF WriteEntry, Types
      <4> QED BY <2>2, <4>1, <4>2 DEF RepairsUnlisted
    <3>4. CASE JoinVersion(t)
      <4>1. pc[t] = "join" /\ UNCHANGED <<globalLog, scanned>> /\ pc'[t] \in {"join", "release"}
        BY <1>a, <3>4 DEF JoinVersion, Types
      <4> QED BY <2>2, <4>1 DEF RepairsUnlisted
    <3> QED BY <1>5, <3>1, <3>2, <3>3, <3>4 DEF Repairing
  <2> QED BY <2>4, <2>5
<1> QED BY <1>1, <1>2, <1>3, <1>4, <1>5, RepairSteps DEF Next, AllEnded

\* What was passed without being read was listed by the repair.
LEMMA MissedUnlistedStep ==
  ASSUME IInv, IInv', ForwardInv, CutInv, [Next]_vars, NEW t \in Txns,
         RepairsUnlisted(t), MissedUnlisted(t),
         \A x \in Tables : globalLog'[x] >= globalLog[x]
  PROVE  MissedUnlisted(t)'
<1> SUFFICES ASSUME NEW x \in Tables, NEW v \in missed'[t][x]
             PROVE  v <= globalLog'[x] /\ ~FromWrote(x, v)'
  BY DEF MissedUnlisted
<1>1. /\ missed'[t][x] \in VersionSets /\ LogStep
      /\ globalLog[x] \in Int /\ globalLog'[x] \in Int /\ scanned[t] \in Int
  BY NextIsLogStep DEF IInv, Types, Entries, Unlisted
<1>a. v \in Nat
  BY <1>1 DEF VersionSets
<1>2. v <= globalLog[x] /\ ~FromWrote(x, v)
  <2>1. CASE v \in missed[t][x]
    BY <2>1 DEF MissedUnlisted
  <2>2. CASE v \notin missed[t][x]
    <3>1. JoinVersion(t) /\ Claims(t, x) /\ v = markerVersion[t][x]
      BY <2>2, MissedSteps DEF IInv
    <3>2. /\ pc[t] = "join" /\ markerVersion[t][x] <= scanned[t]
      BY <3>1 DEF JoinVersion, IInv, TxnInv, KnownExists, Repairs
    <3>3. scanned[t] <= globalLog[x]
      BY <3>1, <3>2 DEF RepairsUnlisted
    <3>4. v <= globalLog[x]
      BY <1>1, <1>a, <3>1, <3>2, <3>3
    <3>5. v \in Versions
      BY <1>1, <1>a, <3>4 DEF IInv, ListedVersionsExist, Exists
    <3> QED BY <1>1, <1>a, <3>1, <3>2, <3>4, <3>5 DEF RepairsUnlisted, Repairs
  <2> QED BY <2>1, <2>2
<1>3. ~FromWrote(x, v)'
  BY <1>1, <1>a, <1>2, ListedKeepsWriters
<1> QED BY <1>1, <1>a, <1>2, <1>3

\* Every part of the invariant that orders the transactions
LEMMA OrderInvStep ==
  ASSUME IInv, IInv', LockIsExclusive, LogIsFound, Serializable, ForwardInv, CutInv,
         \A t \in Txns : OnlyReads(t), OrderInv, [Next]_vars
  PROVE  OrderInv'
<1>0. LogStep /\ \A x \in Tables : globalLog'[x] >= globalLog[x]
  BY NextIsLogStep, MovesForward
<1>1. AllTablesListed'
  <2> SUFFICES ASSUME NEW x \in Tables PROVE globalLog'[x] \in Nat
    BY DEF AllTablesListed
  <2>1. globalLog[x] \in Nat /\ globalLog'[x] \in Int
    BY DEF OrderInv, AllTablesListed, IInv, Types, Entries, Unlisted
  <2> QED BY <1>0, <2>1
<1>2. ASSUME NEW u \in Txns
      PROVE  (SnapshotListed(u) /\ ReadsListed(u) /\ ReadsUnjoined(u) /\ ReadsNewest(u))'
  <2>0. /\ SnapshotListed(u) /\ ReadsListed(u) /\ ReadsUnjoined(u) /\ ReadsNewest(u)
        /\ OpensTables(u) /\ OnlyReads(u) /\ AllTablesListed
    BY DEF OrderInv, ForwardInv
  <2>1. ASSUME StaysPut(u), pc[u] = "claim" => globalLog' = globalLog
        PROVE  (SnapshotListed(u) /\ ReadsListed(u) /\ ReadsUnjoined(u) /\ ReadsNewest(u))'
    <3>1. OpenTables(u)' = OpenTables(u) /\ WasRead(u)' = WasRead(u) /\ (Unjoined(u)' <=> Unjoined(u))
      BY <2>1 DEF StaysPut, OpenTables, WasRead, Unjoined, Changed
    <3>2. SnapshotListed(u)'
      BY <1>0, <2>0, <2>1, <3>1, SettledSnapshot DEF StaysPut
    <3>3. \A x \in OpenTables(u) : (Complete(x, readAt[u][x]) /\ ListedBelow(x, readAt[u][x]))'
      BY <1>0, <2>0, <2>1, OpenStays DEF StaysPut, ReadsListed
    <3>4. ReadsListed(u)'
      BY <3>1, <3>3 DEF ReadsListed
    <3>5. ReadsUnjoined(u)'
      BY <2>0, <2>1, <3>1 DEF StaysPut, ReadsUnjoined, Joined
    <3>6. ReadsNewest(u)'
      BY <2>0, <2>1, <3>1 DEF StaysPut, ReadsNewest
    <3> QED BY <3>2, <3>4, <3>5, <3>6
  <2>2. CASE UNCHANGED vars \/ \E x \in Tables : ForeignCommit(x)
    <3>1. UNCHANGED <<globalLog, txnVars>>
      BY <2>2 DEF vars, ForeignCommit
    <3> QED BY <2>1, <3>1 DEF StaysPut
  <2>3. ASSUME NEW t \in Txns,
               Step(t) \/ LockTimeout(t) \/ GlobalLogUnreadable(t) \/ ClaimFails(t) \/ Crash(t)
        PROVE  (SnapshotListed(u) /\ ReadsListed(u) /\ ReadsUnjoined(u) /\ ReadsNewest(u))'
    <3>1. CASE u = t
      <4>1. SnapshotListed(u)'
        BY <1>0, <2>0, <2>3, <3>1, SnapshotListedStep
      <4>2. ReadsListed(u)'
        BY <1>0, <2>0, <2>3, <3>1, ReadsListedStep
      <4>3. ReadsUnjoined(u)' /\ ReadsNewest(u)'
        BY <2>0, <2>3, <3>1, ReadsUnjoinedStep, ReadsNewestStep
      <4> QED BY <4>1, <4>2, <4>3
    <3>2. CASE u # t
      <4>1. pc[u] = "claim" => globalLog' = globalLog
        BY <2>3, <3>2, WritesItsDraft DEF IInv, LockIsExclusive, Critical
      <4> QED BY <2>1, <2>3, <3>2, <4>1, OthersStayPut DEF IInv
    <3> QED BY <3>1, <3>2
  <2> QED BY <2>2, <2>3 DEF Next, AllEnded
<1>3. \A u \in Txns : RepairsUnlisted(u)' /\ MissedUnlisted(u)'
  BY <1>0, RepairsUnlistedStep, MissedUnlistedStep DEF OrderInv
<1>4. \A a, b \in Txns : InOrder(a, b)' /\ SeesAllOrNone(a, b)'
  BY InOrderStep, SeesAllOrNoneStep
<1> QED BY <1>1, <1>2, <1>3, <1>4 DEF OrderInv

\* At first every table is listed, and nobody has read anything.
LEMMA InitOrderInv == Init /\ Listed = Tables => OrderInv
<1> SUFFICES ASSUME Init, Listed = Tables PROVE OrderInv
  OBVIOUS
<1>1. \A t \in Txns : pc[t] = "begin" /\ opened[t] = 0
  BY DEF Init
<1>2. AllTablesListed
  BY DEF Init, AllTablesListed
<1>3. \A t \in Txns : ~Unjoined(t) /\ ~Wrote(t) /\ OpenTables(t) = {}
  <2>1. ASSUME NEW t \in Txns PROVE OpenTables(t) = {}
    <3>1. \A i \in 1 .. opened[t] : FALSE
      BY <1>1
    <3> QED BY <3>1 DEF OpenTables
  <2> QED BY <1>1, <2>1 DEF Unjoined, Wrote, Acknowledged
<1> QED
  BY <1>1, <1>2, <1>3 DEF Init, OrderInv, SnapshotListed, ReadsListed, ReadsUnjoined,
                          ReadsNewest, RepairsUnlisted, MissedUnlisted, Repairs,
                          InOrder, SeesAllOrNone, Validated

\* Listed before is a strict order on the transactions with commits.
LEMMA BeforeIsStrict ==
  ASSUME IInv, ForwardInv, NEW a \in Txns, NEW b \in Txns, Wrote(b), Before(a, b)
  PROVE  /\ a # b
         /\ ~ \A x \in Tables : draft[b][x] <= draft[a][x]
<1>1. PICK x \in Changed(b) : x \in Tables
  BY DEF Wrote, ForwardInv, OpensTables, Changed
<1>2. draft[a][x] \in Int /\ draft[b][x] \in Int /\ draft[a][x] < draft[b][x]
  BY <1>1 DEF IInv, Types, Entries, Unlisted, Before
<1> QED BY <1>1, <1>2

\* Of finitely many transactions with commits one was listed first.
LEMMA FirstListed ==
  ASSUME IInv, ForwardInv, OrderInv, IsFiniteSet(Txns),
         NEW W \in SUBSET {t \in Txns : Wrote(t)}, W # {}
  PROVE  \E w \in W : \A b \in W \ {w} : Before(w, b)
<1> DEFINE Earlier(a) == {b \in W : Before(b, a)}
           R == StrictSubsetOrdering(Txns)
           Sets == {Earlier(a) : a \in W}
<1>a. W \subseteq Txns
  OBVIOUS
<1>1. Sets \subseteq FiniteSubsetsOf(Txns) /\ Sets # {}
  <2>1. \A a \in W : Earlier(a) \in SUBSET Txns
    OBVIOUS
  <2>2. FiniteSubsetsOf(Txns) = SUBSET Txns
    BY FS_FiniteSubsetsOfFinite
  <2> HIDE DEF Earlier
  <2>3. PICK a \in W : Earlier(a) \in Sets
    OBVIOUS
  <2>4. Sets \subseteq SUBSET Txns
    BY <2>1
  <2> HIDE DEF Sets
  <2> QED BY <2>2, <2>3, <2>4
<1>2. PICK E \in Sets : \A F \in Sets : ~(<<F, E>> \in R)
  <2>1. IsWellFoundedOn(R, FiniteSubsetsOf(Txns))
    BY FS_StrictSubsetOrderingWellFounded
  <2> HIDE DEF R, Sets
  <2> QED BY <1>1, <2>1, WFMin
<1>3. PICK w \in W : E = Earlier(w)
  OBVIOUS
<1>4. ASSUME NEW b \in W, Before(b, w) PROVE FALSE
  <2>1. b \in Earlier(w) /\ b \notin Earlier(b)
    BY <1>4, BeforeIsStrict
  <2>2. ASSUME NEW c \in W, Before(c, b) PROVE Before(c, w)
    <3>1. \A x \in Tables : draft[c][x] <= draft[b][x] /\ draft[b][x] <= draft[w][x]
      BY <1>4, <2>2 DEF Before
    <3>2. \A x \in Tables : draft[b][x] \in Int /\ draft[c][x] \in Int /\ draft[w][x] \in Int
      BY DEF IInv, Types, Entries, Unlisted
    <3>3. \A x \in Tables : draft[c][x] <= draft[w][x]
      BY <3>1, <3>2
    <3>4. CASE c = w
      BY <1>4, <2>2, <3>1, <3>4, BeforeIsStrict
    <3>5. CASE Before(w, c)
      BY <3>3, <3>5, BeforeIsStrict
    <3> QED BY <3>4, <3>5 DEF OrderInv, InOrder
  <2>3. Earlier(b) \subseteq Earlier(w) /\ Earlier(b) # Earlier(w)
    BY <2>1, <2>2
  <2>4. <<Earlier(b), Earlier(w)>> \in R
    BY <2>3 DEF StrictSubsetOrdering
  <2> QED BY <1>2, <1>3, <2>4
<1>5. \A b \in W \ {w} : Before(w, b)
  BY <1>4 DEF OrderInv, InOrder
<1> QED BY <1>5

\* The acknowledged transactions in the order in which they were listed, and
\* whoever only reads right after the last one it has seen, are a serial
\* execution.
LEMMA OrderIsSerial ==
  ASSUME IInv, ForwardInv, CutInv, OrderInv, \A t \in Txns : OnlyReads(t), IsFiniteSet(Txns)
  PROVE  AcknowledgedAreSerializable
<1> SUFFICES ASSUME NEW S \in SUBSET {t \in Txns : pc[t] = "committed"}, S # {}
             PROVE  \E a \in S : \A b \in S \ {a} : ~Precedes(b, a)
  BY DEF AcknowledgedAreSerializable
<1>a. \A t \in S : t \in Txns /\ pc[t] = "committed" /\ Acknowledged(t) /\ ~Failed(t)
  BY DEF Acknowledged, Failed
<1>b. \A t \in S : \A x \in OpenTables(t) : x \in Tables
  BY <1>a DEF ForwardInv, OpensTables
\* Without commits
<1>1. ASSUME NEW r \in S, ~Wrote(r)
      PROVE  /\ \A x \in Tables : CommitsOf(r, x) = {}
             /\ Unjoined(r)
             /\ \A x \in OpenTables(r) : readAt[r][x] = localLog[r][x]
  <2>1. r \in ReadOnly \/ Changed(r) = {}
    BY <1>a, <1>1 DEF Wrote
  <2>2. Unjoined(r)
    BY <1>a, <2>1 DEF Unjoined
  <2>3. \A x \in Tables : CommitsOf(r, x) = {}
    <3>1. CASE r \in ReadOnly
      BY <1>a, <3>1 DEF OnlyReads
    <3>2. CASE Changed(r) = {}
      BY <1>a, <3>2 DEF CutInv, CommitsKnown
    <3> QED BY <2>1, <3>1, <3>2
  <2> QED BY <1>a, <2>2, <2>3 DEF OrderInv, SnapshotListed
\* With commits
<1>2. ASSUME NEW w \in S, Wrote(w), NEW x \in Tables
      PROVE  CommitsOf(w, x) = IF x \in Changed(w) THEN {draft[w][x]} ELSE {}
  BY <1>a, <1>2 DEF CutInv, CommitsKnown, Published, Wrote
<1>3. \A t \in S : Changed(t) \subseteq OpenTables(t) /\ WasRead(t) \subseteq OpenTables(t)
  BY DEF Changed, WasRead
<1>4. \A t \in S : \A x \in Tables : /\ draft[t][x] \in Int /\ readAt[t][x] \in Int
                                   /\ localLog[t][x] \in Int
  BY <1>a DEF IInv, Types, Entries, Unlisted
\* Whoever has no commits precedes those it has not seen only.
<1>5. ASSUME NEW r \in S, ~Wrote(r), NEW a \in S, Precedes(r, a)
      PROVE  Wrote(a) /\ \E x \in WasRead(r) \cap Changed(a) : localLog[r][x] < draft[a][x]
  <2>1. PICK x \in WasRead(r) : \E v \in CommitsOf(a, x) : v > readAt[r][x]
    BY <1>b, <1>1, <1>3, <1>5 DEF Precedes
  <2>2. x \in Tables /\ readAt[r][x] = localLog[r][x]
    BY <1>b, <1>1, <1>3, <1>5
  <2>3. Wrote(a)
    BY <1>1, <2>1, <2>2
  <2>4. x \in Changed(a) /\ draft[a][x] > readAt[r][x]
    BY <1>2, <2>1, <2>2, <2>3
  <2> QED BY <1>4, <2>2, <2>3, <2>4
<1>6. CASE \A t \in S : ~Wrote(t)
  BY <1>5, <1>6
<1>7. CASE \E t \in S : Wrote(t)
  <2>1. PICK w \in {t \in S : Wrote(t)} : \A b \in {t \in S : Wrote(t)} \ {w} : Before(w, b)
    BY <1>a, <1>7, FirstListed
  \* Nobody with commits precedes the first one.
  <2>2. ASSUME NEW b \in S \ {w}, Wrote(b) PROVE ~Precedes(b, w)
    <3>1. Before(w, b)
      BY <2>1, <2>2
    <3>2. ASSUME NEW x \in Changed(b) \cap Changed(w),
                 NEW v \in CommitsOf(b, x), NEW u \in CommitsOf(w, x)
          PROVE  ~(v < u)
      <4>1. x \in Tables /\ v = draft[b][x] /\ u = draft[w][x]
        BY <1>b, <1>2, <1>3, <2>1, <2>2, <3>2
      <4> QED BY <1>4, <2>1, <2>2, <3>1, <4>1 DEF Before
    <3>3. ASSUME NEW x \in WasRead(w), NEW v \in CommitsOf(b, x) PROVE ~(v <= readAt[w][x])
      <4>1. x \in Tables
        BY <1>b, <1>3, <2>1
      <4>2. x \in Changed(b) /\ v = draft[b][x]
        BY <1>2, <2>2, <3>3, <4>1
      <4>3. readAt[w][x] < draft[b][x]
        BY <1>3, <2>1, <3>1, <4>2 DEF Before
      <4> QED BY <1>4, <2>1, <4>1, <4>2, <4>3
    <3>4. ASSUME NEW x \in WasRead(b), NEW v \in CommitsOf(w, x) PROVE ~(v > readAt[b][x])
      <4>1. x \in Tables
        BY <1>b, <1>3
      <4>2. x \in Changed(w) /\ v = draft[w][x]
        BY <1>2, <2>1, <3>4, <4>1
      <4>3. draft[w][x] <= readAt[b][x]
        BY <3>1, <4>2 DEF Before
      <4> QED BY <1>4, <2>1, <4>1, <4>2, <4>3
    <3> QED BY <3>2, <3>3, <3>4 DEF Precedes
  <2>3. CASE \A r \in S : ~Wrote(r) => ~Precedes(r, w)
    BY <2>1, <2>2, <2>3
  <2>4. CASE \E r \in S : ~Wrote(r) /\ Precedes(r, w)
    <3>1. PICK r \in S : ~Wrote(r) /\ Precedes(r, w)
      BY <2>4
    <3>2. PICK y \in WasRead(r) \cap Changed(w) : localLog[r][y] < draft[w][y]
      BY <1>5, <2>1, <3>1
    <3>3. ASSUME NEW b \in S \ {r}, Precedes(b, r) PROVE FALSE
      <4>1. Wrote(b)
        BY <1>5, <3>1, <3>3
      <4>2. PICK x \in WasRead(r) : \E v \in CommitsOf(b, x) : v <= readAt[r][x]
        BY <1>b, <1>1, <1>3, <3>1, <3>3 DEF Precedes
      <4>3. x \in Tables /\ readAt[r][x] = localLog[r][x]
        BY <1>b, <1>1, <1>3, <3>1
      <4>4. x \in Changed(b) /\ draft[b][x] <= localLog[r][x]
        BY <1>2, <4>1, <4>2, <4>3
      <4>5. \A z \in Tables : draft[b][z] <= localLog[r][z]
        <5>1. ~(localLog[r][x] < draft[b][x])
          BY <1>4, <4>3, <4>4
        <5> QED BY <1>1, <1>a, <3>1, <4>1, <4>4, <5>1 DEF OrderInv, SeesAllOrNone
      <4>6. \A z \in Tables : draft[w][z] <= draft[b][z]
        BY <1>4, <2>1, <4>1 DEF Before
      <4>7. y \in Tables
        BY <1>b, <1>3
      <4> QED BY <1>4, <2>1, <3>2, <4>5, <4>6, <4>7
    <3> QED BY <3>3
  <2> QED BY <2>3, <2>4
<1> QED BY <1>6, <1>7

\* With Isolation::Serializable, when every table is listed, the acknowledged
\* transactions over any number of tables, those that only read included, are
\* equivalent to a serial execution, in the order of their writes of the global
\* log; other engines, crashed clients and versions that a repair passed
\* without reading them notwithstanding (start_validation has made sure that no
\* acknowledged transaction wrote them, and under the lock none comes to be).
THEOREM AcknowledgedInListingOrder ==
  ASSUME ~SlowHolders, BreakersAreAlone, LogIsFound, LogIsWritten, Serializable,
         Listed = Tables, IsFiniteSet(Txns)
  PROVE  Spec => []AcknowledgedAreSerializable
<1> DEFINE P == \A t \in Txns : CrashesMay(t) /\ OnlyReads(t)
<1>1. Init => OrderInv
  BY InitOrderInv
<1>2. IInv /\ IInv' /\ LockIsExclusive /\ ForwardInv /\ CutInv /\ P /\ OrderInv /\ [Next]_vars
        => OrderInv'
  BY OrderInvStep
<1>3. IInv /\ ForwardInv /\ CutInv /\ P /\ OrderInv => AcknowledgedAreSerializable
  BY OrderIsSerial
<1>4. Spec => []LockIsExclusive
  BY LockKeepsClientsApart
<1>5. Spec => []P
  BY ReadersDoNotCommit
<1>6. Spec /\ []LockIsExclusive => []ForwardInv
  BY ForwardIfExclusive, PTL
<1>7. Spec /\ []LockIsExclusive => []CutInv
  BY CutIfExclusive
<1> QED BY <1>1, <1>2, <1>3, <1>4, <1>5, <1>6, <1>7, Inductive, PTL DEF Spec
=============================================================================
