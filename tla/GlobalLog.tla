----------------------------- MODULE GlobalLog -----------------------------
(***************************************************************************)
(* The global version log of LakeVilla (level 2 alone: "LV[Read]"): one    *)
(* object that lists the current version of every table.  A transaction    *)
(* takes its snapshot from it, and commits under a lock object: it         *)
(* validates against the log, claims the next version of every table it    *)
(* changed with put-if-absent, and writes the log anew.                    *)
(*                                                                         *)
(* One action is one request to the object store, with the client's local  *)
(* work up to the next one.  Requests that read what cannot change any     *)
(* more are part of the step before them.                                  *)
(***************************************************************************)
EXTENDS Integers, Sequences

CONSTANTS
  Txns,          \* the transactions
  Tables,        \* the tables
  Creator,       \* the writer of the commits that created the tables
  Engine,        \* another engine, which knows neither lock nor global log
  NoWriter,
  OpenOrder,     \* OpenOrder[t]: the tables t opens, in this order
  Ops,           \* Ops[t][x]: what t does on x
  ReadOnly,      \* the transactions that call commit(read_only = true)
  Listed,        \* the tables that the global log lists at first
  Serializable,  \* Isolation::Serializable, else Isolation::Snapshot
  Repair,        \* global_log_repair
  RepairAfter,   \* global_log_repair_after
  CheckAtBegin,  \* global_log_check_at_begin
  MayCrash,      \* the transactions whose client may crash
  SlowHolders,   \* whether a client may hold the lock for longer than its lease
  FaultKinds,    \* the storage errors: those that outlast the retries, if there are any
  MaxFaults,     \* bound on the number of such errors in one behaviour
  MaxForeign,    \* bound on the commits of the other engine
  MaxVersion     \* bound on the log versions of a table

OpKinds == {"read", "append", "update"}
AllFaultKinds == {"head", "read", "lock", "claim", "publish", "unlock"}

ASSUME GlobalLogAssumption ==
  /\ Txns \cap {Creator, Engine, NoWriter} = {}
  /\ Creator # NoWriter /\ Engine # NoWriter
  /\ OpenOrder \in [Txns -> Seq(Tables)]
  /\ \A t \in Txns : OpenOrder[t] # << >>
  /\ Ops \in [Txns -> [Tables -> SUBSET OpKinds]]
  /\ ReadOnly \subseteq Txns /\ MayCrash \subseteq Txns /\ Listed \subseteq Tables
  /\ {Serializable, Repair, CheckAtBegin, SlowHolders} \subseteq BOOLEAN
  /\ FaultKinds \subseteq AllFaultKinds
  /\ {RepairAfter, MaxFaults, MaxForeign, MaxVersion} \subseteq Nat

VARIABLES
  log,            \* log[x][v]: the object <v>.json of table x
  globalLog,      \* the version of every table, or Unlisted
  lock,           \* the lock object: the token of its holder
  faults,         \* storage errors so far
  foreign,        \* commits of the other engine so far
  pc,             \* where the transaction is
  opened,         \* number of tables in this->tables
  localLog,       \* local_log: the global log as of begin
  markerVersion,  \* marker_version: the version to be claimed
  calls,          \* calls of acquire_global_lock: each makes a new token
  observed,       \* the token of another client seen in the lock
  draft,          \* the content of the global log about to be written
  committed,      \* the tables whose version is claimed
  claimFailures,  \* claim_failures
  scanned,        \* repair: the highest version found
  missed,         \* missed[t][x]: versions passed without being read
  goal,           \* what follows after release_global_lock
  readAt          \* history: readAt[t][x]: the version t's reads of x reflect

txnVars == <<pc, opened, localLog, markerVersion, calls, observed, draft,
             committed, claimFailures, scanned, missed, goal, readAt>>
vars == <<log, globalLog, lock, faults, foreign, txnVars>>

-----------------------------------------------------------------------------
(* Objects in the store *)

Versions == 0 .. MaxVersion
Writers == Txns \cup {Creator, Engine, NoWriter}
Unlisted == -1
NothingListed == [x \in Tables |-> Unlisted]

\* A commit: its writer, whether it replaces the file of the key that all
\* updates look up, and the version in which it found that file.
Objects == [by : Writers, update : BOOLEAN, from : Nat]
Commit(w, u, v) == [by |-> w, update |-> u, from |-> v]
Absent == Commit(NoWriter, FALSE, 0)

Exists(x, v) == v \in Versions /\ log[x][v].by # NoWriter
Foreign(x, v) == Exists(x, v) /\ log[x][v].by = Engine
IsHighest(x, v) == Exists(x, v) /\ \A w \in Versions : w > v => ~Exists(x, w)

Token(t) == [by |-> t, n |-> calls[t]]
NoLock == [by |-> NoWriter, n |-> 0]

Fault(kind) == /\ kind \in FaultKinds
               /\ faults < MaxFaults
               /\ faults' = faults + 1

\* A HEAD, then a GET of the global log; a HEAD that fails looks like a log
\* that does not exist (and begin does not mind a GET that fails either).
Finds(g) == \/ g = globalLog /\ UNCHANGED faults
            \/ g = NothingListed /\ Fault("head")

Goto(t, label) == pc' = [pc EXCEPT ![t] = label]
ReleaseThen(t, label) == Goto(t, "release") /\ goal' = [goal EXCEPT ![t] = label]

-----------------------------------------------------------------------------
(* Begin and open_new_table: the snapshot *)

Begin(t) ==
  /\ pc[t] = "begin"
  /\ \E g \in {globalLog, NothingListed} :
       Finds(g) /\ localLog' = [localLog EXCEPT ![t] = g]
  /\ Goto(t, "open")
  /\ UNCHANGED <<log, globalLog, lock, foreign, opened, markerVersion, calls,
                 observed, draft, committed, claimFailures, scanned, missed, goal, readAt>>

NextTable(t) == OpenOrder[t][opened[t] + 1]

\* skip_foreign_versions: commits of other engines join the snapshot, those
\* of LakeVilla only become visible through the global log.  A HEAD that
\* fails ends the search.
SkipsForeign(t, x) ==
  CheckAtBegin /\ localLog[t][x] # Unlisted /\ Foreign(x, localLog[t][x] + 1)

SkipForeignVersion(t) ==
  LET x == NextTable(t) IN
  /\ pc[t] = "open"
  /\ SkipsForeign(t, x)
  /\ localLog' = [localLog EXCEPT ![t][x] = @ + 1]
  /\ UNCHANGED <<log, globalLog, lock, faults, foreign, pc, opened, markerVersion,
                 calls, observed, draft, committed, claimFailures, scanned,
                 missed, goal, readAt>>

\* load_table, reserve_version and the operations on the table: its snapshot
\* is the version in local_log, or the highest one in the listing.  After the
\* last table a read-only transaction commits, with no request at all.
Open(t) ==
  LET x == NextTable(t) IN
  /\ pc[t] = "open"
  /\ IF SkipsForeign(t, x) THEN Fault("head") ELSE UNCHANGED faults
  /\ \E v \in Versions :
       /\ IF localLog[t][x] # Unlisted THEN v = localLog[t][x] ELSE IsHighest(x, v)
       /\ localLog' = [localLog EXCEPT ![t][x] = v]
       /\ markerVersion' = [markerVersion EXCEPT ![t][x] = v + 1]
       /\ readAt' = [readAt EXCEPT ![t][x] = v]
  /\ opened' = [opened EXCEPT ![t] = @ + 1]
  /\ Goto(t, IF opened[t] + 1 < Len(OpenOrder[t]) THEN "open"
             ELSE IF t \in ReadOnly THEN "committed" ELSE "validate")
  /\ UNCHANGED <<log, globalLog, lock, foreign, calls, observed, draft, committed,
                 claimFailures, scanned, missed, goal>>

-----------------------------------------------------------------------------
(* commit(): conflicts and the lock *)

OpenTables(t) == {OpenOrder[t][i] : i \in 1 .. opened[t]}
Updates(t, x) == "update" \in Ops[t][x]
WasRead(t) == {x \in OpenTables(t) : Ops[t][x] \cap {"read", "update"} # {}}
Changed(t) == {x \in OpenTables(t) : Ops[t][x] \cap {"append", "update"} # {}}

\* concurrent_change and concurrent_removes: what the repair of the global
\* log added to the snapshot, but for the versions it could not read
Joined(t, x) == (readAt[t][x] + 1 .. markerVersion[t][x] - 1) \ missed[t][x]
ReadConflict(t) == \E x \in WasRead(t) : Joined(t, x) # {}
WriteConflict(t) ==
  \E x \in Changed(t) : Updates(t, x) /\ \E v \in Joined(t, x) : log[x][v].update

NoConflict(t) == FALSE   \* mutant: repaired versions join without a check
Conflict(t) == (Serializable /\ ReadConflict(t)) \/ WriteConflict(t)

Validate(t) ==
  /\ pc[t] = "validate"
  /\ IF Conflict(t)
     THEN Goto(t, "aborted") /\ UNCHANGED <<calls, observed>>
     ELSE /\ Goto(t, "lock")
          /\ calls' = [calls EXCEPT ![t] = @ + 1]
          /\ observed' = [observed EXCEPT ![t] = NoLock]
  /\ UNCHANGED <<log, globalLog, lock, faults, foreign, opened, localLog,
                 markerVersion, draft, committed, claimFailures, scanned, missed, goal, readAt>>

\* acquire_global_lock.  Attempts that find the lock as it was before change
\* nothing and are left out.
notLockVars == <<log, globalLog, foreign, opened, localLog, markerVersion, calls,
                 draft, committed, claimFailures, scanned, missed, goal, readAt>>

TakeLock(t) ==
  /\ pc[t] = "lock"
  /\ lock = NoLock
  /\ lock' = Token(t)
  /\ \/ Goto(t, "check") /\ UNCHANGED faults
     \/ Fault("lock") /\ UNCHANGED pc   \* the response is lost
  /\ UNCHANGED <<observed, notLockVars>>

FindOwnLock(t) ==
  /\ pc[t] = "lock"
  /\ lock = Token(t)
  /\ Goto(t, "check")
  /\ UNCHANGED <<lock, faults, observed, notLockVars>>

SeesOtherLock(t) == pc[t] = "lock" /\ lock \notin {NoLock, Token(t)}

ObserveLock(t) ==
  /\ SeesOtherLock(t)
  /\ lock # observed[t]
  /\ observed' = [observed EXCEPT ![t] = lock]
  /\ UNCHANGED <<lock, faults, pc, notLockVars>>

Ended == {"committed", "aborted", "crashed"}

\* The client that put the token will not remove it any more.
Abandoned(token) == pc[token.by] \in Ended \/ token # Token(token.by)

\* Mutants: the lock is broken as soon as it is seen twice; never
StaleAtOnce(t) == lock = observed[t]
NeverStale(t) == FALSE

\* The content did not change for global_lock_lease_ms.
Stale(t) == lock = observed[t] /\ (SlowHolders \/ Abandoned(lock))

FindLockStale(t) ==
  /\ SeesOtherLock(t)
  /\ Stale(t)
  /\ Goto(t, "reread")
  /\ UNCHANGED <<lock, faults, observed, notLockVars>>

\* The lock is read once more before it is deleted.
RereadLock(t) ==
  /\ pc[t] = "reread"
  /\ Goto(t, IF lock = observed[t] THEN "break" ELSE "lock")
  /\ observed' = [observed EXCEPT ![t] = NoLock]
  /\ UNCHANGED <<lock, faults, notLockVars>>

BreakLock(t) ==
  /\ pc[t] = "break"
  /\ lock' = NoLock
  /\ Goto(t, "lock")
  /\ UNCHANGED <<faults, observed, notLockVars>>

LockTimeout(t) ==
  /\ SeesOtherLock(t)
  /\ Goto(t, "aborted")
  /\ UNCHANGED <<lock, faults, observed, notLockVars>>

-----------------------------------------------------------------------------
(* commit(): validation, claims and the new global log *)

Larger(a, b) == IF a >= b THEN a ELSE b
OnlyRead(t) == OpenTables(t) \ Changed(t)
ReadVersion(t, x) == markerVersion[t][x] - 1

ValidWrites(t, g) == \A x \in Changed(t) : g[x] < markerVersion[t][x]   \* mutant
Valid(t, g) ==
  /\ \A x \in Changed(t) : g[x] < markerVersion[t][x]
  /\ Serializable => \A x \in OnlyRead(t) : g[x] <= ReadVersion(t, x)

\* Mutants: tables with new files only count as read; the other tables are
\* left out; the next version is listed
DraftOfUpdates(t, g) ==
  [x \in Tables |->
     IF x \in Changed(t) /\ Updates(t, x) THEN markerVersion[t][x]
     ELSE IF x \in OpenTables(t) THEN Larger(g[x], ReadVersion(t, x)) ELSE g[x]]
DraftOfOpenTables(t, g) ==
  [x \in Tables |->
     IF x \in Changed(t) THEN markerVersion[t][x]
     ELSE IF x \in OpenTables(t) THEN Larger(g[x], ReadVersion(t, x)) ELSE Unlisted]

DraftOfNext(t, g) ==
  [x \in Tables |->
     IF x \in Changed(t) THEN markerVersion[t][x] + 1
     ELSE IF x \in OpenTables(t) THEN Larger(g[x], ReadVersion(t, x)) ELSE g[x]]

\* version_write_map over version_read_map, which has the other tables too
Draft(t, g) ==
  [x \in Tables |->
     IF x \in Changed(t) THEN markerVersion[t][x]
     ELSE IF x \in OpenTables(t) THEN Larger(g[x], ReadVersion(t, x)) ELSE g[x]]

notCheckVars == <<log, globalLog, lock, foreign, opened, localLog, markerVersion,
                  calls, observed, committed, claimFailures, scanned, missed, readAt>>

\* start_validation, once it has the lock
CheckGlobalLog(t) ==
  /\ pc[t] = "check"
  /\ \E g \in {globalLog, NothingListed} :
       /\ Finds(g)
       /\ IF Valid(t, g)
          THEN /\ draft' = [draft EXCEPT ![t] = Draft(t, g)]
               /\ Goto(t, "claim")
               /\ UNCHANGED goal
          ELSE ReleaseThen(t, "aborted") /\ UNCHANGED draft
  /\ UNCHANGED notCheckVars

GlobalLogUnreadable(t) ==
  /\ pc[t] \in {"check", "advance"}
  /\ Fault("read")
  /\ ReleaseThen(t, "aborted")
  /\ UNCHANGED <<notCheckVars, draft>>

ToClaim(t) == Changed(t) \ committed[t]

\* x is the table that the loop over this->tables in commit() is at.
Claims(t, x) ==
  /\ x \in ToClaim(t)
  /\ \E i \in 1 .. opened[t] :
       OpenOrder[t][i] = x /\ \A j \in 1 .. i - 1 : OpenOrder[t][j] \notin ToClaim(t)

WriteClaim(t, x) ==
  log' = [log EXCEPT ![x][markerVersion[t][x]] =
            Commit(t, Updates(t, x), readAt[t][x])]
Free(t, x) == markerVersion[t][x] \in Versions /\ ~Exists(x, markerVersion[t][x])

\* write_commit: put-if-absent
Claim(t) ==
  /\ pc[t] = "claim"
  /\ \E x \in Tables :
       /\ Claims(t, x) /\ Free(t, x)
       /\ WriteClaim(t, x)
       /\ committed' = [committed EXCEPT ![t] = @ \cup {x}]
  /\ UNCHANGED <<globalLog, lock, faults, foreign, pc, opened, localLog,
                 markerVersion, calls, observed, draft, claimFailures, scanned,
                 missed, goal, readAt>>

\* Another writer has the version: the transaction fails, or tries again, or
\* repairs the global log first.
ClaimTaken(t) ==
  /\ pc[t] = "claim"
  /\ \E x \in Tables : Claims(t, x) /\ Exists(x, markerVersion[t][x])
  /\ IF ~Repair
     THEN ReleaseThen(t, "aborted") /\ UNCHANGED claimFailures
     ELSE /\ claimFailures' = [claimFailures EXCEPT ![t] = @ + 1]
          /\ IF claimFailures[t] + 1 >= RepairAfter
             THEN Goto(t, "scan") /\ UNCHANGED goal
             ELSE ReleaseThen(t, "validate")
  /\ UNCHANGED <<log, globalLog, lock, faults, foreign, opened, localLog,
                 markerVersion, calls, observed, draft, committed, scanned, missed, readAt>>

\* No attempt is answered; the commit may be in the log all the same.
ClaimFails(t) ==
  /\ pc[t] = "claim"
  /\ Fault("claim")
  /\ \E x \in Tables : /\ Claims(t, x)
                        /\ \/ UNCHANGED log
                           \/ Free(t, x) /\ WriteClaim(t, x)
  /\ ReleaseThen(t, "aborted")
  /\ UNCHANGED <<globalLog, lock, foreign, opened, localLog, markerVersion, calls,
                 observed, draft, committed, claimFailures, scanned,
                 missed, readAt>>

\* create_global_snapshot; commit() is true even if the write fails.
Publish(t) ==
  /\ pc[t] = "claim"
  /\ ToClaim(t) = {}
  /\ \/ globalLog' = draft[t] /\ UNCHANGED faults
     \/ Fault("publish") /\ UNCHANGED globalLog
  /\ ReleaseThen(t, "committed")
  /\ UNCHANGED <<log, lock, foreign, opened, localLog, markerVersion, calls,
                 observed, draft, committed, claimFailures, scanned,
                 missed, readAt>>

-----------------------------------------------------------------------------
(* repair_global_log: the entry of a table whose claim failed is advanced, *)
(* and the versions up to it join the snapshot                             *)

\* Mutant: the first missing version is taken along.
PrefixAndOneMore(x, first, v) == \A w \in first .. v - 1 : Exists(x, w)
Prefix(x, first, v) == \A w \in first .. v : Exists(x, w)

\* Versions are classified until one is missing; a read that fails looks like
\* a missing version.
Scan(t) ==
  /\ pc[t] = "scan"
  /\ \E x \in Tables, v \in Versions :
       LET first == markerVersion[t][x] IN
       /\ Claims(t, x)
       /\ v >= first - 1
       /\ Prefix(x, first, v)
       /\ IF Exists(x, v + 1) THEN Fault("read") ELSE UNCHANGED faults
       /\ IF v < first
          THEN ReleaseThen(t, "aborted") /\ UNCHANGED scanned
          ELSE /\ Goto(t, "advance")
               /\ scanned' = [scanned EXCEPT ![t] = v]
               /\ UNCHANGED goal
  /\ UNCHANGED <<log, globalLog, lock, foreign, opened, localLog, markerVersion,
                 calls, observed, draft, committed, claimFailures, missed, readAt>>

notRepairVars == <<log, lock, foreign, opened, localLog, markerVersion, calls,
                   observed, committed, claimFailures, scanned, missed, readAt>>

\* update_global_entry reads the global log; an entry that is as high already
\* is not written.
ReadEntry(t) ==
  /\ pc[t] = "advance"
  /\ \E g \in {globalLog, NothingListed}, x \in Tables :
       /\ Claims(t, x)
       /\ Finds(g)
       /\ IF g[x] >= scanned[t]
          THEN Goto(t, "join") /\ UNCHANGED draft
          ELSE /\ draft' = [draft EXCEPT ![t] = [g EXCEPT ![x] = scanned[t]]]
               /\ Goto(t, "repair")
  /\ UNCHANGED <<globalLog, goal, notRepairVars>>

WriteEntry(t) ==
  /\ pc[t] = "repair"
  /\ \/ globalLog' = draft[t] /\ Goto(t, "join") /\ UNCHANGED <<faults, goal>>
     \/ Fault("publish") /\ ReleaseThen(t, "aborted") /\ UNCHANGED globalLog
  /\ UNCHANGED <<draft, notRepairVars>>

\* The next version joins the snapshot.  It is read once, by wait_for_marker,
\* whose result is ignored: a version whose read fails is passed all the same.
JoinVersion(t) ==
  /\ pc[t] = "join"
  /\ \E x \in Tables :
       LET v == markerVersion[t][x] IN
       /\ Claims(t, x)
       /\ markerVersion' = [markerVersion EXCEPT ![t][x] = v + 1]
       /\ \/ localLog' = [localLog EXCEPT ![t][x] = v] /\ UNCHANGED <<missed, faults>>
          \/ /\ Fault("read")
             /\ missed' = [missed EXCEPT ![t][x] = @ \cup {v}]
             /\ UNCHANGED localLog
       /\ IF v < scanned[t] THEN UNCHANGED <<pc, goal>> ELSE ReleaseThen(t, "validate")
  /\ UNCHANGED <<log, globalLog, lock, foreign, opened, calls, observed, draft,
                 committed, claimFailures, scanned, readAt>>

-----------------------------------------------------------------------------
(* release_global_lock; the end; other clients *)

notReleaseVars == <<log, globalLog, foreign, opened, localLog, markerVersion, calls,
                    observed, draft, committed, claimFailures, scanned, missed, goal, readAt>>

\* The lock is read, and deleted if it is the client's own.
ReadOwnLock(t) ==
  /\ pc[t] = "release"
  /\ Goto(t, IF lock = Token(t) THEN "unlock" ELSE goal[t])
  /\ UNCHANGED <<lock, faults, notReleaseVars>>

Unlock(t) ==
  /\ pc[t] = "unlock"
  /\ \/ lock' = NoLock /\ UNCHANGED faults
     \/ Fault("unlock") /\ UNCHANGED lock
  /\ Goto(t, goal[t])
  /\ UNCHANGED notReleaseVars

Crash(t) ==
  /\ t \in MayCrash
  /\ pc[t] \notin Ended
  /\ Goto(t, "crashed")
  /\ UNCHANGED <<lock, faults, notReleaseVars>>

\* Another engine commits to a table, with the Delta protocol only.
ForeignCommit(x) ==
  /\ foreign < MaxForeign
  /\ foreign' = foreign + 1
  /\ \E v \in Versions \ {MaxVersion}, u \in BOOLEAN :
       IsHighest(x, v) /\ log' = [log EXCEPT ![x][v + 1] = Commit(Engine, u, v)]
  /\ UNCHANGED <<globalLog, lock, faults, txnVars>>

Init ==
  /\ log = [x \in Tables |-> [v \in Versions |->
              IF v = 0 THEN Commit(Creator, FALSE, 0) ELSE Absent]]
  /\ globalLog = [x \in Tables |-> IF x \in Listed THEN 0 ELSE Unlisted]
  /\ lock = NoLock
  /\ faults = 0
  /\ foreign = 0
  /\ pc = [t \in Txns |-> "begin"]
  /\ opened = [t \in Txns |-> 0]
  /\ localLog = [t \in Txns |-> NothingListed]
  /\ markerVersion = [t \in Txns |-> [x \in Tables |-> 0]]
  /\ calls = [t \in Txns |-> 0]
  /\ observed = [t \in Txns |-> NoLock]
  /\ draft = [t \in Txns |-> NothingListed]
  /\ committed = [t \in Txns |-> {}]
  /\ claimFailures = [t \in Txns |-> 0]
  /\ scanned = [t \in Txns |-> 0]
  /\ missed = [t \in Txns |-> [x \in Tables |-> {}]]
  /\ goal = [t \in Txns |-> "aborted"]
  /\ readAt = [t \in Txns |-> [x \in Tables |-> 0]]

Opening(t) == Begin(t) \/ SkipForeignVersion(t) \/ Open(t)
Locking(t) == \/ TakeLock(t) \/ FindOwnLock(t) \/ ObserveLock(t)
              \/ FindLockStale(t) \/ RereadLock(t) \/ BreakLock(t)
Committing(t) == \/ Validate(t) \/ CheckGlobalLog(t) \/ Claim(t)
                 \/ ClaimTaken(t) \/ Publish(t)
Repairing(t) == Scan(t) \/ ReadEntry(t) \/ WriteEntry(t) \/ JoinVersion(t)
Releasing(t) == ReadOwnLock(t) \/ Unlock(t)

\* The steps of a client that does not lose its patience
Step(t) == \/ Opening(t) \/ Locking(t) \/ Committing(t) \/ Repairing(t)
           \/ Releasing(t)

AllEnded == (\A t \in Txns : pc[t] \in Ended) /\ UNCHANGED vars

Next ==
  \/ \E t \in Txns : \/ Step(t) \/ LockTimeout(t) \/ GlobalLogUnreadable(t)
                     \/ ClaimFails(t) \/ Crash(t)
  \/ \E x \in Tables : ForeignCommit(x)
  \/ AllEnded

Spec == Init /\ [][Next]_vars

\* Clients keep running unless they crash.
FairSpec == Spec /\ \A t \in Txns : WF_vars(Step(t))

-----------------------------------------------------------------------------
(* Properties *)

\* What an entry may hold that was read, or is about to be written
Entries == {Unlisted} \cup Nat
Labels == {"begin", "open", "validate", "lock", "reread", "break", "check", "claim",
           "scan", "advance", "repair", "join", "release", "unlock"}
Tokens == [by : Txns \cup {NoWriter}, n : Nat]

\* Type correctness; the global log lists versions within MaxVersion, though
\* what transactions want to list may lie above it.
TypeOK ==
  /\ log \in [Tables -> [Versions -> Objects]]
  /\ globalLog \in [Tables -> {Unlisted} \cup Versions]
  /\ lock \in Tokens
  /\ faults \in Nat /\ foreign \in Nat
  /\ pc \in [Txns -> Labels \cup Ended]
  /\ opened \in [Txns -> Nat]
  /\ localLog \in [Txns -> [Tables -> Entries]]
  /\ markerVersion \in [Txns -> [Tables -> Nat]]
  /\ calls \in [Txns -> Nat]
  /\ observed \in [Txns -> Tokens]
  /\ draft \in [Txns -> [Tables -> Entries]]
  /\ committed \in [Txns -> SUBSET Tables]
  /\ claimFailures \in [Txns -> Nat]
  /\ scanned \in [Txns -> Nat]
  /\ missed \in [Txns -> [Tables -> SUBSET Nat]]
  /\ goal \in [Txns -> {"committed", "aborted", "validate"}]
  /\ readAt \in [Txns -> [Tables -> Nat]]

CommitsOf(t, x) == {v \in Versions : log[x][v].by = t}

\* "only one transaction may validate and write the global log at a time":
\* acquire_global_lock and the breaking of a stale lock keep clients apart.
Critical == {"check", "claim", "scan", "advance", "repair", "join"}
LockIsExclusive ==
  \A t, u \in Txns : pc[t] \in Critical /\ pc[u] \in Critical => t = u

\* The global log only moves forward: no write of it takes back, or loses,
\* what another transaction or a repair has listed.
EntriesMoveForward == [][\A x \in Tables : globalLog'[x] >= globalLog[x]]_vars

\* Every listed version is in the log of its table, with all versions below,
\* whoever crashed or repaired: a snapshot can always be read.
ListedVersionsExist ==
  \A x \in Tables : \A v \in 0 .. globalLog[x] : Exists(x, v)

\* The global log is a cut: it lists all the commits of an acknowledged
\* transaction or none, so that a snapshot over several tables never sees a
\* half of one.
GlobalLogIsACut ==
  \A t \in Txns : \A x, y \in Changed(t) :
    pc[t] = "committed" =>
      ((\E v \in CommitsOf(t, x) : v <= globalLog[x])
       <=> (\E v \in CommitsOf(t, y) : v <= globalLog[y]))

\* The versions that the writer of a commit to x passed without reading them
MissedBy(w, x) == IF w \in Txns THEN missed[w][x] ELSE {}

\* No lost update: between the version in which a commit found the file it
\* replaces and the commit itself, no other commit replaced that file, whatever
\* crashed, was repaired or went on without its lock.  The one exception is a
\* version that the committing client passed in a repair because its only read
\* of it failed (wait_for_marker in repair_global_log).
NoLostUpdate ==
  \A x \in Tables : \A v \in Versions :
    log[x][v].update =>
      \A w \in log[x][v].from + 1 .. v - 1 :
        log[x][w].update => w \in MissedBy(log[x][v].by, x)

\* a precedes b in every serial order equivalent to the history.
Precedes(a, b) ==
  \/ \E x \in Changed(a) \cap Changed(b) :
       \E v \in CommitsOf(a, x), w \in CommitsOf(b, x) : v < w
  \/ \E x \in WasRead(b) : \E v \in CommitsOf(a, x) : v <= readAt[b][x]
  \/ \E x \in WasRead(a) : \E v \in CommitsOf(b, x) : v > readAt[a][x]

\* The acknowledged transactions, those that commit as read only included,
\* are equivalent to a serial execution: every set of them has a first one.
\* Reads that a repair could not compare with a version do not change that:
\* whoever wrote the version is no transaction that is acknowledged.
AcknowledgedAreSerializable ==
  \A S \in SUBSET {t \in Txns : pc[t] = "committed"} :
    S # {} => \E a \in S : \A b \in S \ {a} : ~Precedes(b, a)

\* Every commit() returns, though a client crashed with the lock.
EveryTransactionEnds == \A t \in Txns : <>(pc[t] \in Ended)
=============================================================================
