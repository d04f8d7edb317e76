# A formal model of LakeVilla's transactions

LakeVilla (`src/LV`) adds multi-table transactions to Delta Lake tables in an
object store. There is no server: every client runs the same library
(`TransactionManagerDeltaLake`), and all coordination goes through objects in
the table's `_delta_log` directory, written with put-if-absent and
write-if-ETag-matches. This directory holds TLA+ modules of that protocol, of
what clients do with a table besides (checkpoints, creation and removal,
schemas, key lookup, sublogs) and of the benchmark clients that use it, the TLC
configurations that check them, and proofs that TLAPS checks.

Paths below are relative to `src/LV/src/`; `Manager` stands for
`LakeVilla/TransactionManager/ManagerDeltaLake.cpp`, `Tables` for `Tables.cpp`
beside it.

- [1. The system](#1-the-system)
- [2. Modules and how they correspond to the code](#2-modules-and-how-they-correspond-to-the-code)
- [3. Runs](#3-runs)
- [4. Fairness](#4-fairness)
- [5. What is proved](#5-what-is-proved)
- [6. What the runs found](#6-what-the-runs-found)
- [7. Not modelled, and the plan](#7-not-modelled-and-the-plan)

## 1. The system

A transaction runs at one or several *levels* (`ProtocolOptions.hpp`):

| level | mechanism | used by |
|---|---|---|
| 0 | markers, plus "sublogs": operations are logged instead of executed while other transactions run (implicit logging), and executed at commit (redo) | `LV[Write]`, `LV[Hybrid]` |
| 1 | markers, plus detection of two dependencies on the same transaction when tables are opened | `LV[Write]`, `LV[Hybrid]` |
| 2 | the global version log: one object that lists the current version of every table | `LV[Read]`, `LV[Hybrid]` |

### Components

**Marker protocol** (`Manager` 2562-2821, 1324-1706, 2004-2110; `Marker.cpp`).
*State in the store:* `<v>.json` of a table is absent, a marker (a transaction
has reserved version v; with a lease deadline), a commit, or an empty commit
(given up). *State of a client:* for each open table the reserved version and
whether it is still valid, the versions its snapshot contains, the markers of
other transactions below (`prev_markers`), the files created and deleted, the
concurrent changes seen since, the redo state. *Operations:* open a table
(reserve the next version, then read the log below it); read, append, update,
delete; commit (wait for the versions below, take over those whose lease has
ended, check the own leases and move the marker to a later version if one is
running out, validate, redo, replace the markers by commits); abort. *Correct
when:* a version belongs to one transaction, is decided once and stays decided;
no two commits remove the same file; a commit under `Isolation::Serializable`
comes from a snapshot with every change below it; acknowledged transactions are
serializable and in the log; a crashed client blocks the others only until its
leases end. *Hard:* every request of every client interleaves; responses get
lost, so a client may not know what it wrote; a waiter may take a marker over
while its owner commits; three nested loops (redo rounds, marker shifts,
reloads) share state that some of them reset.

**Global version log** (`Manager` 1828-1958, 3912-4132). One object, guarded by
a lock object (put-if-absent of a token; broken when its content has not
changed for 30 s), updated after validation and after the Delta commits;
repaired when it lags behind; entries claimed for foreign versions. *Correct
when:* the listed versions form a consistent cut over tables, move forward
only, and a validated transaction is listed completely or not at all. *Hard:* a
lock holder that is only slow; the lock is read and then deleted, by its
breakers as by its owner, and it may change in between; a crash between the
Delta commit and the entry.

**Delta snapshot** (`LakeVilla/DeltaLog`). *State:* for each path the newest
entry and its version, for protocol, metadata, transactions and domains the
newest value. `register_action` merges log entries read in any order by several
threads: the highest version of a path counts, and within one version a remove
beats an add. *Correct when* the result does not depend on the order.

**Checkpoints** (`Manager` 2425-2515, 4378-4496). Written every
`checkpoint_interval` commits by whoever commits, or by `create_checkpoint`;
readers take the newest complete one. *Correct when* a snapshot from a
checkpoint equals the one from the log, and `_last_checkpoint` only moves
forward. *Hard:* several writers, incomplete multi-part checkpoints of other
engines, markers below the version, a cleanup while somebody loads; a wrong
checkpoint is noticed only when the versions it replaces are gone.

**Object-store clock and leases** (`Connectors/StoreClock.*`, `Manager`
1399-1411, 2614-2624). Each response narrows an interval that contains the
offset of the store's clock (resolution 1 s); holder and waiter use its two
ends pessimistically. *Correct when* no waiter acts before the deadline plus
grace has passed, and no holder after its deadline.

**Sublogs and redo steps** (`Manager` 2823-3014, 3558-3836). The steps logged
in implicit mode, one object each, and their execution at commit on the newest
snapshot. *Correct when* what is committed is the newest version with the
transaction's operations applied in their order. *Hard:* steps refer to former
ones by numbers, two threads log the halves of one update, an object may be
missing, and part of the transaction may have been executed before.

**Key lookup and statistics** (`Helper.cpp`, `Manager` 290-600). Which files
hold the rows of a key, from statistics that any writer may truncate or leave
out. *Correct when* no row of the key is missed and no other row is touched.

**Schemas and conforming of data** (`DeltaSchema.cpp`, `DeltaConform.cpp`).
Arrow to Delta types and back, and the conversion of every row and data file to
the table's schema. *Correct when* a read returns for each column what was
written to it, whatever was renamed or added since and whoever wrote the file.
*Hard:* division and overflow of timestamps, names that differ in case, column
mapping, partition columns, nested types.

**Creating and dropping tables** (`Tables.cpp`). List, update the global log,
write or delete objects: sequences of requests that may stop anywhere. *Correct
when* one creator wins, and no interrupted drop leaves a readable table without
its data, data without a table, or an old entry in the global log.

**Workloads**: the banking operations of `YCSBDB`, TPC-C with one transaction
for all tables or one for each, CAB, LST-Bench and TPC-DS. They are the code
that uses the transaction manager: programs of calls any of which may fail, and
that number their tables themselves. *Correct when* rows go to the table they
are meant for, a program reports success only if all it wrote is committed, and
the clients' books match the tables.

**Connectors** (S3, in-memory): the store's contract. **Buffer manager,
settings, JNI, main programs**: around the protocol, not part of it.
`src/Proofs/TLA` and the containers of other engines are not part of this
program.

### Interactions

Clients interact only through the store. Within a client, `commit()` calls the
marker protocol, then (level 2) the global log, then redo, and after success
the checkpoint writer. Opening a table may release and reopen all tables opened
so far (`open_tableV2`, `reopen_tables`).

## 2. Modules and how they correspond to the code

| module | contents |
|---|---|
| `VersionLog` | abstract specification: the log of a table as its readers may rely on it |
| `VersionLogProofs` | its two theorems |
| `MarkerCommit` | levels 0 and 1: the marker protocol with redo, errors and crashes; properties |
| `MCMarkerCommit` | which tables the transactions open and what they do, for TLC |
| `MarkerCommitProofs` | inductive invariant, safety theorems, refinement of `VersionLog` |
| `MarkerOutcomeProofs` | three theorems about what transactions leave behind and acknowledge, on any number of tables |
| `MarkerSerialProofs` | three theorems about files, reads and the serial order, for transactions on one table each |
| `GlobalLog` | level 2 alone: the global version log, its lock, validation, claims and repair |
| `MCGlobalLog` | its instances for TLC |
| `GlobalLogProofs` | inductive invariant and three theorems without the lock; five more on what the lock gives: exclusion, progress of the log, cuts, serializability |
| `MarkerLease` | the lease of one marker in time: deadline, the holder's test, the waiters' test |
| `StoreClock` | how a client estimates the store's time from truncated `Date` headers |
| `SubLog` | one table of a transaction: explicit and implicit operations, sublog objects, redo |
| `SubLogProofs` | inductive invariant, and the theorem about the rows of other keys |
| `Snapshot` | `DeltaLogManager`: actions applied in any order; and what the log says, as a reference |
| `Checkpoint` | loading from checkpoints, writing them, `_last_checkpoint`; uses `Snapshot` |
| `TableLifecycle` | `create_table`, `drop_table` and the table's entry in the global log |
| `StorageProofs` | inductive invariants and theorems of `Snapshot`, `Checkpoint` and `TableLifecycle` |
| `KeyLookup` | the rows of a key, from statistics and from the file |
| `Conversions` | timestamps between units, range checks, with C++ division |
| `ClientsProofs` | theorems about `StoreClock`, `MarkerLease`, `Conversions`, `KeyLookup` and `Banking` |
| `Schemas` | schemas, rows and files of a table; uses `Conversions` |
| `Banking` | the banking clients, over snapshots of the tables; a commit that fails may leave the first of them written |
| `Workloads` | the transactions of TPC-C, CAB, LST-Bench and TPC-DS as sequences of calls |
| `Programs` | the machine that runs them, whose calls may fail |
| `MCStorage` | instances of `Checkpoint` and `TableLifecycle` for TLC |
| `MCSubLog` | a table of one file with three rows, for `SubLog` alone |
| `MCClients` | instances of `SubLog`, `KeyLookup`, `Schemas`, `StoreClock`, `MarkerLease`, `Banking` and `Programs` for TLC |

`MarkerCommit` rests on `StoreClock` and `MarkerLease` for what it says about
leases, on `SubLog` for what a redo does within a file, and implements
`VersionLog`; `GlobalLog` leaves the entries of created and dropped tables to
`TableLifecycle`; `Banking` and `Programs` assume of a `commit()` that succeeds
what `MarkerCommit` and `GlobalLog` show, and of one that fails what they leave
possible. `MCStorage` and `MCClients` put components
side by side that share no state: the variable `part` chooses one of them in
the initial state, and the others stay in an initial state of theirs, so that
their states add up and do not multiply. Each component's own specification
(`CkSpec`, `TlSpec`, ...) is what the proofs are about; a behaviour of
`StorageSpec` or `ClientsSpec` is one of them with the other variables at rest.

### MarkerCommit

One action is one request to the store, or the client's local work between two
requests. `pc[t]` names the request the client is about to make:

| label | in the code |
|---|---|
| `reserve`, `replace`, `parse` | `load_table`: `reserve_version`, the old `Marker` destroyed, `parse_logentries2` |
| `yield` | `abort(false)` in `open_tableV2` before `reopen_tables` |
| `work` | the operations on the table just opened |
| `wait` | `wait_for_marker` over `prev_markers` |
| `lease`, `shift`, `shiftLost` | the loop over `lease_expiring` / `shift_marker`; after `CommitWrite::Lost` |
| `validate`, `redone` | `has_conflict`, `redo`, `rebuild_state` |
| `write` | the loop over the tables with `write_commit` |
| `finish`, `abort` | the releases at the end of `commit()` and in `abort()` |

Data is reduced to what the properties tell apart. A file is its writer, the
redo run that wrote it, and whether it holds the row the updates and deletes of
the workload look up, so that two updates of the same key conflict on a file
and appends do not. A snapshot is the set of versions it was made of (`seen`),
and `LiveFiles` computes the files from the log. An ETag is the owner of the
marker: a transaction never writes two markers at one path, so "the ETag still
matches" is "the object is still this transaction's marker". `observed` is a
history variable: the versions that the reads of a transaction reflect. All
other variables have the code's names; flags of the transaction object are sets
of transactions.

*Time.* A marker carries `ended`, set by `LeaseEnds` once every waiter's clock
reading lies past deadline + grace. A waiter may take over an ended marker
only. The holder's test `lease_expiring` is more pessimistic, so it may answer
"expiring" at any time, and "not expiring" only as long as the lease has not
ended. Nothing is assumed about the time between two requests: a holder may
pass its test, sleep past its lease, and then write.

*Errors.* `Fault` spends one of `MaxFaults` storage errors that outlast the
retries: a put-if-absent whose response is lost, a HEAD that fails and looks
like a missing object, a commit no attempt of which is answered (written or
not), a release that fails, a log entry that cannot be read, and a waiter's
patience that ends early. A client in `MayCrash` may crash at any label.

*Reductions.* A wait over `prev_markers` takes effect in one step (`WaitPass`)
when all of them are final: they never change again (`VersionsAreFinal`, proved
below), so when each was read makes no difference. Takeovers during the wait
are steps of their own. Parsing threads of one table are sequential: what they
read joins sets, and `prev_markers` has no order (`TakeOver` picks any). A
table is opened once, and the operations on it come right after.

### VersionLog

The versions of a table are reserved densely, one after the other; a reserved
version is committed by the transaction that reserved it, or given up; a
decision is final. The refinement maps `log` to `entry` by forgetting the files
and the lease (`entry` in `MarkerCommit`).

### GlobalLog

One action is one request; requests that read what cannot change any more are
part of the step before them. `pc[t]`:

| label | in the code |
|---|---|
| `begin`, `open` | `parse_global_snapshots`; `load_table` for one table after the other, with `skip_foreign_versions` |
| `validate` | the top of the loop in `commit()`: conflicts with versions a repair brought in |
| `lock`, `reread`, `break` | `acquire_global_lock`: put the token, or look at the one that is there; read the stale one again; delete it |
| `check` | `start_validation` with the lock held |
| `claim` | `write_commit` for one table after the other, then `create_global_snapshot` |
| `scan`, `advance`, `repair` | `repair_global_log`: classify versions; `update_global_entry` reads; writes |
| `join` | the end of `repair_global_log`: `wait_for_marker` for one version after the other |
| `release`, `unlock` | `release_global_lock`: read the token; delete it |

A table's snapshot is one number (`readAt`, and the versions from there up to
`markerVersion` that a repair let join), since level 2 reads a prefix of the
log. A repair reads each version that joins once and ignores whether that
succeeded (`Manager` 1882): a version whose read fails (1342-1346) is passed, is
neither in the snapshot nor among the concurrent changes, and is in `missed`.
Updates look up one key, so a commit records whether it replaced that
key's file, and the version in which it found it (`from`); `NoLostUpdate`
compares the two. `Draft` is the content that `create_global_snapshot` writes,
computed at validation as in the code.

*Time.* The lock is stale when its content did not change for the lease.
`Stale` allows that for a client that will not touch the lock again
(`Abandoned`); with `SlowHolders`, for any. A client may lose its patience at
any look at a lock that is not its own.

*Cuts.* `GlobalLogIsACut` speaks of acknowledged transactions. Of a transaction
that crashed between its claims the repair makes visible whatever table
somebody stumbles over, which no claim under a lock can avoid, because other
engines see the claimed versions anyway.

### StoreClock and MarkerLease

What `MarkerCommit` knows of time is `LeaseEnds`. These two modules say what is
behind it, each assuming of the other one what that one shows:

- `StoreClock` is `OffsetClock` and `store_time()` of the S3 connector. A
  request (`RequestSample`), the store's answer with its time rounded down to
  the resolution, or without a usable date (`Answer`), and the arrival of the
  response (`Receive`) are separate steps, so any amount of time may pass
  between them; the local clock is the store's minus an offset that someone may
  change (`Jump`). `AddSample`, `NowMs` and `Uncertainty` are the code's
  arithmetic, its division by two included. `steady` and `calm` are history:
  the clock was not set since the first sample of the interval, or since the
  request under way was sent. Shown: then the store's time is within the
  estimate.
- `MarkerLease` takes any estimate that holds the store's time, of bounded
  uncertainty (`Estimates`), anew for each use. Clients choose a deadline and
  put it into the log, one of them first (`ChooseDeadline`, `WriteMarker`); the
  holder's test lets it go on (`HolderGoesOn`), a waiter's test lets it take
  over or makes it wait (`WaiterTakesOver`, `WaiterPolls`). The history
  variables record when. Shown: the tests of different clients never overlap.

The safety of the log does not rest on this: `MarkerCommit` lets a holder write
after its lease, and the ETag decides. What rests on it is that a holder that
writes in time is not disturbed, and that a crashed one does not block others
for long. `README.md:157` of the repository gives `MARKER_LEASE_MS +
MARKER_GRACE_MS` for that; `BlockedForTheLeaseOnly` adds the three
uncertainties that the code's estimates bring in (the writer takes the middle
of its estimate, the waiter the earliest time of its own).

### SubLog

One transaction on one table, and another one that commits while it waits. An
action is a call, or the part of one that a thread executes before it logs its
next step (`remove_file` logs its search and its removal separately, and the
two threads of an update interleave); writing a file and registering it is one
action. At commit, one action is one redo step. A row's value is the sequence
of the operations applied to it, so that a lost, doubled or misdirected update
shows. `created` and `deleted` are `created_files` and `deleted_files` with
their valid flags. A sublog object that cannot be written is a step "missing";
the step number is taken in any case, as in the code. `performed`, `executed`,
`lateSwitch` and `others` are history.

`SequentialUpdatesAreRedone` compares the committed rows with the operations
applied one by one to the newest version, `OtherRowsStay` those of the keys
that no operation names with the newest version itself. What their premises
exclude the code gets wrong: section 6 has the cases, and the run `lost_rows`
refutes `OtherRowsAreKept`, which has no premise.

### Snapshot and Checkpoint

`Snapshot` has no state: it defines what applying an action does
(`RegisterAction`, `SetValue`), and the reference (`LiveFile`, `RemovedFile`,
`PropertyAt`), which is by version and knows no order. Sizes, statistics and
partition values of an entry follow the entry; the size is kept because a
remove takes it over. The deletion time of a remove is its version; `horizon`
is the retention in the same unit.

In `Checkpoint` a client opens the table (`OpenTable`) or loads the snapshot of
a committed version to write its checkpoint (`CheckpointAfterCommit`); it
applies the checkpoint and the versions after it in any order, one action each.
Reading a version and applying it is one step: the threads lock the manager for
each action, and by `VersionsInAnyOrder` actions of different versions may be
swapped, so that any interleaving has the result of one in which versions are
applied as a whole. Around it others reserve, commit and empty versions,
another engine writes multi-part checkpoints, time passes, and a cleanup
removes covered versions.

### TableLifecycle

One action is one request: list, the update of the global log (with its lock,
or an error), the write of version 0 with its retries, the delete of one
object. A location holds a few named objects (`ObjectNames`); `Rank` is the
order in which `drop_table` deletes. A client may crash anywhere, an
interrupted or failed drop may be run again. Transactions do not commit to the
table while somebody drops it, as the documentation of `drop_table` demands.
A HEAD of the global log
that fails looks like no log, at `Tables.cpp:224` and `:292` as in
`update_global_entry` (`Manager` 1893): the operation goes on and the entry
stays. `overlooked` marks that, until the entry is next removed or written. A
commit publishes the table (`CommitToTable`) unless the entry is of an earlier
table, which it then leaves, or global logging is off.
`raced` marks the histories in which a creator that saw the location empty
writes its version 0 after another table was created there and dropped: only
then may objects of two tables mix, and the drop's promise is not made for
them.

### KeyLookup, Conversions and Schemas

`KeyLookup` takes any file of two chunks, any statistics of it that a legal
writer may have written (`StatsOf`: exact, truncated after at least `Prefix`
characters, missing), and any key, and follows the code from `KeyMatcher` over
`find_key_files` and `rows_of` to the file that replaces it.

`Conversions` has the arithmetic of `DeltaConform.cpp` with C++'s division and
a limited width. `Schemas` follows one table: `create_table` with an Arrow
schema (`FieldsToDelta`), other engines that add and rename columns
(`AddColumn`, `RenameColumn`), a row written through `conform_for_write` or a
file of another engine with its own types and names, and its read. `values` is
history: what was written, by column identity. A result that may be an error is
a set of at most one element. Names are compared without case. Of the leaf
types only those are kept that differ in a rule.

### Banking, Workloads and Programs

In `Banking` each client runs one operation at a time over snapshots; a commit
conflicts when a table the transaction opened has changed since. `books` are
`changes0` and `changes1`. What the code ignores (the result of `remove_file`
in `write_balance`, of `write_balance` in `withdraw`) is ignored; `torn` marks
the accounts whose row was lost that way. A commit that fails leaves nothing,
or the sender's table of a transfer between two, or everything in a write that
was not answered (`LeftByFailure`; `Manager` 1633-1641, 2081-2087); the operation
returns 1 and books none of it, so that `unbooked` keeps what it changed.

`Workloads` states each transaction as the calls it makes, with what is passed
and whether the result is looked at: `Begin("district")` is the begin of TPC-C,
whose result is ignored, `Read(2, "stock")` passes the literal 2, `ReadNamed`
asks for the number of the path. A `Change` stands for the calls that change
rows of one table (`add_file`, or `remove_file` and `add_file`). `Programs`
executes them: every call may fail, `Position` is `get_table_id`, and each row
carries the table it was meant for. With `single`, TPC-C's calls go to one
transaction per table. Of a transaction whose commit fails, the first of the
tables it changed may be in the log (`FirstTables`, in the order of the opens).
Of one that succeeds, everything is, except for appends that a second redo round
at level 0 has lost (finding `lost_append`), which are in `lost`.

## 3. Runs

The runs from `marker_redo` to `lost_append` use `MCMarkerCommit`, the next
three `MCGlobalLog`, `storage` `MCStorage`, `clients` and `mapped_partitions`
`MCClients`, and `lost_rows` `MCSubLog`.
"Versions" is `MaxVersion`; reservations and claims beyond it do not happen,
every other step does.

| run | instance | checks |
|---|---|---|
| `marker_redo` | levels 0+1; two updaters of one key in one table; leases end; t1 may crash; one lost response or unreadable log entry; two redo rounds; 9 versions | `TypeOK`, `ReservedVersionIsOursOrEmpty`, `NoFileRemovedTwice`, `CommitsReadTheirPredecessors`, `ImplementsVersionLog` |
| `marker_explicit` | level 1 alone; three transactions over two tables, two of which read and append to one table and update the other, crosswise, the third reads and appends to one; one lost patience, of a transaction that then aborts (it removes files) or loads its table again; 7 versions | `AcknowledgedAreSerializable`, `AcknowledgedIsInTheLog`, `AbortedLeftNothing` |
| `marker_liveness` | levels 0+1, fair; two transactions open two tables in opposite order; t1 may crash; one unreadable log entry; no redo rounds; 6 versions | `EndedLeavesNoMarker`, `EveryTransactionEnds` |
| `lost_update` | level 1 alone; three transactions | violates `NoFileRemovedTwice` |
| `lost_append` | levels 0+1; update and append; two rounds | violates `AcknowledgedIsInTheLog` |
| `global_log` | level 2, serializable, repair after two failed claims, check at begin; t1 reads A and updates B, t2 reads B, updates A and appends to C, t3 reads all three; one commit of another engine; t2 may crash; one lost lock response, unreadable object (a version that joins in a repair included) or unanswered claim; 4 versions | `LockIsExclusive`, `GlobalLogIsACut`, `AcknowledgedAreSerializable`, `EntriesMoveForward`, `EveryTransactionEnds` |
| `global_log_faults` | level 2, snapshot isolation; two writers of one table, one of which appends to another, and a reader; both may crash; holders may be slower than the lease; two storage errors of any kind; 2 versions | `TypeOK`, `ListedVersionsExist`, `NoLostUpdate`, `EveryTransactionEnds` |
| `lock_broken_twice` | level 2; three updaters of one table, one of which crashes | violates `LockIsExclusive` |
| `storage` | *checkpoints:* two files, three versions of two histories (remove and restore, a deletion vector), two clients, checkpoints every version, two parts of a foreign one; *tables:* two creators, two droppers, six initial locations, one crash, two attempts for version 0, deletes that succeed, HEADs of the global log that may fail | `StorageTypeOK`, `SnapshotIsItsVersion`, `CheckpointsAreSnapshots`, `LastCheckpointMovesForward`, `NoTableWithoutItsData`, `DropCanBeCompleted`, `CreatedTableIsTheirs`, `EntryIsOfThisTable` |
| `clients` | *sublog:* three keys in one file or two, two operations, one foreign commit, one missing sublog object; *lookup:* strings of up to three of two characters truncated after two or three, numbers -1..1, chunks of up to one row; *schemas:* one column of 23 types or two columns, int64 of 5 bits; *clock:* resolution 3, four samples, clock set twice; *lease:* 4, grace 1, uncertainty up to 2; *banking:* two clients with two operations each, three layouts; *programs:* all transactions of all benchmarks, loops run twice, any call fails | `ClientsTypeOK`, `SequentialUpdatesAreRedone`, `OtherRowsStay`, `KeyRowsAreFound`, `ReadsWhatWasWritten`, `SchemaIsReadAsWritten`, `RowsAreRefusedForAReason`, `EstimateHoldsTheTruth`, `HolderStopsFirst`, `BlockedForTheLeaseOnly`, `BooksMatchTheBalances`, `RowsGoToTheirTable`, `ReportsWhatWasCommitted` |
| `mapped_partitions` | as `clients`; tables with column mapping may have partition columns | violates `PartitionColumnsTakeTheirValues` |
| `lost_rows` | three keys in one file; an executed delete and one that is noted | violates `OtherRowsAreKept` |

*Why the bounds are enough.* The hazards are between two transactions over one
or two tables, or three where a transaction in between changes what a second
one has read; the instances have these. Two redo rounds are the first that have
a redo after a redo. Two errors allow one of them to follow the other's
recovery and stay below the five failures after which opening gives up
(`LoadFails` relies on that). `MaxVersion` leaves room for a marker of every
open, reload and shift of the instance's rounds and for the lost responses; in
`marker_liveness` it is above the number any fair behaviour of the instance
needs, and an exhausted log would show as a violation of the liveness property,
not hide one.

In `global_log` the two writers have a write skew, and a table the other one
does not open, which are what validation and the rewriting of the log can get
wrong; one other engine's commit and one crash each make one claim fail, and
two of them in a row reach the repair. A client crashes with the lock or
between its claims. Only one client may crash, and releases do not fail: with
two abandoned locks or a third contender `lock_broken_twice` happens. Errors
that make the code give up what the properties claim (a HEAD that fails, a
global log that cannot be written) are in `global_log_faults`, which checks
what is left: the tables' logs. What a repair brings in, or passes unread, is
the other engine's commit in `global_log`, where the writers' claims do not
meet, and another writer's update in `global_log_faults`. In the latter two
versions are all that two writers can claim, and a larger bound gives the same
states.

In `storage`, three versions hold a file's add, its remove and its restoration,
the shortest history in which the order of application matters across versions,
and a version that holds a remove and an add of one file; two clients are two
writers of `_last_checkpoint`; two tombstones of different age are on both
sides of the horizon. Two creators and two droppers are the first that race
among themselves and with each other; the six locations are the shapes between
which `drop_table` and `create_table` distinguish.

In `clients`, two operations of a transaction are an operation on what a former
one wrote, one foreign commit makes the redo search again; of three keys in a
file two operations leave one unnamed, whose row the file they write must keep. Strings one longer
than the truncation, and writers that truncate later than where the matcher
expects it, give every case of `MatchString`; two chunks give the offset of the
second. The types nest each kind once in each other kind that has a rule for
it; the rates 1, 4, 8 with longs of -16..15 overflow and round on both sides of
zero. For the clock one client is enough because clients do not interact; four
samples allow an interval to narrow, to start over, and to narrow again, and
the offsets include pairs whose intervals overlap and pairs whose intervals do
not. For the lease, time goes past the latest moment at which any test can
still refuse a marker chosen at the start (11), so that every takeover happens;
the two clients are interchangeable, and the run uses that symmetry, as
`storage` does for its two readers. The banking clients meet with two
operations each in every layout. The programs are those of the code in full;
two iterations of a loop are the first in which a number or a result of one
reaches the next.

*Exceptions that properties name.* `RowsGoToTheirTable` allows one read that
the code gets wrong: the delivery with one transaction per table reads the sum
of the order lines from the manager of the orders
(`TpccClientSingleTable.cpp:306`). It is checked with `UncheckedBegins =
FALSE`; if the first `begin` of a TPC-C transaction may fail unnoticed
(`TpccClientMultiTable.cpp:431`, which the comment at `:434-443` rules out by
the numbering), the tables opened later take its number, and `newOrder` reads
the warehouse as the customer. `BooksMatchTheBalances` leaves out accounts
whose row was lost (`torn`), counts what commits changed that reported a failure
(`unbooked`), and is checked with failing adds only. `ReportsWhatWasCommitted`
counts the appends a redo has lost (`lost`) and says nothing of a program that
reports a failure: part of what it wrote may be committed. `NoLostUpdate` allows
the update in a version that the committing client passed unread in a repair
(`missed`), `EntryIsOfThisTable` the entry that a failed HEAD made somebody
overlook (`overlooked`).
`SnapshotIsItsVersion` and `CheckpointsAreSnapshots` are checked with
`HeadFaults = FALSE`, the drop's properties with `DeleteFaults = FALSE`,
`KeyRowsAreFound` with `NullStats = FALSE`; section 6 says what happens
otherwise.

`CHECK_DEADLOCK FALSE` is set where leases do not end (`marker_explicit`,
`lost_update`): two transactions that opened two tables in
opposite order then wait for each other, which is how the code behaves until a
lease ends; and in `storage`, `clients`, `mapped_partitions` and `lost_rows`, where bounded
components stop when they are done. In the other runs every terminal state is
`AllEnded`.

## 4. Fairness

`FairSpec` asks for weak fairness of each client's `Step`: a client whose next
request is possible eventually makes it, unless it has crashed. The code is one
thread per transaction without locks between clients, and every wait is a
polling loop, so this is what "the process is scheduled" means. It also asks
for weak fairness of `LeaseEnds`: time passes. Nothing is assumed about storage
errors, crashes, or a holder's clock (`LeaseExpiring` need never happen unless
it is the client's only step), nor that a takeover wins its race.

`GlobalLog` asks for the same fairness of each client. A client that waits for
the lock polls it, so it finds an abandoned lock stale in the end; that it
loses its patience is not assumed.

The other modules state safety only. What they could promise of progress is a
bounded number of retries (`CkRetries`, `CreateRetries`), after which the code
gives up; `TableLifecycle` and `Checkpoint` have no wait on another client
except the wait for a marker, which `MarkerCommit` covers.

## 5. What is proved

The theorems hold for all transactions, tables, workloads, levels, numbers of
versions, redo rounds, errors and crashes. Those about `MarkerCommit` use
`ConstantsAssumption` and `OpenOrderAssumption` (level 0 or level 1, without
which no markers are written; a transaction opens at least one table, and each
at most once, as callers ensure with `get_table_id`). Where a theorem needs
more, its statement says what, and the text below why.

| theorem | statement |
|---|---|
| `TypeCorrect` | `Spec => []TypeOK` |
| `Inductive` | `Spec => []IInv` |
| `ReservedVersionIsSafe` | `Spec => []ReservedVersionIsOursOrEmpty` |
| `NoGaps` | `Spec => []LogHasNoGaps` |
| `FinalForGood` | `Spec => VersionsAreFinal` |
| `Refinement` | `Spec => ImplementsVersionLog` |
| `NoMarkerIsLeft` (`MarkerOutcomeProofs`) | `NoLeftovers`: `Spec => []EndedLeavesNoMarker` |
| `AbortLeavesNothing` (`MarkerOutcomeProofs`) | `AnsweredInTime`: `Spec => []AbortedLeftNothing` |
| `AcknowledgedIsKept` (`MarkerOutcomeProofs`) | `NothingIsRedone`, `ReadOnlyReads`: `Spec => []AcknowledgedIsInTheLog` |
| `NoUpdateIsLost` (`MarkerSerialProofs`) | `OneTable`, `WaitsAreAnswered`: `Spec => []NoFileRemovedTwice` |
| `CommitsAreUpToDate` (`MarkerSerialProofs`) | `OneTable`, `WaitsAreAnswered`, `Serializable`, `RedoesAll`: `Spec => []CommitsReadTheirPredecessors` |
| `AcknowledgedInVersionOrder` (`MarkerSerialProofs`) | `OneTable`, `WaitsAreAnswered`, `Serializable`, `NothingIsRedone`, `ReadOnly = {}`: `Spec => []AcknowledgedAreSerializable` |
| `LogIsDense`, `LogIsDecidedOnce` (`VersionLogProofs`) | what the abstract log promises |
| `TypeCorrect` (`GlobalLogProofs`) | `Spec => []TypeOK` |
| `SnapshotsAreReadable` (`GlobalLogProofs`) | `Spec => []ListedVersionsExist` |
| `UpdatesAreNotLost` (`GlobalLogProofs`) | `Spec => []NoLostUpdate`, which excepts versions passed unread in a repair |
| `LockIsSafe` (`GlobalLogProofs`) | `~SlowHolders`: `Spec /\ []OneBreaker => []LockIsExclusive` |
| `LockKeepsClientsApart` (`GlobalLogProofs`) | `~SlowHolders`, `BreakersAreAlone`: `Spec => []LockIsExclusive` |
| `GlobalLogMovesForward` (`GlobalLogProofs`) | the same and `LogIsFound`: `Spec => EntriesMoveForward` |
| `GlobalLogCuts` (`GlobalLogProofs`) | the same and `LogIsWritten`: `Spec => []GlobalLogIsACut` |
| `AcknowledgedInListingOrder` (`GlobalLogProofs`) | the same and `Serializable`, `Listed = Tables`, finitely many transactions: `Spec => []AcknowledgedAreSerializable` |
| `EstimateIsRight` (`ClientsProofs`) | `ClockSpec => []EstimateHoldsTheTruth` |
| `TakeoverIsNeverEarly` (`ClientsProofs`) | `LeaseSpec => []HolderStopsFirst` |
| `WaitIsBounded` (`ClientsProofs`) | `LeaseSpec => []BlockedForTheLeaseOnly` |
| `DropHidesTheTableFirst` (`StorageProofs`) | `~DeleteFaults`: `TlSpec => []NoTableWithoutItsData` |
| `DropsAreRepeatable` (`StorageProofs`) | `~DeleteFaults`: `TlSpec => []DropCanBeCompleted` |
| `CreationHasOneWinner` (`StorageProofs`) | `TlSpec => []CreatedTableIsTheirs` |
| `NoEntryIsStale` (`StorageProofs`) | `TlSpec => []EntryIsOfThisTable`, which excepts entries overlooked by a failed HEAD |
| `VersionsInAnyOrder` (`StorageProofs`) | two actions of different versions leave the same files in either order |
| `LastCheckpointIsMonotonic` (`StorageProofs`) | `CkSpec => LastCheckpointMovesForward` |
| `SnapshotsAreRight` (`StorageProofs`) | `~HeadFaults`: `CkSpec => []SnapshotIsItsVersion` |
| `CheckpointsAreRight` (`StorageProofs`) | `~HeadFaults`: `CkSpec => []CheckpointsAreSnapshots` |
| `OtherRowsAreSafe` (`SubLogProofs`) | `SubSpec => []OtherRowsStay` |
| `KeyRowsAreSafe` (`ClientsProofs`) | `~NullStats`: `KlSpec => []KeyRowsAreFound` |
| `BooksAreRight` (`ClientsProofs`) | `WriteFaults \subseteq {"add"}`: `BankSpec => []BooksMatchTheBalances`, whatever part of failing commits is in the log |
| `FloorDivRoundsDown`, `FitsIsExact`, `TimestampsKeepTheirTime` (`ClientsProofs`) | the arithmetic of timestamps, for all widths, values and units |

*The argument.* None of the safety properties is inductive on its own. That a
reserved version is ours or empty is destroyed by two writes that look
harmless: the unconditional write of a failed open, and a second reservation.
`IInv` adds what rules them out:

- `Position`: the loop indices point at tables the transaction has opened, so
  that the table an action speaks of is the one it works on;
- `LogInv`: absent versions lie above the existing ones, version 0 is a commit,
  so that "the next free version" is above everything anyone holds;
- `ReservedExists`: a version a transaction has once reserved is not absent;
- `LoadsHeld`: while a log is read for a new table, that table's marker is held
  (and not ended up as a commit), so the unconditional write hits it;
- `HoldsOurs`: a held version is the own marker, or empty, or, when the outcome
  of a commit is unknown, the own commit, and only while aborting.

The key step is that writes conditional on the owner's marker cannot disturb
another transaction's version, and that put-if-absent cannot disturb any. The
unconditional write after a failed open is safe because of `HoldsOurs` in the
label `parse`: the version is the own marker or was emptied by a takeover, and
writing "empty" to either is what the protocol does anyway. This is why the
only unconditional write of the protocol is harmless.

`IInv` was also checked with TLC, as an invariant of the instance of
`marker_redo` and of one with more kinds of errors.

*How transactions end* (`MarkerOutcomeProofs`). `IInv` says what is held, but
not that there is nothing else. Two lemmas carry these proofs: a step of one
transaction leaves the variables of the others alone (`OthersVariablesStay`),
and what it writes is a marker of its own, an empty commit or the commit of the
next table (`StepWrites`).

- `NoMarkerIsLeft`. `EndInv`: the markers of a transaction that has not crashed
  are those of the tables it holds and, during a reload, the one it is about to
  replace; what is held was opened; who ended holds nothing. `NoLeftovers`
  excludes a reservation whose response is lost for good and a release that
  fails for good: TLC finds a marker left with either, and others wait for its
  lease.
- `AbortLeavesNothing`. The danger is a failure after the first of several
  commits. `AbortInv` says that without ended leases nobody takes over what is
  held (`HeldIsMarked`), that all tables are held from the end of the opening,
  through every reload, to the commit (`Loads`), and hence that once the first
  commit is written the others cannot fail (`NothingCommitted`).
  `AnsweredInTime` excludes the two ways to fail half-way: a lease that ends
  between two commits, a commit whose outcome is unknown. TLC has a
  counterexample for either.
- `AcknowledgedIsKept`. `CommitInv`: appended files stay registered from the
  work to the commit (`Appended`), a table counts as committed only if its
  files are in the log (`InLog`), and the loop of the commit passes no table by
  (`WrittenUpTo`, `AllInLog`). `NothingIsRedone` is level 1 alone, or appends
  only; a second redo round does lose appends (run `lost_append`).
  `ReadOnlyReads` says that `commit(read_only = true)` is called by
  transactions that do not write.

*Files and reads* (`MarkerSerialProofs`). These are about transactions that
open one table each (`OneTable`), not necessarily the same. With several
tables in a transaction TLC refutes all three when levels 0 and 1 are combined:
the first redo and the reload forget concurrent changes but keep the files
deleted explicitly (finding `lost_update` is of this kind).
`WaitsAreAnswered` excludes the faults `"head"` (a lower version is taken for
absent) and `"giveup"` (section 6): with either, TLC finds a file removed twice.
Everything else may happen: takeovers, shifts to later versions, lost
markers, redo rounds, crashes, failed loads, writes and releases.

- `NoUpdateIsLost`. `TableInv` follows a transaction through its commit. The
  snapshot has only final versions below the reserved one (`SeenIsFinal`); each
  lower version is in the snapshot, empty, or still to be waited for
  (`Covered`); after the wait none is left (`Known`); what removes a file that
  the transaction removes too is among the concurrent changes
  (`ConcurrentKnown`), which the validation excludes (`Validated`).
  `CommitsInOrder` says of the log that below a commit everything is final, and
  that a commit removes files which were added below it and removed by none
  below it. The subtle case is a shift: the version given up for a later one is
  empty before the later one is reserved (`GivenUp`), so that the snapshot
  still is complete, and what was reserved in between is waited for again.
- `CommitsAreUpToDate`. `ReadInv` adds what was read: the versions of the
  snapshot at the last look at the table; a later change counts as concurrent
  and is validated. `RedoesAll` demands at level 0 that a transaction's
  operations are all redone, updates and deletes, or appends only: a redo moves
  `observed` forward for its updates, while what a plain read has returned
  stays old (`test_transaction.cpp:1434` documents that).
- `AcknowledgedInVersionOrder`. The serial order is the order of the versions.
  `OwnVersion` and `PlaceInOrder` say that an acknowledged transaction has a
  version of its own, that all versions below are final and were read. Also a
  transaction without changes has a place: the version it reserved and gave up.
  The theorem then takes the least version of any set of transactions
  (`LeastVersion`). Level 0, where transactions without conflicts are not
  redone, and read-only commits, which do not validate, are excluded; TLC shows
  a cycle with either.

All these invariants were checked with TLC before they were proved, on complete
instances of two and three transactions with up to 807,000 states.

*Global log, without the lock.* From `GlobalLogAssumption` only (workloads over the tables, every
transaction opens one; identifiers that differ), so for broken locks, slow
holders, every storage error, repair or not, either isolation. The lock plays
no part: every step leaves the logs alone or adds one commit on top of one
(`LogStep`), because versions are claimed with put-if-absent and every version
below a claim exists; and what exists stays as it is. The invariant `IInv` says
of each transaction that what it knows exists (`KnownExists`: its snapshot, the
versions below its claims, what it claimed, what a repair found), that what it
is about to list exists or will when its claims succeed (`DraftExists`), and
that between what its updates read and what it claims there is no other update,
except in versions it passed unread (`MissesNoUpdate`). Steps that change none of this for a transaction, its own
or another one's, are covered by one lemma (`QuietKeeps`); the rest is one
lemma for each action. `IInv` was also checked with TLC on the instances of
`global_log` and `global_log_faults`.

*Global log, with the lock.* Four assumptions occur, and no theorem holds
without the ones it names: TLC has a counterexample for each.

- `~SlowHolders`: nobody holds the lock for longer than its lease, which is
  what the lease is for. `BreakersAreAlone`: the delete of the own lock does
  not fail, and when a client crashes, at most one other client that commits is
  left to find its lock. That is the instance of `global_log`, any number of
  clients none of which crashes, and two that both may crash. With two
  survivors the lock can be broken twice (run `lock_broken_twice`); `LockIsSafe`
  states that this is the only way: whoever crashes and whatever fails, the
  lock is exclusive as long as no two clients are between their last look at a
  stale lock and its delete (`OneBreaker`).
- `LogIsFound`: no HEAD of the global log fails for good. One that fails makes
  `start_validation` and `update_global_entry` start from an empty log, and what
  they write loses the entries of all other tables.
- `LogIsWritten`: the write of the log does not fail for good. After one that
  does `commit()` is true and nothing is listed; the repair by another client
  then lists the commit to one table and not the others.
- `Serializable` and `Listed = Tables`: a table that is not listed is read in
  its newest version, which another client may not have listed yet.

The lock. `LockInv`: a client between validation and the last write has its own
token in the lock (`HoldsLock`), one that is about to break the lock has seen a
token whose owner has ended or gone on to another (`FoundDead`, `BreaksDead`),
and such tokens stay dead because a token is used once (`DeadStaysDead`).
`LeftInv` adds for `LockKeepsClientsApart` that a lock whose owner has ended is
the lock of a crashed client.

The log. `ForwardInv` says that the draft of a client under the lock is at least
the log, and newer in the tables it changed (`TakesNothingBack`); only one
client has a draft that counts, so no write comes between. `CutInv` says that a
transaction that has not failed has its commits in just the tables it counts as
committed, at the version it claimed (`CommitsKnown`), and that who is
acknowledged was listed as a whole, and still is (`Published`). The lemmas
`ForwardIfExclusive` and `CutIfExclusive` need nothing of the lock but
`LockIsExclusive`.

The order. Transactions with commits are ordered by their writes of the global
log: `Before(a, b)` says that `b` listed at least what `a` did, newer versions
of what it changed, that `a` read none of it and that `b` read what `a` changed.
It is established by the write of `b` against everybody acknowledged before
(`PublishesAfter`), from three facts: whatever was read was listed or came from
another engine (`ReadsListed`, which is why `skip_foreign_versions` passes over
commits of other engines only), nothing that joined the snapshot in a repair
had been read (`ReadsUnjoined`), and what was read is the newest listed version
at the claims (`ReadsNewest`). A version that a repair passes unread is compared
with nothing; but what a repair finds was listed by nobody, and its writer is
not acknowledged and will not be (`RepairsUnlisted`, `MissedUnlisted`), so that it is
no part of the order. Transactions without commits are placed by their
snapshots, which have all of a transaction or nothing (`SeesAllOrNone`); they
need no validation. The theorem takes the transaction of any set that was listed
first (`FirstListed`), or one without commits that has not seen it.

`LockInv`, `LeftInv`, `CutInv` and `OrderInv` were checked with TLC before they
were proved, on complete instances of up to 1.4 million states.

*Clock and lease.* `EstimateIsRight` uses `ClockAssumption` only (numbers, and
a positive resolution), the two theorems about leases `LeaseAssumption` only. The
estimate is right because its interval contains the true offset
(`IntervalContains`);
for a sample to keep that, the invariant says of a request under way that it
was sent before the answer was dated, and the answer dated before now
(`RequestIsRight`). The lemma `Halves` covers the rounding of midpoint and
uncertainty: their sum is the width, and the uncertainty is the larger half. In
`LeaseInv` every moment of the history is bounded by the deadline in
true time (`TestsInTime`); each theorem adds two of these bounds.

*Creating and dropping.* From `LifecycleAssumption` and `LocationsAssumption`
(a location holds a readable table with its data, or no readable table).
`TableInv` adds to the two properties about creation who may be at which step
(`Roles`) and that no entry appears between its removal and the end of the
operation that removed it, nor one that a failed HEAD has left without
`overlooked` saying so (`EntryRemoved`). `DropInv` needs that deletes do not fail: then
whatever the location holds, except for a version 0 created meanwhile, is among
what every running drop has still to delete (`DropsAll`), data belong to a
version that goes after them (`VersionOfData`), and what breaks this was a race
(`OnlyRaces`). With these, the order of the ranks gives both promises of the
drop, for any number of drops that run, crash and start again.

*Snapshots and checkpoints.* `VersionsInAnyOrder` needs nothing but the types
of entries: of two actions on one file the one with the higher version decides,
on different files they do not meet. Sizes may differ (a remove takes the size
of the add it happens to find). `LastCheckpointIsMonotonic` rests on
`CheckpointAssumption`; its invariant says that a client about to write has
read an older version and that its own checkpoint is complete, or was cleaned
up since.

`SnapshotsAreRight` and `CheckpointsAreRight` also use that a table has finitely
many files (`PathsAssumption`) and that a commit sets a property once
(`HistoriesAssumption`). What a client has applied is not a sequence but a set:
the checkpoint it started from and some of the versions above, in whatever
order. `SnapshotInv` says for every file and property what the manager then
holds (`FileKnown`, `ValueKnown`): what the last applied version that touches it
says, else what the checkpoint says, else nothing. One version is a sequence of
actions folded over the manager; `FoldExists` turns the fold into a function,
and `ApplyAllDoes` says what a whole version does to one file or property. That the versions below are final before they count is what
the check for markers gives, and what a failed HEAD takes away; without it
neither property holds. A checkpoint describes its version (`Describes`) when it
is written, and stays right because final versions do not change and because
tombstones older than the horizon may be left out of both sides.

*Sublog.* From `SubLogAssumption` only (there are keys; the layouts are
sequences of sets of keys). The property speaks of the commit, the steps move
rows between files; `RowsMove` connects the two. Call a row foreign if no
operation names its key. Then a foreign row is in a file that this transaction
has written only if it is in one that it has removed, and, if all deletes were
executed at once (`DeletesAtOnce`), a foreign row of a removed file is in a
written one that is valid and stays so (`Lasting`: no noted delete names it).
Committing removes the ones and adds the others. `Operation` says what is left
to the two threads of an operation, `StepsRefer` what the steps of the log refer
to, for any number of steps, missing ones included. An attempt to prove
`OtherRowsAreKept`, without the premise, failed in the step of the redo that
deletes a file by its path (`RedoDeletePath`), and TLC confirmed the failure:
finding `lost_rows`.

*Key lookup.* From `KeyLookupAssumption` (numbers; writers truncate no earlier
than the lookup does). `IsBelow` is a strict total order (`BelowIsTransitive`,
`ValuesAreOrdered`), so a finite set of values has a smallest and a largest one
(`LowestAndHighest`). A truncated minimum is not above the smallest value
(`MinimumIsSafe`); a truncated maximum is either the largest value or, with the
character that ends it, not below (`MaximumIs`, `MaximumIsSafe`), because the
truncations of the writer keep at least the characters that the lookup
compares. `NoneIsRight` and `ExactIsRight` then say of the two verdicts without
a read that they are true, `RowsOfIs` that a read finds the rows in both chunks.
The file that replaces the one that was read takes its other rows in ascending
order: there is one such order (`AscendingExists`), and it leaves none out
(`AscendingIsOnto`).
An explicit null (`NullStats`) makes "" a bound of a file without values.

*Banking.* From `BankAssumption` (finitely many clients, amounts of any sign).
Clients and tables meet in the commit only. `Follows` says that what a client
has read and not written is the row as long as its tables have not changed
(`Fresh`), `Works` what it has written by each step: amounts that are just those
that `Recorded` puts in the books. Whatever part of a transaction gets into the
log has met no change of its table, so each balance moves by what is booked, or
by what a failing commit adds to `unbooked` (`WritesStep`, for both outcomes of
a commit). The books of all
clients are a sum over a finite set, `MapThenSumSet`; `SumExists` shows that its
recursion has a solution and `SumChanges` that one client's entry moves the sum
by its own change. A removal that fails (`"remove"` in `WriteFaults`) leaves two
rows, TLC has the counterexample.

`SnapshotInv`, `SubInv`, `KlInv` and `BankInv` were checked with TLC, as far as
their quantifiers are bounded, before they were proved.

*Conversions.* Pure arithmetic, for every width that contains zero and every
pair of units of which one rate is a multiple of the other, as those of Arrow
are.

*Only model-checked:* what the runs check of transactions on several tables or
with redo beyond the conditions of the theorems (`NoFileRemovedTwice`,
`CommitsReadTheirPredecessors`, `AcknowledgedAreSerializable`,
`AcknowledgedIsInTheLog`, `AbortedLeftNothing`); of the sublog
`SequentialUpdatesAreRedone`, whose reference applies the operations with a
fold; `Programs`, which runs concrete programs;
`Schemas`, whose types are recursive (what it takes from `Conversions` is
proved); and liveness. The invariants `StorageTypeOK` and `ClientsTypeOK` put
the types of all their components together and have no theorem of their own;
for `TableLifecycle`, `SubLog`, `Banking`, `KeyLookup`, `StoreClock` and
`MarkerLease` their parts are in the inductive invariants (`SubLogIsTyped` says
so for `SubLog`). Liveness under fairness, induction over data and recursive
operators are out of the reach of TLAPS here.

## 6. What the runs found

Five documented properties that the code does not have; each has a run whose
counterexample is a behaviour of the code.

1. `lost_update`, level 1 without level 0. A transaction updates a table, then
   opens another one in which a second marker of a transaction it already
   depends on appears. `open_tableV2` releases and reloads all tables.
   `load_table` takes a new snapshot and clears the concurrent changes found so
   far, but keeps `created_files` and `deleted_files`. A commit that removed
   the same file in between is now below the snapshot and never validated. With
   level 0 the redo would have replaced the files.
2. `lost_append`, `LV[Write]`. A second redo round (`rebuild_state`) clears
   `created_files`, and the redo of an append only looks for a file that is
   still there. The appended rows are in no commit, and `commit()` is true.
3. `lock_broken_twice`, level 2. Two clients wait behind the lock of a crashed
   one. Both find it stale and read it again; the first deletes it and takes
   the lock; the delete of the second removes that lock, and the second takes
   it as well. Both validate and write the global log, against the comment at
   `Manager` 4042. By `UpdatesAreNotLost` and `SnapshotsAreReadable` the
   tables' logs do not suffer; what one of the two lists may be taken back by
   the other.
4. `mapped_partitions`. The partition values of a file are looked up by the
   name of the column; in a table with column mapping the log names them
   physically, and the column is read as null, against "partition columns take
   the file's partitionValues".
5. `lost_rows`. A transaction deletes a key while operations are executed at
   once: the other rows of the file go to a new one. Then it sees a marker, and
   logs its next delete, of another key of that file, with the path of the new
   file. The redo marks that file invalid as a whole (`Manager` 3818-3824), and
   the rows of all other keys in it are in no commit, against "other rows of
   their files stay" (`Manager` 1315). Deletes that are executed at once are
   right: `OtherRowsAreSafe`.

Further behaviours seen while modelling and kept as hazards in `PROJECT.json`:
a commit that fails at its second table leaves the first one committed, and a
banking client then books none of it (`unbooked`; `Manager` 1633-1641,
`lhtransactionsBanking.cpp:324`); a version that cannot be read while a repair
lets it join is passed (`missed`; `Manager` 1882, against its comment "the
versions join the snapshot (and are checked for conflicts)"), so that the next
claim may lose an update of that version; a HEAD of the global log that fails lets
`create_table` and `drop_table` go on with the old entry in place
(`overlooked`; `Tables.cpp:224`, `:292`), which "would hide the new table's
versions"; at level 1 the marker of a table that was only read may be taken over unnoticed;
losing a marker in a late round can commit a table twice; `reopen_tables`
neither waits nor takes over while dependencies persist.
`test_transaction.cpp:1434` documents that plain reads are not validated
against snapshots they did not come from when redo is used.

Some modules have switches for what the code does under faults or orders that
their runs or properties exclude; with them on, TLC shows:

- `ReadOnly` in `MarkerCommit`: `commit(read_only = true)` is an abort without
  validation (`Manager` 1446-1448). A reader of two tables, with a writer of
  both, may have read one before and the other after the writer's commit, also
  under `Isolation::Serializable`: `AcknowledgedAreSerializable` is violated.
  `ProtocolOptions.hpp:8` says "every table a transaction read must be unchanged
  at commit (default)".
- the fault `"giveup"` with redo rounds (`marker_redo`): a transaction has
  redone its update, loses its marker before it can write, moves to a later
  version, waits for the versions below it and gives up waiting, because the
  marker there has a longer lease than its own. `reopen_tables` (`Manager`
  1486) loads the table again and forgets the concurrent changes; `redo_done`
  stays true, so that the old redo is validated against nothing and committed.
  Both transactions remove the same file: `NoFileRemovedTwice` is violated. The
  comment at `Manager` 1481 sees the danger for transactions that cannot redo
  only. With two crosswise tables the same fault can use up any number of
  versions, see the hazard of `reopen_tables`.
- `updateInThreads` (`SubLog`): the two halves of an update log their steps in
  either order, and a redo may execute an update twice or insert the old row.
- `lateSwitch`: updates executed before the first marker was seen are not
  redone on the newest snapshot.
- `DeleteFaults`: `drop_table` goes on after a delete that failed, and version
  0 may stay when the data are gone.
- `HeadFaults`: a failed HEAD looks like an absent marker, and a checkpoint may
  lack a version.
- `NullStats`: an explicit null in the statistics of a string column counts as
  the empty string, so that the key "" matches a file of nulls.
- `WriteFaults` with `"remove"`: an account may have two rows afterwards.
- `UncheckedBegins`: see section 3.

Seen while reading, outside the abstraction: a decimal column with a negative
scale is accepted, and `NOT NULL` within nested types is not enforced when rows
are written.

## 7. Not modelled, and the plan

*Out of TLC's reach.* LV[Hybrid], levels 0 or 1 together with level 2, is in
neither `MarkerCommit` nor `GlobalLog`: its hazard (`redo_done` stays true
after a failed validation, `Manager` 1678) needs three clients, two tables, a
redo and a repair, in the product of the two state spaces.

*Left out of the modules.* `MarkerCommit`: updates of several keys in one file.
`GlobalLog`: versions without changes of data; an open that fails (the
transaction ends without a trace). Storage errors that outlast the retries in
`reserve_version` itself make the open fail; the transaction then aborts as
after any other failure. `MarkerLease`: markers without a deadline, which older
clients write and others lease from their modification time; `StoreClock`: the
connectors whose `store_time()` is the local clock. `SubLog`: several tables
(the redo goes table by table; `MarkerCommit` has that part), `reroll()`, which
nothing calls. `Checkpoint`: the Parquet encoding; deletion vectors are a
feature that is refused. `TableLifecycle`: transactions during a drop.
`Schemas`: decimals, floats, dates and binaries, whose conversion has no rule
of its own. `Banking`: implicit logging. `Programs`: the contents of rows; the
streams that choose transactions and retry them; the phases of CAB. The buffer
manager caches files that never change; settings, JNI, main programs and
`hermitage.cpp` run or print what the library does.

*Next, in this order:*

1. `NoFileRemovedTwice` for transactions on several tables at level 0 alone,
   where the runs find it to hold.
2. `SequentialUpdatesAreRedone`, with a reference that is a function instead of
   a fold, for any number of operations.
3. LV[Hybrid] on one table, for the stale `redo_done` alone.
