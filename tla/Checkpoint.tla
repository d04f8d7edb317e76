----------------------------- MODULE Checkpoint -----------------------------
(***************************************************************************)
(* Checkpoints of a table: clients that load a snapshot from a checkpoint  *)
(* and the versions after it, and write checkpoints from it (after their   *)
(* commit, or create_checkpoint in a transaction), while others reserve,   *)
(* commit and release versions, another engine writes multi-part           *)
(* checkpoints and a log cleanup removes the versions a checkpoint covers. *)
(*                                                                         *)
(* The threads of a load apply the versions in any order; reading a        *)
(* version and applying its actions is one step here: actions on different *)
(* files and properties do not meet, and those on one file commute.        *)
(***************************************************************************)
EXTENDS Snapshot, FiniteSets

CONSTANTS
  CkClients,
  CkMax,        \* bound on the versions of the table
  Interval,     \* checkpoint_interval
  Histories,    \* what the versions may hold: sequences, version 0 first
  Parts,        \* the parts of a checkpoint of the other engine
  Expiry,       \* the tombstones of versions below it expire at some time
  HeadFaults,   \* the HEAD or the read of a marker may fail
  CkRetries     \* storage_retries of the update of _last_checkpoint

ASSUME CheckpointAssumption ==
  {CkMax, Interval, Parts, Expiry, CkRetries} \subseteq Nat \ {0}

\* A table has finitely many files.
ASSUME PathsAssumption == IsFiniteSet(Paths)

\* Delta allows a commit one value of each property.
ASSUME HistoriesAssumption ==
  \A h \in Histories : \A v \in 0..CkMax :
    /\ h[v + 1] \in Seq(LogActions)
    /\ \A i, j \in DOMAIN h[v + 1] :
         (h[v + 1][i].what = "set" /\ h[v + 1][j].what = "set"
            /\ h[v + 1][i].on = h[v + 1][j].on) => i = j

VARIABLES
  commits,      \* commits[v]: what version v holds, or will hold
  slot,         \* slot[v]: whether it is free, reserved by a marker, or final
  single,       \* single[v]: the checkpoint of v in one file
  multi,        \* multi[v]: the parts of the other engine's checkpoint
  last,         \* _last_checkpoint: the version it names; its content is its ETag
  horizon,      \* tombstones before it are out of retention
  cleaned,      \* the versions below are removed from the log
  ck            \* ck[c]: the client

ckVars == <<commits, slot, single, multi, last, horizon, cleaned, ck>>

CkVersions == 0..CkMax
None == -1

NoCheckpoint == [written |-> FALSE, adds |-> {}, removes |-> {},
                 values |-> [k \in Properties |-> Removed], from |-> 0]
CheckpointFiles == [written : BOOLEAN, adds : SUBSET Paths, removes : SUBSET Paths,
                    values : [Properties -> Int], from : Nat]

\* at: the step the client is at; run: what its load is for
CkStates ==
  [at : {"idle", "parse", "file", "readLast", "writeLast", "done"},
   run : {"open", "after"}, version : CkVersions, base : -1..CkMax,
   todo : SUBSET (-1..CkMax), waits : SUBSET CkVersions, m : Managers,
   changed : BOOLEAN, etag : -1..CkMax, tries : 0..CkRetries]

IdleClient ==
  [at |-> "idle", run |-> "open", version |-> 0, base |-> None, todo |-> {},
   waits |-> {}, m |-> EmptyManager, changed |-> FALSE, etag |-> None, tries |-> 0]

-----------------------------------------------------------------------------
(* The store *)

InLog(v) == v >= cleaned /\ slot[v] # "free"
IsHighest(v) == slot[v] # "free" /\ \A w \in v+1..CkMax : slot[w] = "free"

\* A single file, or all parts of the other engine
Complete(v) == single[v].written \/ multi[v] = 1..Parts

\* newest_checkpoint
NewestCheckpoint(max) ==
  LET found == {v \in 0..max : Complete(v)} IN
  IF found = {} THEN None ELSE CHOOSE v \in found : \A w \in found : w <= v

\* find_checkpoint: what _last_checkpoint names unless that is too new
FindCheckpoint(max) ==
  IF last # None /\ last <= max THEN last
  ELSE IF last = None THEN None ELSE NewestCheckpoint(max)

\* The other engine keeps all tombstones.
Foreign(v) ==
  [written |-> TRUE, adds |-> {p \in Paths : LiveFile(commits, v, p)},
   removes |-> {p \in Paths : RemovedFile(commits, v, p)},
   values |-> [k \in Properties |-> PropertyAt(commits, v, k)], from |-> 0]
HasVectors(v) == \E p \in Paths : \E u \in 0..v :
  /\ LastTouch(commits, v, p) = u
  /\ Has(commits[u], "addDV", p)

\* parse_checkpoint: its actions count as those of its version.
ApplyCheckpoint(m, v) ==
  LET file == IF single[v].written THEN single[v] ELSE Foreign(v)
      adds == SetToSeq({[what |-> "add", on |-> p, val |-> 1] : p \in file.adds})
      removes == SetToSeq({[what |-> "remove", on |-> p, val |-> 1] : p \in file.removes})
      sets == SetToSeq({[what |-> "set", on |-> k, val |-> file.values[k]] :
                          k \in {k \in Properties : file.values[k] # Removed}})
      applied == ApplyAll(m, adds \o removes \o sets, v)
  IN [applied EXCEPT !.unsupported = @ \/ (~single[v].written /\ HasVectors(v))]

-----------------------------------------------------------------------------
(* Everyone else *)

\* A version is reserved; or committed at once by the other engine.
ReserveSlot ==
  \E v \in 1..CkMax : \E s \in {"marker", "final"} :
    /\ IsHighest(v - 1)
    /\ slot' = [slot EXCEPT ![v] = s]
    /\ UNCHANGED <<commits, single, multi, last, horizon, cleaned, ck>>

\* A marker is replaced by its commit, or by an empty one.
FinishSlot ==
  \E v \in CkVersions :
    /\ slot[v] = "marker"
    /\ slot' = [slot EXCEPT ![v] = "final"]
    /\ commits' \in {commits, [commits EXCEPT ![v] = <<>>]}
    /\ UNCHANGED <<single, multi, last, horizon, cleaned, ck>>

\* The other engine writes the next part of a checkpoint.
ForeignPart ==
  \E v \in (cleaned..CkMax) \ {0} :
    /\ v % Interval = 0
    /\ \A u \in 0..v : slot[u] = "final"
    /\ multi[v] # 1..Parts
    /\ multi' = [multi EXCEPT ![v] = 1..(Cardinality(@) + 1)]
    /\ UNCHANGED <<commits, slot, single, last, horizon, cleaned, ck>>

\* Time passes: tombstones get older than their retention.
Age == /\ horizon = 0
       /\ horizon' = Expiry
       /\ UNCHANGED <<commits, slot, single, multi, last, cleaned, ck>>

\* A log cleanup removes the oldest version, with its checkpoint; a newer
\* checkpoint covers it.
Cleanup ==
  /\ \E v \in CkVersions : v > cleaned /\ Complete(v)
  /\ cleaned' = cleaned + 1
  /\ single' = [single EXCEPT ![cleaned] = NoCheckpoint]
  /\ multi' = [multi EXCEPT ![cleaned] = {}]
  /\ UNCHANGED <<commits, slot, last, horizon, ck>>

-----------------------------------------------------------------------------
(* A client *)

Become(c, r) == ck' = [ck EXCEPT ![c] = r]
\* The client is done with the table, and does nothing else.
Stop(c) == Become(c, [IdleClient EXCEPT !.at = "done"])
KeepStore == UNCHANGED <<commits, slot, single, multi, last, horizon, cleaned>>

\* The log is parsed from the version after the checkpoint's.
FirstLog(base) == base + 1

\* All ranges are parsed.
Loaded(c) == ck[c].at = "parse" /\ ck[c].todo = {}

\* The load starts: it applies checkpoint `base` (-1 in todo) and the versions
\* after it, in any order.
StartLoad(c, run, version, base) ==
  Become(c, [IdleClient EXCEPT
    !.at = "parse", !.run = run, !.version = version, !.base = base,
    !.todo = (IF base = None THEN {} ELSE {-1}) \cup FirstLog(base)..version])

\* load_table: the listing shows the highest version and the newest checkpoint.
OpenTable(c) ==
  /\ ck[c].at = "idle"
  /\ \E v \in CkVersions :
       IsHighest(v) /\ StartLoad(c, "open", v, NewestCheckpoint(CkMax))
  /\ KeepStore

\* checkpoint_after_commit: load_snapshot of the committed version; without
\* a checkpoint when _last_checkpoint or the list cannot be read
CheckpointAfterCommit(c) ==
  /\ ck[c].at = "idle"
  /\ \E v \in CkVersions :
       /\ slot[v] = "final" /\ v > 0 /\ v % Interval = 0
       /\ \E base \in {FindCheckpoint(v), None} : StartLoad(c, "after", v, base)
  /\ KeepStore

\* The checkpoint is applied; it may be gone meanwhile, which ends the load.
ParseCheckpoint(c) ==
  /\ ck[c].at = "parse" /\ -1 \in ck[c].todo
  /\ IF Complete(ck[c].base)
     THEN Become(c, [ck[c] EXCEPT !.todo = @ \ {-1},
                                  !.m = ApplyCheckpoint(@, ck[c].base)])
     ELSE Stop(c)
  /\ KeepStore

\* parse_logentries2 and the threads of load_snapshot: an open remembers the
\* marker it finds, the snapshot of a commit must not contain one.
ParseVersion(c) ==
  \E v \in ck[c].todo \ {-1} :
    /\ ck[c].at = "parse"
    /\ IF ~InLog(v) \/ (slot[v] = "marker" /\ ck[c].run = "after")
       THEN Stop(c)
       ELSE IF slot[v] = "marker"
            THEN Become(c, [ck[c] EXCEPT !.todo = @ \ {v}, !.waits = @ \cup {v}])
            ELSE Become(c, [ck[c] EXCEPT !.todo = @ \ {v},
                                         !.m = ApplyAll(@, commits[v], v)])
    /\ KeepStore

\* wait_for_marker applies the version once it is final; a failed HEAD or read
\* looks as if there was nothing to wait for.
WaitForMarker(c) ==
  \E v \in ck[c].waits :
    /\ Loaded(c)
    /\ \E found \in {TRUE, ~HeadFaults} :
         /\ found => slot[v] = "final"
         /\ Become(c, [ck[c] EXCEPT !.waits = @ \ {v},
              !.m = IF found THEN ApplyAll(@, commits[v], v) ELSE @])
    /\ KeepStore

\* The transaction adds or removes a file itself.
WorkOnFile(c) ==
  /\ Loaded(c) /\ ck[c].run = "open" /\ ~ck[c].changed
  /\ \E p \in Paths :
       Become(c, [ck[c] EXCEPT
         !.changed = TRUE,
         !.m.files = RegisterOperation(@, p,
                       IF @[p].op = "ADD" THEN "DELETE" ELSE "ADD", FALSE)])
  /\ KeepStore

\* Mutant: create_checkpoint with uncommitted changes
IgnoresChanges(c) == Loaded(c) /\ ck[c].waits = {}
MayCheckpoint(c) == /\ Loaded(c) /\ ck[c].waits = {}
                    /\ ~ck[c].changed

\* What write_checkpoint refuses: untracked features, no protocol or metadata
Writable(m) == /\ ~m.unsupported
               /\ m.values["protocol"].val # Removed
               /\ m.values["metaData"].val # Removed

StartCheckpoint(c) ==
  /\ MayCheckpoint(c)
  /\ IF Writable(ck[c].m) THEN Become(c, [ck[c] EXCEPT !.at = "file"])
     ELSE Stop(c)
  /\ KeepStore

\* The content of a checkpoint: tombstones only within their retention
Content(m) ==
  [written |-> TRUE, adds |-> Added(m),
   removes |-> {p \in Tombstones(m) : m.files[p].time >= horizon},
   values |-> [k \in Properties |-> m.values[k].val], from |-> horizon]

\* The checkpoint file is written unless there is one; or not at all.
WriteFile(c) ==
  LET v == ck[c].version IN
  /\ ck[c].at = "file"
  /\ \/ /\ single' = IF single[v].written THEN single
                     ELSE [single EXCEPT ![v] = Content(ck[c].m)]
        /\ Become(c, [IdleClient EXCEPT !.at = "readLast", !.version = v])
     \/ /\ Stop(c)
        /\ UNCHANGED single
  /\ UNCHANGED <<commits, slot, multi, last, horizon, cleaned>>

\* _last_checkpoint is read with its ETag; nothing (also when the read fails)
\* means that it is to be created.
ReadLast(c) ==
  /\ ck[c].at = "readLast"
  /\ \E seen \in {last, None} :
       IF seen >= ck[c].version THEN Stop(c)
       ELSE Become(c, [ck[c] EXCEPT !.at = "writeLast", !.etag = seen])
  /\ KeepStore

\* Mutant: _last_checkpoint is written without a condition.
Unconditional(c) == TRUE
LastIsAsRead(c) == last = ck[c].etag

\* It is written if it is still what was read; otherwise, or when the response
\* is an error, read again, storage_retries times.
WriteLast(c) ==
  /\ ck[c].at = "writeLast"
  /\ \E ok \in {LastIsAsRead(c), FALSE} : \E answered \in BOOLEAN :
       /\ last' = IF ok THEN ck[c].version ELSE last
       /\ IF ok /\ answered THEN Stop(c)
          ELSE IF ck[c].tries + 1 = CkRetries THEN Stop(c)
          ELSE Become(c, [ck[c] EXCEPT !.at = "readLast", !.etag = None, !.tries = @ + 1])
  /\ UNCHANGED <<commits, slot, single, multi, horizon, cleaned>>

-----------------------------------------------------------------------------
CkInit ==
  /\ \E h \in Histories : commits = [v \in CkVersions |-> h[v + 1]]
  /\ slot = [v \in CkVersions |-> IF v = 0 THEN "final" ELSE "free"]
  /\ single = [v \in CkVersions |-> NoCheckpoint]
  /\ multi = [v \in CkVersions |-> {}]
  /\ last = None
  /\ horizon = 0
  /\ cleaned = 0
  /\ ck = [c \in CkClients |-> IdleClient]

CkNext ==
  \/ ReserveSlot \/ FinishSlot \/ ForeignPart \/ Age \/ Cleanup
  \/ \E c \in CkClients :
       \/ OpenTable(c) \/ CheckpointAfterCommit(c) \/ ParseCheckpoint(c)
       \/ ParseVersion(c) \/ WaitForMarker(c) \/ WorkOnFile(c)
       \/ StartCheckpoint(c) \/ WriteFile(c) \/ ReadLast(c) \/ WriteLast(c)

CkSpec == CkInit /\ [][CkNext]_ckVars

-----------------------------------------------------------------------------
(* Properties *)

\* The types of the variables.
CkTypeOK ==
  /\ slot \in [CkVersions -> {"free", "marker", "final"}]
  /\ single \in [CkVersions -> CheckpointFiles]
  /\ multi \in [CkVersions -> SUBSET (1..Parts)]
  /\ last \in -1..CkMax
  /\ horizon \in Nat
  /\ cleaned \in CkVersions
  /\ ck \in [CkClients -> CkStates]

Holds(adds, values, v) ==
  /\ \A u \in 0..v : slot[u] = "final"
  /\ adds = {p \in Paths : LiveFile(commits, v, p)}
  /\ values = [k \in Properties |-> PropertyAt(commits, v, k)]

\* In whatever order its threads apply the checkpoint and the versions, a
\* client that has loaded a snapshot and waited for the markers in it knows
\* the files and properties of its version, unless the table has features
\* that LakeVilla does not track.
SnapshotIsItsVersion ==
  \A c \in CkClients :
    (Loaded(c) /\ ck[c].waits = {} /\ ~ck[c].changed /\ ~ck[c].m.unsupported)
      => Holds(Added(ck[c].m), [k \in Properties |-> ck[c].m.values[k].val], ck[c].version)

\* "a checkpoint must describe exactly the snapshot at its version": nobody
\* notices a wrong one until the versions below it are gone.  Its tombstones
\* are removed files, and all of those within the retention.
CheckpointsAreSnapshots ==
  \A v \in CkVersions : single[v].written =>
    /\ Holds(single[v].adds, single[v].values, v)
    /\ LET removed == {p \in Paths : RemovedFile(commits, v, p)} IN
       /\ single[v].removes \subseteq removed
       /\ {p \in removed : LastTouch(commits, v, p) >= single[v].from}
            \subseteq single[v].removes

\* _last_checkpoint never moves backwards, whoever writes checkpoints of
\* whatever versions, and names only checkpoints that were written.
LastCheckpointMovesForward ==
  [][last' # last => last' > last /\ (Complete(last') \/ last' < cleaned)]_ckVars
=============================================================================
