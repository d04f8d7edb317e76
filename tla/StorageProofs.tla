---------------------------- MODULE StorageProofs ---------------------------
(***************************************************************************)
(* Proofs about what a table keeps in the object store, whatever it holds  *)
(* and however many clients there are:                                     *)
(*   - the actions of different versions may be applied in any order;      *)
(*   - _last_checkpoint moves forward;                                     *)
(*   - a client that has loaded a snapshot knows that of its version, and  *)
(*     the checkpoint that it writes describes it;                         *)
(*   - a table is created by one client, and a drop hides it first.        *)
(***************************************************************************)
EXTENDS Checkpoint, TableLifecycle, FiniteSetTheorems, WellFoundedInduction, TLAPS

\* The entries that log actions make
LogEntries == {e \in Entries : e.op # "NONE"}

\* The same files with the same state; sizes may differ.
SameFiles(f, g) ==
  \A p \in Paths : f[p].op = g[p].op /\ f[p].version = g[p].version

-----------------------------------------------------------------------------
\* register_action touches one file, and keeps the entries' types.
LEMMA RegisterTypes ==
  ASSUME NEW files \in [Paths -> Entries], NEW p \in Paths, NEW e \in Entries
  PROVE  /\ RegisterAction(files, p, e) \in [Paths -> Entries]
         /\ \A q \in Paths : q # p => RegisterAction(files, p, e)[q] = files[q]
BY DEF RegisterAction, Entries

\* What it does to the file
LEMMA RegisterReplaces ==
  ASSUME NEW files \in [Paths -> Entries], NEW p \in Paths, NEW e \in Entries
  PROVE  /\ RegisterAction(files, p, e)[p].op =
              IF Replaces(files[p], e) THEN e.op ELSE files[p].op
         /\ RegisterAction(files, p, e)[p].version =
              IF Replaces(files[p], e) THEN e.version ELSE files[p].version
BY DEF RegisterAction, Entries

\* The threads of load_table and load_snapshot apply the versions as they read
\* them: of two actions of different versions, in either order, the one of the
\* higher version decides.
THEOREM VersionsInAnyOrder ==
  ASSUME NEW files \in [Paths -> Entries], NEW p \in Paths, NEW q \in Paths,
         NEW e \in LogEntries, NEW f \in LogEntries, e.version # f.version
  PROVE  SameFiles(RegisterAction(RegisterAction(files, p, e), q, f),
                   RegisterAction(RegisterAction(files, q, f), p, e))
<1> DEFINE fe == RegisterAction(files, p, e)
           ff == RegisterAction(files, q, f)
<1>0. e \in Entries /\ f \in Entries
  BY DEF LogEntries
<1>1. /\ fe \in [Paths -> Entries] /\ ff \in [Paths -> Entries]
      /\ \A r \in Paths : r # p => fe[r] = files[r]
      /\ \A r \in Paths : r # q => ff[r] = files[r]
  BY <1>0, RegisterTypes
<1>2. CASE p # q
  <2>1. /\ \A r \in Paths : r # q => RegisterAction(fe, q, f)[r] = fe[r]
        /\ \A r \in Paths : r # p => RegisterAction(ff, p, e)[r] = ff[r]
    BY <1>0, <1>1, RegisterTypes
  <2>2. fe[q] = files[q] /\ ff[p] = files[p]
    BY <1>1, <1>2
  <2>3. /\ ff[q].op = IF Replaces(files[q], f) THEN f.op ELSE files[q].op
        /\ ff[q].version = IF Replaces(files[q], f) THEN f.version ELSE files[q].version
        /\ fe[p].op = IF Replaces(files[p], e) THEN e.op ELSE files[p].op
        /\ fe[p].version = IF Replaces(files[p], e) THEN e.version ELSE files[p].version
    BY <1>0, RegisterReplaces
  <2> HIDE DEF fe, ff
  <2>4. /\ RegisterAction(fe, q, f)[q].op = IF Replaces(fe[q], f) THEN f.op ELSE fe[q].op
        /\ RegisterAction(fe, q, f)[q].version =
             IF Replaces(fe[q], f) THEN f.version ELSE fe[q].version
    BY <1>0, <1>1, RegisterReplaces
  <2>5. /\ RegisterAction(ff, p, e)[p].op = IF Replaces(ff[p], e) THEN e.op ELSE ff[p].op
        /\ RegisterAction(ff, p, e)[p].version =
             IF Replaces(ff[p], e) THEN e.version ELSE ff[p].version
    BY <1>0, <1>1, RegisterReplaces
  <2>6. SameFiles(RegisterAction(fe, q, f), RegisterAction(ff, p, e))
    BY <1>1, <1>2, <2>1, <2>2, <2>3, <2>4, <2>5 DEF SameFiles
  <2> QED BY <2>6 DEF fe, ff
<1>3. CASE p = q
  <2>1. /\ files[p].version \in Int /\ e.version \in Int /\ f.version \in Int
        /\ e.op \in {"ADD", "DELETE"} /\ f.op \in {"ADD", "DELETE"}
    BY DEF LogEntries, Entries
  <2>2. /\ fe[p].op = IF Replaces(files[p], e) THEN e.op ELSE files[p].op
        /\ fe[p].version = IF Replaces(files[p], e) THEN e.version ELSE files[p].version
    BY <1>0, RegisterReplaces
  <2>9. /\ ff[p].op = IF Replaces(files[p], f) THEN f.op ELSE files[p].op
        /\ ff[p].version = IF Replaces(files[p], f) THEN f.version ELSE files[p].version
    BY <1>0, <1>3, RegisterReplaces
  <2> HIDE DEF fe, ff
  <2>3. /\ RegisterAction(fe, p, f)[p].op = IF Replaces(fe[p], f) THEN f.op ELSE fe[p].op
        /\ RegisterAction(fe, p, f)[p].version =
             IF Replaces(fe[p], f) THEN f.version ELSE fe[p].version
    BY <1>0, <1>1, RegisterReplaces
  <2>4. /\ RegisterAction(ff, p, e)[p].op = IF Replaces(ff[p], e) THEN e.op ELSE ff[p].op
        /\ RegisterAction(ff, p, e)[p].version =
             IF Replaces(ff[p], e) THEN e.version ELSE ff[p].version
    BY <1>0, <1>1, RegisterReplaces
  <2>5. /\ RegisterAction(fe, p, f)[p].op = RegisterAction(ff, p, e)[p].op
        /\ RegisterAction(fe, p, f)[p].version = RegisterAction(ff, p, e)[p].version
    BY <2>1, <2>2, <2>9, <2>3, <2>4 DEF Replaces
  <2>6. \A r \in Paths : r # p => RegisterAction(fe, p, f)[r] = fe[r]
    BY <1>0, <1>1, RegisterTypes
  <2>7. \A r \in Paths : r # p => RegisterAction(ff, p, e)[r] = ff[r]
    BY <1>0, <1>1, RegisterTypes
  <2>8. SameFiles(RegisterAction(fe, p, f), RegisterAction(ff, p, e))
    BY <1>1, <1>3, <2>5, <2>6, <2>7 DEF SameFiles
  <2> QED BY <1>3, <2>8 DEF fe, ff
<1> QED BY <1>2, <1>3

-----------------------------------------------------------------------------
\* A state of a client, of which only at, version and etag are told
IsClient(r) ==
  r \in [at : {"idle", "parse", "file", "readLast", "writeLast", "done"},
         run : {r.run}, version : CkVersions, base : {r.base}, todo : {r.todo},
         waits : {r.waits}, m : {r.m}, changed : {r.changed}, etag : Int,
         tries : {r.tries}]

\* The checkpoint of v was written; it is still there unless cleaned up.
WasWritten(v) == Complete(v) \/ v < cleaned

StoreTypes ==
  /\ single = [v \in CkVersions |-> single[v]]
  /\ multi = [v \in CkVersions |-> multi[v]]
  /\ last \in Int /\ cleaned \in Nat

\* Who updates _last_checkpoint has written the checkpoint, and has read an
\* older one.
MayUpdate(r) ==
  /\ r.at \in {"readLast", "writeLast"} => WasWritten(r.version)
  /\ r.at = "writeLast" => r.etag < r.version

LastInv ==
  /\ StoreTypes
  /\ DOMAIN ck = CkClients
  /\ \A c \in CkClients : IsClient(ck[c]) /\ MayUpdate(ck[c])

\* A step of the store, or of client c to state r, that loses no checkpoint
LEMMA StoreStep ==
  ASSUME LastInv, StoreTypes', UNCHANGED ck,
         \A v \in CkVersions : WasWritten(v) => WasWritten(v)'
  PROVE  LastInv'
BY DEF LastInv, MayUpdate, IsClient

LEMMA ClientStep ==
  ASSUME LastInv, StoreTypes', NEW c \in CkClients, NEW r,
         ck' = [ck EXCEPT ![c] = r], IsClient(r),
         r.at \in {"readLast", "writeLast"} => WasWritten(r.version)',
         r.at = "writeLast" => r.etag < r.version,
         \A v \in CkVersions : WasWritten(v) => WasWritten(v)'
  PROVE  LastInv'
<1>1. DOMAIN ck' = CkClients /\ ck'[c] = r /\ \A d \in CkClients : d # c => ck'[d] = ck[d]
  BY DEF LastInv
<1>2. \A d \in CkClients : d # c => IsClient(ck'[d]) /\ MayUpdate(ck[d])
  BY <1>1 DEF LastInv
<1>3. ASSUME NEW d \in CkClients PROVE IsClient(ck[d])' /\ MayUpdate(ck[d])'
  <2>1. CASE d = c
    BY <1>1, <2>1 DEF MayUpdate, IsClient
  <2>2. CASE d # c
    BY <1>1, <1>2, <2>2 DEF MayUpdate, IsClient
  <2> QED BY <2>1, <2>2
<1> QED BY <1>1, <1>3 DEF LastInv

\* A client that does not write _last_checkpoint may be in any state.
LEMMA OtherStep ==
  ASSUME LastInv, KeepStore, NEW c \in CkClients, NEW r, Become(c, r),
         IsClient(r), r.at \notin {"readLast", "writeLast"}
  PROVE  LastInv'
<1>1. StoreTypes' /\ \A v \in CkVersions : WasWritten(v) => WasWritten(v)'
  BY DEF LastInv, KeepStore, StoreTypes, WasWritten, Complete
<1> QED BY <1>1, ClientStep DEF Become

\* So may one that is done.
LEMMA IdleIsClient ==
  /\ IsClient(IdleClient)
  /\ IsClient([IdleClient EXCEPT !.at = "done"])
  /\ [IdleClient EXCEPT !.at = "done"].at = "done"
<1>1. 0 \in CkVersions /\ None \in Int
  BY CheckpointAssumption DEF CkVersions, None
<1>2. IsClient(IdleClient)
  BY <1>1 DEF IsClient, IdleClient
<1>3. IsClient([IdleClient EXCEPT !.at = "done"]) /\ [IdleClient EXCEPT !.at = "done"].at = "done"
  BY <1>1 DEF IsClient, IdleClient
<1> QED BY <1>2, <1>3

LEMMA StopStep ==
  ASSUME LastInv, KeepStore, NEW c \in CkClients, Stop(c)
  PROVE  LastInv'
BY IdleIsClient, OtherStep DEF Stop

\* A load begins.
LEMMA StartLoadStep ==
  ASSUME LastInv, KeepStore, NEW c \in CkClients,
         NEW run, NEW version \in CkVersions, NEW b, StartLoad(c, run, version, b)
  PROVE  LastInv'
<1> DEFINE r == [IdleClient EXCEPT
             !.at = "parse", !.run = run, !.version = version, !.base = b,
             !.todo = (IF b = None THEN {} ELSE {-1}) \cup FirstLog(b)..version]
<1>1. IsClient(r) /\ r.at = "parse"
  BY IdleIsClient DEF IsClient
<1>2. Become(c, r)
  BY DEF StartLoad
<1> HIDE DEF r
<1> QED BY <1>1, <1>2, OtherStep

\* The steps of a client before it writes
LEMMA LoadSteps ==
  ASSUME LastInv, NEW c \in CkClients,
         \/ OpenTable(c) \/ CheckpointAfterCommit(c) \/ ParseCheckpoint(c)
         \/ ParseVersion(c) \/ WaitForMarker(c) \/ WorkOnFile(c) \/ StartCheckpoint(c)
  PROVE  LastInv'
<1>0. IsClient(ck[c])
  BY DEF LastInv
<1>1. CASE OpenTable(c)
  BY <1>1, StartLoadStep DEF OpenTable
<1>2. CASE CheckpointAfterCommit(c)
  BY <1>2, StartLoadStep DEF CheckpointAfterCommit
<1>3. CASE ParseCheckpoint(c)
  <2>1. CASE Stop(c)
    BY <1>3, <2>1, StopStep DEF ParseCheckpoint
  <2>2. CASE ~Stop(c)
    <3> DEFINE m == ApplyCheckpoint(ck[c].m, ck[c].base)
               r == [ck[c] EXCEPT !.todo = @ \ {-1}, !.m = m]
    <3>1. ck[c].at = "parse" /\ Become(c, r) /\ KeepStore
      BY <1>3, <2>2 DEF ParseCheckpoint
    <3> HIDE DEF m
    <3>2. IsClient(r) /\ r.at = "parse"
      BY <1>0, <3>1 DEF IsClient
    <3> HIDE DEF r
    <3> QED BY <3>1, <3>2, OtherStep
  <2> QED BY <2>1, <2>2
<1>4. CASE ParseVersion(c)
  <2>1. PICK v \in ck[c].todo \ {-1} :
          /\ ck[c].at = "parse" /\ KeepStore
          /\ \/ Stop(c)
             \/ Become(c, [ck[c] EXCEPT !.todo = @ \ {v}, !.waits = @ \cup {v}])
             \/ Become(c, [ck[c] EXCEPT !.todo = @ \ {v}, !.m = ApplyAll(@, commits[v], v)])
    BY <1>4 DEF ParseVersion
  <2> DEFINE m == ApplyAll(ck[c].m, commits[v], v)
             r == [ck[c] EXCEPT !.todo = @ \ {v}, !.waits = @ \cup {v}]
             s == [ck[c] EXCEPT !.todo = @ \ {v}, !.m = m]
  <2>2. Stop(c) \/ Become(c, r) \/ Become(c, s)
    BY <2>1
  <2> HIDE DEF m
  <2>3. IsClient(r) /\ r.at = "parse" /\ IsClient(s) /\ s.at = "parse"
    BY <1>0, <2>1 DEF IsClient
  <2> HIDE DEF r, s
  <2> QED BY <2>1, <2>2, <2>3, StopStep, OtherStep
<1>5. CASE WaitForMarker(c)
  <2>1. PICK v \in ck[c].waits, found \in {TRUE, ~HeadFaults} :
          /\ Loaded(c) /\ KeepStore
          /\ Become(c, [ck[c] EXCEPT !.waits = @ \ {v},
               !.m = IF found THEN ApplyAll(@, commits[v], v) ELSE @])
    BY <1>5 DEF WaitForMarker
  <2> DEFINE m == IF found THEN ApplyAll(ck[c].m, commits[v], v) ELSE ck[c].m
             r == [ck[c] EXCEPT !.waits = @ \ {v}, !.m = m]
  <2>2. Become(c, r)
    BY <2>1
  <2> HIDE DEF m
  <2>3. IsClient(r) /\ r.at = "parse"
    BY <1>0, <2>1 DEF IsClient, Loaded
  <2> HIDE DEF r
  <2> QED BY <2>1, <2>2, <2>3, OtherStep
<1>6. CASE WorkOnFile(c)
  <2>1. PICK p \in Paths :
          Become(c, [ck[c] EXCEPT
            !.changed = TRUE,
            !.m.files = RegisterOperation(@, p,
                          IF @[p].op = "ADD" THEN "DELETE" ELSE "ADD", FALSE)])
    BY <1>6 DEF WorkOnFile
  <2> DEFINE r == [ck[c] EXCEPT
            !.changed = TRUE,
            !.m.files = RegisterOperation(@, p,
                          IF @[p].op = "ADD" THEN "DELETE" ELSE "ADD", FALSE)]
  <2>2. IsClient(r) /\ r.at = "parse"
    BY <1>0, <1>6 DEF IsClient, WorkOnFile, Loaded
  <2>3. Become(c, r)
    BY <2>1
  <2> HIDE DEF r
  <2> QED BY <1>6, <2>2, <2>3, OtherStep DEF WorkOnFile
<1>7. CASE StartCheckpoint(c)
  <2>1. KeepStore /\ (Stop(c) \/ Become(c, [ck[c] EXCEPT !.at = "file"]))
    BY <1>7 DEF StartCheckpoint
  <2>2. IsClient([ck[c] EXCEPT !.at = "file"]) /\ [ck[c] EXCEPT !.at = "file"].at = "file"
    BY <1>0 DEF IsClient
  <2> QED BY <2>1, <2>2, StopStep, OtherStep
<1> QED BY <1>1, <1>2, <1>3, <1>4, <1>5, <1>6, <1>7

\* The other actions on the store: none loses a checkpoint, but the cleanup
\* that removes its version.
LEMMA StoreSteps ==
  ASSUME LastInv, ReserveSlot \/ FinishSlot \/ ForeignPart \/ Age \/ Cleanup
  PROVE  LastInv'
<1> USE DEF WasWritten, Complete, StoreTypes
<1>0. StoreTypes
  BY DEF LastInv
<1>1. CASE ReserveSlot \/ FinishSlot \/ Age
  BY <1>0, <1>1, StoreStep DEF ReserveSlot, FinishSlot, Age
<1>2. CASE ForeignPart
  <2>1. PICK v \in (cleaned..CkMax) \ {0} :
          /\ multi[v] # 1..Parts
          /\ multi' = [multi EXCEPT ![v] = 1..(Cardinality(@) + 1)]
    BY <1>2 DEF ForeignPart
  <2>2. \A w \in CkVersions : w # v => multi'[w] = multi[w]
    BY <1>0, <2>1
  <2>3. StoreTypes' /\ UNCHANGED <<single, cleaned, ck>>
    BY <1>0, <1>2, <2>1 DEF ForeignPart
  <2> QED BY <2>1, <2>2, <2>3, StoreStep
<1>3. CASE Cleanup
  <2>1. \A w \in CkVersions : w # cleaned => single'[w] = single[w] /\ multi'[w] = multi[w]
    BY <1>0, <1>3 DEF Cleanup
  <2>4. /\ single' = [single EXCEPT ![cleaned] = NoCheckpoint]
        /\ multi' = [multi EXCEPT ![cleaned] = {}]
        /\ cleaned' = cleaned + 1 /\ UNCHANGED <<last, ck>>
    BY <1>3 DEF Cleanup
  <2>5. single' = [v \in CkVersions |-> single'[v]]
    BY <1>0, <2>4
  <2>6. multi' = [v \in CkVersions |-> multi'[v]]
    BY <1>0, <2>4
  <2>2. StoreTypes' /\ cleaned' = cleaned + 1 /\ UNCHANGED ck
    BY <1>0, <2>4, <2>5, <2>6
  <2>3. \A w \in CkVersions : w < cleaned \/ w = cleaned => w < cleaned'
    BY <1>0, <2>2, CheckpointAssumption DEF CkVersions
  <2> QED BY <2>1, <2>2, <2>3, StoreStep
<1> QED BY <1>1, <1>2, <1>3

\* The checkpoint file is there when the client goes on.
LEMMA WriteFileStep ==
  ASSUME LastInv, NEW c \in CkClients, WriteFile(c)
  PROVE  LastInv'
<1>0. StoreTypes /\ IsClient(ck[c])
  BY DEF LastInv
<1>1. CASE Stop(c) /\ UNCHANGED single
  <2>1. KeepStore
    BY <1>1 DEF WriteFile, KeepStore
  <2> QED BY <1>1, <2>1, StopStep
<1>2. CASE ~(Stop(c) /\ UNCHANGED single)
  <2>1. PICK v \in CkVersions : v = ck[c].version
    BY <1>0 DEF IsClient
  <2> DEFINE r == [IdleClient EXCEPT !.at = "readLast", !.version = v]
  <2>2. /\ single' = IF single[v].written THEN single
                    ELSE [single EXCEPT ![v] = Content(ck[c].m)]
        /\ Become(c, r) /\ UNCHANGED <<multi, last, cleaned>>
    BY <1>2, <2>1 DEF WriteFile
  <2>3. IsClient(r) /\ r.at = "readLast" /\ r.version = v
    BY <2>1, IdleIsClient DEF IsClient
  <2> HIDE DEF r
  <2>4. single'[v].written /\ \A w \in CkVersions : w # v => single'[w] = single[w]
    BY <1>0, <2>1, <2>2 DEF StoreTypes, Content
  <2>5. StoreTypes'
    BY <1>0, <2>1, <2>2 DEF StoreTypes
  <2>6. \A w \in CkVersions : WasWritten(w) => WasWritten(w)'
    BY <2>2, <2>4 DEF WasWritten, Complete
  <2>7. WasWritten(v)'
    BY <2>4 DEF WasWritten, Complete
  <2> QED BY <2>2, <2>3, <2>5, <2>6, <2>7, ClientStep DEF Become
<1> QED BY <1>1, <1>2

\* _last_checkpoint is read: the client goes on if it names an older version.
LEMMA ReadLastStep ==
  ASSUME LastInv, NEW c \in CkClients, ReadLast(c)
  PROVE  LastInv'
<1>0. StoreTypes /\ IsClient(ck[c]) /\ WasWritten(ck[c].version) /\ KeepStore
  BY DEF LastInv, MayUpdate, ReadLast
<1>1. PICK seen \in {last, None} :
        IF seen >= ck[c].version THEN Stop(c)
        ELSE Become(c, [ck[c] EXCEPT !.at = "writeLast", !.etag = seen])
  BY DEF ReadLast
<1>2. CASE seen >= ck[c].version
  BY <1>0, <1>1, <1>2, StopStep
<1>3. CASE ~(seen >= ck[c].version)
  <2> DEFINE r == [ck[c] EXCEPT !.at = "writeLast", !.etag = seen]
  <2>1. ck[c].version \in Int /\ seen \in Int
    BY <1>0, CheckpointAssumption DEF IsClient, StoreTypes, None, CkVersions
  <2>2. /\ IsClient(r) /\ r.at = "writeLast" /\ r.version = ck[c].version
        /\ r.etag = seen
    BY <1>0, <2>1 DEF IsClient
  <2>3. Become(c, r)
    BY <1>1, <1>3
  <2> HIDE DEF r
  <2>4. r.etag < r.version
    BY <1>3, <2>1, <2>2
  <2>5. StoreTypes' /\ \A w \in CkVersions : WasWritten(w) => WasWritten(w)'
    BY <1>0 DEF KeepStore, StoreTypes, WasWritten, Complete
  <2> QED BY <1>0, <2>2, <2>3, <2>4, <2>5, ClientStep DEF Become, IsClient
<1> QED BY <1>2, <1>3

\* What a write of _last_checkpoint does to it
LEMMA WriteLastMoves ==
  ASSUME LastInv, NEW c \in CkClients, WriteLast(c)
  PROVE  /\ last' # last => last' > last /\ WasWritten(last')
         /\ last' \in Int
<1>0. /\ StoreTypes /\ IsClient(ck[c]) /\ WasWritten(ck[c].version)
      /\ ck[c].etag < ck[c].version
  BY DEF LastInv, MayUpdate, WriteLast
<1>1. PICK ok \in {LastIsAsRead(c), FALSE} : last' = IF ok THEN ck[c].version ELSE last
  BY DEF WriteLast
<1>2. ck[c].version \in Int /\ ck[c].etag \in Int
  BY <1>0, CheckpointAssumption DEF IsClient, CkVersions
<1> QED BY <1>0, <1>1, <1>2 DEF LastIsAsRead, StoreTypes

LEMMA WriteLastStep ==
  ASSUME LastInv, NEW c \in CkClients, WriteLast(c)
  PROVE  LastInv'
<1>0. StoreTypes /\ IsClient(ck[c]) /\ WasWritten(ck[c].version)
  BY DEF LastInv, MayUpdate, WriteLast
<1>1. /\ StoreTypes'
      /\ \A w \in CkVersions : WasWritten(w) => WasWritten(w)'
  BY <1>0, WriteLastMoves DEF WriteLast, StoreTypes, WasWritten, Complete
<1> DEFINE n == ck[c].tries + 1
           e == None
           r == [ck[c] EXCEPT !.at = "readLast", !.etag = e, !.tries = n]
<1>2. Stop(c) \/ Become(c, r)
  BY DEF WriteLast
<1>6. e \in Int
  BY DEF None
<1> HIDE DEF n, e
<1>3. IsClient(r) /\ r.at = "readLast" /\ r.version = ck[c].version
  BY <1>0, <1>6 DEF IsClient
<1> HIDE DEF r
<1>4. CASE Stop(c)
  BY <1>1, <1>4, IdleIsClient, ClientStep DEF Stop, Become
<1>5. CASE Become(c, r)
  BY <1>0, <1>1, <1>3, <1>5, ClientStep DEF Become, IsClient
<1> QED BY <1>2, <1>4, <1>5

\* The invariant holds in every reachable state.
LEMMA LastInductive == CkSpec => []LastInv
<1>1. CkInit => LastInv
  <2> SUFFICES ASSUME CkInit PROVE LastInv
    OBVIOUS
  <2>1. StoreTypes
    BY DEF CkInit, StoreTypes, None
  <2>2. IdleClient.at = "idle" /\ DOMAIN ck = CkClients
    BY DEF IdleClient, CkInit
  <2>3. \A c \in CkClients : ck[c] = IdleClient
    BY DEF CkInit
  <2> QED BY <2>1, <2>2, <2>3, IdleIsClient DEF LastInv, MayUpdate
<1>2. LastInv /\ [CkNext]_ckVars => LastInv'
  <2> SUFFICES ASSUME LastInv, [CkNext]_ckVars PROVE LastInv'
    OBVIOUS
  <2>1. CASE UNCHANGED ckVars
    BY <2>1 DEF ckVars, LastInv, StoreTypes, MayUpdate, WasWritten, Complete, IsClient
  <2> QED BY <2>1, StoreSteps, LoadSteps, WriteFileStep, ReadLastStep, WriteLastStep
       DEF CkNext
<1> QED BY <1>1, <1>2, PTL DEF CkSpec

\* update_last_checkpoint writes under the ETag it has read: _last_checkpoint
\* never moves back, and names only checkpoints that were written, for any
\* number of clients, versions and retries.
THEOREM LastCheckpointIsMonotonic == CkSpec => LastCheckpointMovesForward
<1>1. LastInv /\ [CkNext]_ckVars =>
        [last' # last => last' > last /\ (Complete(last') \/ last' < cleaned)]_ckVars
  <2> SUFFICES ASSUME LastInv, CkNext, last' # last
               PROVE  last' > last /\ (Complete(last') \/ last' < cleaned)
    OBVIOUS
  <2>1. PICK c \in CkClients : WriteLast(c)
    BY DEF CkNext, ReserveSlot, FinishSlot, ForeignPart, Age, Cleanup, OpenTable,
           CheckpointAfterCommit, ParseCheckpoint, ParseVersion, WaitForMarker,
           WorkOnFile, StartCheckpoint, WriteFile, ReadLast, KeepStore
  <2> QED BY <2>1, WriteLastMoves DEF WasWritten
<1> QED BY <1>1, LastInductive, PTL DEF CkSpec, LastCheckpointMovesForward

-----------------------------------------------------------------------------
(* What a sequence of log actions does to a manager *)

\* A set of naturals that is not empty has a least element.
LEMMA LeastNat ==
  ASSUME NEW S \in SUBSET Nat, S # {}
  PROVE  \E n \in S : \A k \in S : n <= k
<1>1. PICK n \in S : \A k \in S : ~(<<k, n>> \in OpToRel(<, Nat))
  BY NatLessThanWellFounded, WFMin
<1>2. \A k \in S : ~(k < n)
  BY <1>1 DEF OpToRel
<1> QED BY <1>2

\* So has a bounded one a greatest.
LEMMA MaxOf ==
  ASSUME NEW n \in Nat, NEW S \in SUBSET (-1..n), S # {}
  PROVE  Max(S) \in S /\ \A y \in S : y <= Max(S)
<1> DEFINE T == {k \in Nat : n - k \in S}
<1>1. PICK x \in S : TRUE
  OBVIOUS
<1>2. n - x \in T
  <2>1. x \in Int /\ x <= n /\ n - (n - x) = x
    OBVIOUS
  <2> QED BY <2>1
<1>3. PICK k \in T : \A l \in T : k <= l
  BY <1>2, LeastNat
<1>4. \A y \in S : n - k >= y
  <2> SUFFICES ASSUME NEW y \in S PROVE n - k >= y
    OBVIOUS
  <2>1. y \in Int /\ y <= n /\ n - (n - y) = y
    OBVIOUS
  <2>2. n - y \in T
    BY <2>1
  <2> QED BY <1>3, <2>1, <2>2
<1>5. Max(S) \in S /\ \A y \in S : Max(S) >= y
  BY <1>3, <1>4 DEF Max
<1> QED BY <1>5

\* The recursive function by which FoldLeft is defined, for actions 1 .. n
FoldStep(g, n, m, actions, v) ==
  [s \in SUBSET (1..n) |->
     IF s = {} THEN m ELSE Apply(g[s \ {Max(s)}], actions[Max(s)], v)]

\* FoldLeft by its definition
LEMMA ApplyAllIter ==
  ASSUME NEW m, NEW actions, NEW v
  PROVE  LET iter == CHOOSE iter : iter = [s \in SUBSET DOMAIN actions |->
                        IF s = {} THEN m
                        ELSE Apply(iter[s \ {Max(s)}], actions[Max(s)], v)]
         IN ApplyAll(m, actions, v) = iter[DOMAIN actions]
BY DEF ApplyAll, FoldLeft, MapThenFoldSet

\* There is such a function: the least n that has none follows one that has.
LEMMA FoldExists ==
  ASSUME NEW m, NEW actions, NEW v, NEW n \in Nat
  PROVE  \E g : g = FoldStep(g, n, m, actions, v)
<1> USE DEF FoldStep
<1> DEFINE Good(k, g) == g = FoldStep(g, k, m, actions, v)
           Bad == {k \in Nat : ~\E g : Good(k, g)}
<1>1. SUFFICES ASSUME Bad # {} PROVE FALSE
  OBVIOUS
<1>2. PICK k \in Bad : \A l \in Bad : k <= l
  BY <1>1, LeastNat
<1>k. k \in Nat
  OBVIOUS
<1>3. k # 0
  <2> DEFINE g == [s \in SUBSET (1..0) |-> m]
  <2>1. \A s \in SUBSET (1..0) : s = {}
    OBVIOUS
  <2>2. Good(0, g)
    BY <2>1
  <2> QED BY <2>2
<1>4. PICK g : Good(k - 1, g)
  <2>1. k - 1 \in Nat /\ ~(k <= k - 1)
    BY <1>3
  <2>2. k - 1 \notin Bad
    BY <1>2, <2>1
  <2> QED BY <2>1, <2>2
<1> DEFINE h == [s \in SUBSET (1..k) |->
                        IF s = {} THEN m
                        ELSE Apply(g[s \ {Max(s)}], actions[Max(s)], v)]
<1>5. \A s \in SUBSET (1..(k - 1)) : h[s] = g[s] /\ s \in SUBSET (1..k)
  <2>1. SUBSET (1..(k - 1)) \subseteq SUBSET (1..k)
    BY <1>k
  <2>2. Good(k - 1, g)
    BY <1>4
  <2> HIDE DEF Bad
  <2> QED BY <2>1, <2>2
<1>6. \A s \in SUBSET (1..k) : s # {} => s \ {Max(s)} \in SUBSET (1..(k - 1))
  <2> SUFFICES ASSUME NEW s \in SUBSET (1..k), s # {}, NEW x \in s, x # Max(s)
               PROVE  x \in 1..(k - 1)
    OBVIOUS
  <2> HIDE DEF Bad, h
  <2>0. s \in SUBSET (-1..k)
    BY <1>k
  <2>1. Max(s) \in s /\ \A y \in s : y <= Max(s)
    BY <1>k, <2>0, MaxOf
  <2>2. x \in 1..k /\ Max(s) \in 1..k /\ x <= Max(s)
    BY <2>1
  <2> QED BY <1>k, <2>2
<1>7. Good(k, h)
  <2>1. \A s \in SUBSET (1..k) : s # {} => h[s \ {Max(s)}] = g[s \ {Max(s)}]
    BY <1>5, <1>6
  <2> HIDE DEF h
  <2>2. \A s \in SUBSET (1..k) : 
           (IF s = {} THEN m ELSE Apply(g[s \ {Max(s)}], actions[Max(s)], v))
           = (IF s = {} THEN m ELSE Apply(h[s \ {Max(s)}], actions[Max(s)], v))
    BY <2>1
  <2>3. h = [s \in SUBSET (1..k) |->
                        IF s = {} THEN m
                        ELSE Apply(g[s \ {Max(s)}], actions[Max(s)], v)]
    BY DEF h
  <2> QED BY <2>2, <2>3
<1> QED BY <1>7

\* apply_log_action, one action after the other
LEMMA ApplyAllSteps ==
  ASSUME NEW m, NEW actions \in Seq(LogActions), NEW v
  PROVE  \E g : /\ g[0] = m
                /\ \A i \in 1..Len(actions) : g[i] = Apply(g[i - 1], actions[i], v)
                /\ ApplyAll(m, actions, v) = g[Len(actions)]
<1> DEFINE n == Len(actions)
           iter == CHOOSE iter : iter = FoldStep(iter, n, m, actions, v)
           g == [i \in 0..n |-> iter[1..i]]
<1>1. n \in Nat /\ DOMAIN actions = 1..n
  OBVIOUS
<1>3. ApplyAll(m, actions, v) = iter[1..n]
  BY <1>1, ApplyAllIter DEF FoldStep
<1> HIDE DEF n
<1>2. iter = FoldStep(iter, n, m, actions, v)
  BY <1>1, FoldExists
<1> HIDE DEF iter
<1>4. g[0] = m
  <2>1. 1..0 = {} /\ 1..0 \in SUBSET (1..n)
    BY <1>1
  <2> QED BY <1>1, <1>2, <2>1 DEF FoldStep
<1>5. ASSUME NEW i \in 1..n PROVE g[i] = Apply(g[i - 1], actions[i], v)
  <2>i. i \in Int /\ i >= 1 /\ i <= n
    BY <1>1
  <2>1. Max(1..i) = i
    <3>0. i \in Nat /\ 1..i \in SUBSET (-1..i) /\ i \in 1..i
      BY <2>i
    <3>1. Max(1..i) \in 1..i /\ \A y \in 1..i : y <= Max(1..i)
      BY <3>0, MaxOf
    <3>2. Max(1..i) \in Int /\ Max(1..i) <= i /\ i <= Max(1..i)
      BY <3>0, <3>1
    <3> QED BY <2>i, <3>2
  <2>2. (1..i) \ {i} = 1..(i - 1) /\ i \in 1..i /\ 1..i \in SUBSET (1..n)
    BY <1>1, <2>i
  <2>3. iter[1..i] = Apply(iter[1..(i - 1)], actions[i], v)
    BY <1>2, <2>1, <2>2 DEF FoldStep
  <2>4. i \in 0..n /\ i - 1 \in 0..n
    BY <1>1, <2>i
  <2> QED BY <2>3, <2>4
<1>6. n \in 0..n
  BY <1>1
<1>7. g[n] = ApplyAll(m, actions, v)
  BY <1>3, <1>6
<1> HIDE DEF g
<1> QED BY <1>4, <1>5, <1>7 DEF n

-----------------------------------------------------------------------------
\* The actions on files
FileActions == {"add", "addDV", "remove"}

\* What one action does to the entry of a file
LEMMA ApplyToFile ==
  ASSUME NEW m \in Managers, NEW a \in LogActions, NEW v \in Int, NEW p \in Paths
  PROVE  LET cur == m.files[p]
             new == Apply(m, a, v).files[p]
             op == IF a.what = "remove" THEN "DELETE" ELSE "ADD"
         IN /\ ~(a.what \in FileActions /\ a.on = p) => new = cur
            /\ ~Replaces(cur, Entry(op, v, 0, 0)) => new = cur
            /\ (a.what \in FileActions /\ a.on = p /\ Replaces(cur, Entry(op, v, 0, 0)))
                 => /\ new.version = v /\ new.op = op
                    /\ new.op = "DELETE" => new.time = v
<1> DEFINE n == Apply(m, a, v)
<1>0. /\ m.files \in [Paths -> Entries] /\ m.files[p] \in Entries
      /\ m = [files |-> m.files, values |-> m.values, unsupported |-> m.unsupported]
  BY DEF Managers
<1>1. CASE a.what \in {"add", "addDV"}
  <2>1. n.files = RegisterAction(m.files, a.on, Entry("ADD", v, a.val, 0))
    BY <1>0, <1>1 DEF Apply, LogActions
  <2>2. a.on \in Paths /\ a.val \in Int
    BY <1>1 DEF LogActions
  <2> HIDE DEF n
  <2> QED BY <1>0, <1>1, <2>1, <2>2 DEF RegisterAction, Replaces, Entry, Entries, FileActions, n
<1>2. CASE a.what = "remove"
  <2>1. n.files = RegisterAction(m.files, a.on, Entry("DELETE", v, a.val, v))
    BY <1>0, <1>2 DEF Apply, LogActions
  <2>2. a.on \in Paths /\ a.val \in Int
    BY <1>2 DEF LogActions
  <2> HIDE DEF n
  <2> QED BY <1>0, <1>2, <2>1, <2>2 DEF RegisterAction, Replaces, Entry, Entries, FileActions, n
<1>3. CASE a.what = "set"
  <2>1. n.files = m.files
    BY <1>0, <1>3 DEF Apply
  <2> QED BY <1>3, <2>1 DEF FileActions
<1> QED BY <1>1, <1>2, <1>3 DEF LogActions

\* What it does to the value of a property
LEMMA ApplyToValue ==
  ASSUME NEW m \in Managers, NEW a \in LogActions, NEW v \in Int, NEW k \in Properties
  PROVE  LET cur == m.values[k]
             new == Apply(m, a, v).values[k]
         IN /\ ~(a.what = "set" /\ a.on = k) => new = cur
            /\ ~(v >= cur.version) => new = cur
            /\ (a.what = "set" /\ a.on = k /\ v >= cur.version) => new = Value(v, a.val)
<1> DEFINE n == Apply(m, a, v)
<1>0. /\ m.values \in [Properties -> Values]
      /\ m = [files |-> m.files, values |-> m.values, unsupported |-> m.unsupported]
  BY DEF Managers
<1>1. CASE a.what \in FileActions
  <2>1. n.values = m.values
    BY <1>0, <1>1 DEF Apply, FileActions
  <2> QED BY <1>1, <2>1 DEF FileActions
<1>2. CASE a.what = "set"
  <2>1. n.values = SetValue(m.values, a.on, v, a.val)
    BY <1>0, <1>2 DEF Apply
  <2>2. a.on \in Properties
    BY <1>2 DEF LogActions
  <2> HIDE DEF n
  <2> QED BY <1>0, <1>2, <2>1, <2>2 DEF SetValue, Value, Values, n
<1> QED BY <1>1, <1>2 DEF LogActions, FileActions

\* The types are kept, and deletion vectors are noticed.
LEMMA ApplyTypes ==
  ASSUME NEW m \in Managers, NEW a \in LogActions, NEW v \in Int
  PROVE  /\ Apply(m, a, v) \in Managers
         /\ Apply(m, a, v).unsupported = (m.unsupported \/ a.what = "addDV")
<1>0. /\ m.files \in [Paths -> Entries] /\ m.values \in [Properties -> Values]
      /\ m.unsupported \in BOOLEAN
      /\ m = [files |-> m.files, values |-> m.values, unsupported |-> m.unsupported]
  BY DEF Managers
<1> DEFINE n == Apply(m, a, v)
<1>1. CASE a.what \in {"add", "addDV"}
  <2>2. a.on \in Paths /\ a.val \in Int
    BY <1>1 DEF LogActions
  <2>1. n = [files |-> RegisterAction(m.files, a.on, Entry("ADD", v, a.val, 0)),
             values |-> m.values, unsupported |-> m.unsupported \/ a.what = "addDV"]
    BY <1>0, <1>1 DEF Apply
  <2>3. RegisterAction(m.files, a.on, Entry("ADD", v, a.val, 0)) \in [Paths -> Entries]
    BY <1>0, <2>2 DEF RegisterAction, Entry, Entries
  <2> HIDE DEF n
  <2>4. n.unsupported = (m.unsupported \/ a.what = "addDV")
    BY <2>1
  <2>5. n \in Managers
    BY <1>0, <2>1, <2>3, <2>4 DEF Managers
  <2> QED BY <2>4, <2>5 DEF n
<1>2. CASE a.what = "remove"
  <2>2. a.on \in Paths /\ a.val \in Int
    BY <1>2 DEF LogActions
  <2>1. n = [files |-> RegisterAction(m.files, a.on, Entry("DELETE", v, a.val, v)),
             values |-> m.values, unsupported |-> m.unsupported]
    BY <1>0, <1>2 DEF Apply
  <2>3. RegisterAction(m.files, a.on, Entry("DELETE", v, a.val, v)) \in [Paths -> Entries]
    BY <1>0, <2>2 DEF RegisterAction, Entry, Entries
  <2> HIDE DEF n
  <2>5. n \in Managers /\ n.unsupported = m.unsupported
    BY <1>0, <2>1, <2>3 DEF Managers
  <2>6. (m.unsupported \/ a.what = "addDV") = m.unsupported
    BY <1>0, <1>2
  <2> QED BY <2>5, <2>6 DEF n
<1>3. CASE a.what = "set"
  <2>2. a.on \in Properties /\ a.val \in Int
    BY <1>3 DEF LogActions
  <2>1. n = [files |-> m.files, values |-> SetValue(m.values, a.on, v, a.val),
             unsupported |-> m.unsupported]
    BY <1>0, <1>3 DEF Apply
  <2>3. SetValue(m.values, a.on, v, a.val) \in [Properties -> Values]
    BY <1>0, <2>2 DEF SetValue, Value, Values
  <2> HIDE DEF n
  <2>5. n \in Managers /\ n.unsupported = m.unsupported
    BY <1>0, <2>1, <2>3 DEF Managers
  <2>6. (m.unsupported \/ a.what = "addDV") = m.unsupported
    BY <1>0, <1>3
  <2> QED BY <2>5, <2>6 DEF n
<1> QED BY <1>1, <1>2, <1>3 DEF LogActions

-----------------------------------------------------------------------------
\* One of the first n actions does it.
HasBy(actions, n, what, on) ==
  \E i \in 1..n : actions[i].what = what /\ actions[i].on = on
TouchesBy(actions, n, p) == \E w \in FileActions : HasBy(actions, n, w, p)

\* The entry of file p after the first n actions of version v
FileAfter(cur, new, actions, n, v, p) ==
  /\ ~TouchesBy(actions, n, p) => new = cur
  /\ cur.op # "NONE" /\ cur.version > v => new = cur
  /\ TouchesBy(actions, n, p) /\ (cur.op = "NONE" \/ cur.version < v)
       => /\ new.version = v
          /\ new.op = IF HasBy(actions, n, "remove", p) THEN "DELETE" ELSE "ADD"
          /\ new.op = "DELETE" => new.time = v

\* The value of property k after them
ValueAfter(cur, new, actions, n, v, k) ==
  /\ ~HasBy(actions, n, "set", k) => new = cur
  /\ cur.version > v => new = cur
  /\ HasBy(actions, n, "set", k) /\ cur.version <= v
       => \E i \in 1..n : /\ actions[i].what = "set" /\ actions[i].on = k
                          /\ new = Value(v, actions[i].val)

\* The manager after them
After(m, new, actions, n, v) ==
  /\ new \in Managers
  /\ \A p \in Paths : FileAfter(m.files[p], new.files[p], actions, n, v, p)
  /\ \A k \in Properties : ValueAfter(m.values[k], new.values[k], actions, n, v, k)
  /\ ~new.unsupported => ~m.unsupported /\ \A i \in 1..n : actions[i].what # "addDV"

\* No action changes nothing, and one more does what it does.
LEMMA AfterNone ==
  ASSUME NEW m \in Managers, NEW actions, NEW v
  PROVE  After(m, m, actions, 0, v)
<1>1. \A i \in 1..0 : FALSE
  OBVIOUS
<1>2. \A what, on : ~HasBy(actions, 0, what, on)
  BY <1>1 DEF HasBy
<1> QED BY <1>1, <1>2 DEF After, FileAfter, ValueAfter, TouchesBy

LEMMA AfterOneMore ==
  ASSUME NEW m \in Managers, NEW r, NEW n \in Nat \ {0}, NEW actions,
         actions[n] \in LogActions, NEW v \in Int, After(m, r, actions, n - 1, v)
  PROVE  After(m, Apply(r, actions[n], v), actions, n, v)
<1> DEFINE new == Apply(r, actions[n], v)
           a == actions[n]
<1>0. r \in Managers
  BY DEF After
<1>1. new \in Managers /\ new.unsupported = (r.unsupported \/ a.what = "addDV")
  BY <1>0, ApplyTypes
<1>2. \A i \in 1..n : i = n \/ i \in 1..(n - 1)
  OBVIOUS
<1>3. n \in 1..n /\ 1..(n - 1) \subseteq 1..n
  OBVIOUS
<1>4. \A what, on : HasBy(actions, n, what, on)
                      <=> HasBy(actions, n - 1, what, on) \/ (a.what = what /\ a.on = on)
  BY <1>2, <1>3 DEF HasBy
<1>5. ASSUME NEW p \in Paths PROVE FileAfter(m.files[p], new.files[p], actions, n, v, p)
  <2> DEFINE cur == r.files[p]
             op == IF a.what = "remove" THEN "DELETE" ELSE "ADD"
  <2>1. /\ ~(a.what \in FileActions /\ a.on = p) => new.files[p] = cur
        /\ ~Replaces(cur, Entry(op, v, 0, 0)) => new.files[p] = cur
        /\ (a.what \in FileActions /\ a.on = p /\ Replaces(cur, Entry(op, v, 0, 0)))
                 => /\ new.files[p].version = v /\ new.files[p].op = op
                    /\ new.files[p].op = "DELETE" => new.files[p].time = v
    BY <1>0, ApplyToFile
  <2>2. FileAfter(m.files[p], cur, actions, n - 1, v, p)
    BY DEF After
  <2>3. Replaces(cur, Entry(op, v, 0, 0)) <=>
          \/ cur.op = "NONE" \/ v > cur.version
          \/ v = cur.version /\ op = "DELETE" /\ cur.op # "DELETE"
    BY DEF Replaces, Entry
  <2>4. /\ m.files[p].version \in Int /\ m.files[p].op \in {"NONE", "ADD", "DELETE"}
        /\ cur.version \in Int /\ cur.op \in {"NONE", "ADD", "DELETE"}
    BY <1>0 DEF Managers, Entries
  <2>5. TouchesBy(actions, n, p)
          <=> TouchesBy(actions, n - 1, p) \/ (a.what \in FileActions /\ a.on = p)
    BY <1>4 DEF TouchesBy
  <2>6. HasBy(actions, n - 1, "remove", p) => TouchesBy(actions, n - 1, p)
    BY DEF TouchesBy, FileActions
  <2>7. HasBy(actions, n, "remove", p)
          <=> HasBy(actions, n - 1, "remove", p) \/ (a.what = "remove" /\ a.on = p)
    BY <1>4
  <2> HIDE DEF new, a, cur
  <2>8. CASE ~(a.what \in FileActions /\ a.on = p)
    BY <2>1, <2>2, <2>5, <2>7, <2>8 DEF FileAfter, FileActions
  <2>9. CASE a.what \in FileActions /\ a.on = p
    <3>1. m.files[p].op # "NONE" /\ m.files[p].version > v => new.files[p] = m.files[p]
      BY <2>1, <2>2, <2>3, <2>4 DEF FileAfter
    <3>2. ASSUME m.files[p].op = "NONE" \/ m.files[p].version < v
          PROVE  /\ new.files[p].version = v
                 /\ new.files[p].op = IF HasBy(actions, n, "remove", p) THEN "DELETE" ELSE "ADD"
                 /\ new.files[p].op = "DELETE" => new.files[p].time = v
      <4>1. CASE TouchesBy(actions, n - 1, p)
        BY <2>1, <2>2, <2>3, <2>4, <2>7, <2>9, <3>2, <4>1 DEF FileAfter
      <4>2. CASE ~TouchesBy(actions, n - 1, p)
        BY <2>1, <2>2, <2>3, <2>4, <2>6, <2>7, <2>9, <3>2, <4>2 DEF FileAfter
      <4> QED BY <4>1, <4>2
    <3> QED BY <2>5, <2>9, <3>1, <3>2 DEF FileAfter
  <2> QED BY <2>8, <2>9
<1>6. ASSUME NEW k \in Properties PROVE ValueAfter(m.values[k], new.values[k], actions, n, v, k)
  <2>1. /\ ~(a.what = "set" /\ a.on = k) => new.values[k] = r.values[k]
        /\ ~(v >= r.values[k].version) => new.values[k] = r.values[k]
        /\ (a.what = "set" /\ a.on = k /\ v >= r.values[k].version)
             => new.values[k] = Value(v, a.val)
    BY <1>0, ApplyToValue
  <2>2. ValueAfter(m.values[k], r.values[k], actions, n - 1, v, k)
    BY DEF After
  <2>3. m.values[k].version \in Int /\ r.values[k].version \in Int
    BY <1>0 DEF Managers, Values
  <2>4. HasBy(actions, n, "set", k) <=> HasBy(actions, n - 1, "set", k) \/ (a.what = "set" /\ a.on = k)
    BY <1>4
  <2>5. \A x : Value(v, x).version = v
    BY DEF Value
  <2> HIDE DEF new
  <2>6. CASE a.what = "set" /\ a.on = k /\ v >= r.values[k].version
    <3>1. new.values[k] = Value(v, actions[n].val)
      BY <2>1, <2>6
    <3>2. ~(m.values[k].version > v)
      BY <2>2, <2>3, <2>6 DEF ValueAfter
    <3> QED BY <1>3, <2>4, <2>6, <3>1, <3>2 DEF ValueAfter
  <2>7. CASE ~(a.what = "set" /\ a.on = k)
    <3>1. new.values[k] = r.values[k]
      BY <2>1, <2>7
    <3>2. HasBy(actions, n, "set", k) <=> HasBy(actions, n - 1, "set", k)
      BY <2>4, <2>7
    <3> HIDE DEF a
    <3> QED BY <1>3, <2>2, <3>1, <3>2 DEF ValueAfter
  <2>8. CASE ~(v >= r.values[k].version)
    <3>1. new.values[k] = r.values[k]
      BY <2>1, <2>8
    <3>2. m.values[k].version > v
      <4> HIDE DEF a
      <4> QED BY <2>2, <2>3, <2>5, <2>8 DEF ValueAfter
    <3>3. r.values[k] = m.values[k]
      BY <2>2, <3>2 DEF ValueAfter
    <3> QED BY <2>3, <3>1, <3>2, <3>3 DEF ValueAfter
  <2> QED BY <2>6, <2>7, <2>8
<1>7. ~new.unsupported => ~m.unsupported /\ \A i \in 1..n : actions[i].what # "addDV"
  BY <1>1, <1>2 DEF After
<1> QED BY <1>1, <1>5, <1>6, <1>7 DEF After

\* What the actions of a version do, in whatever order the commit has them
LEMMA ApplyAllDoes ==
  ASSUME NEW m \in Managers, NEW actions \in Seq(LogActions), NEW v \in Int
  PROVE  After(m, ApplyAll(m, actions, v), actions, Len(actions), v)
<1>1. PICK g : /\ g[0] = m
               /\ \A i \in 1..Len(actions) : g[i] = Apply(g[i - 1], actions[i], v)
               /\ ApplyAll(m, actions, v) = g[Len(actions)]
  BY ApplyAllSteps
<1> DEFINE Bad == {n \in 0..Len(actions) : ~After(m, g[n], actions, n, v)}
<1>2. Len(actions) \in Nat /\ \A i \in 1..Len(actions) : actions[i] \in LogActions
  OBVIOUS
<1>3. SUFFICES ASSUME Bad # {} PROVE FALSE
  <2>1. Len(actions) \in 0..Len(actions)
    BY <1>2
  <2> QED BY <1>1, <2>1
<1>4. PICK n \in Bad : \A k \in Bad : n <= k
  <2>1. Bad \in SUBSET Nat
    OBVIOUS
  <2> HIDE DEF Bad
  <2> QED BY <1>3, <2>1, LeastNat
<1>5. n # 0
  BY <1>1, AfterNone
<1>6. n \in Nat \ {0} /\ n \in 1..Len(actions) /\ n - 1 \in 0..Len(actions) /\ ~(n <= n - 1)
  BY <1>2, <1>5
<1>7. After(m, g[n - 1], actions, n - 1, v)
  BY <1>4, <1>6
<1>8. After(m, g[n], actions, n, v)
  BY <1>1, <1>2, <1>6, <1>7, AfterOneMore
<1> QED BY <1>4, <1>8

-----------------------------------------------------------------------------
(* What a checkpoint does to a manager *)

\* The elements of SetToSeq are those of the set.
LEMMA SetToSeqElements ==
  ASSUME NEW S, IsFiniteSet(S)
  PROVE  SetToSeq(S) \in Seq(S) /\ ToSet(SetToSeq(S)) = S
<1> DEFINE n == Cardinality(S)
           f == SetToSeq(S)
<1>1. n \in Nat /\ \E g : g \in [1..n -> S] /\ IsInjective(g)
  BY FS_CardinalityType DEF ExistsBijection, Bijection, Injection
<1>2. f \in [1..n -> S] /\ IsInjective(f)
  BY <1>1 DEF SetToSeq
<1> HIDE DEF f
<1>3. IsFiniteSet(1..n) /\ Cardinality(1..n) = n
  <2>1. Cardinality(1..n) = IF 1 > n THEN 0 ELSE n - 1 + 1
    BY <1>1, FS_Interval
  <2> QED BY <1>1, <2>1, FS_Interval
<1>4. f \in Surjection(1..n, S)
  <2>1. f \in Injection(1..n, S)
    BY <1>2 DEF Injection
  <2>2. Cardinality(1..n) = Cardinality(S) <=> f \in Surjection(1..n, S)
    BY <2>1, FS_Injection
  <2> QED BY <1>3, <2>2
<1>5. f \in Seq(S) /\ DOMAIN f = 1..n
  BY <1>1, <1>2
<1> QED BY <1>4, <1>5 DEF Surjection, ToSet, f

\* A concatenation has the elements of both sequences.
LEMMA ConcatElements ==
  ASSUME NEW S, NEW s \in Seq(S), NEW t \in Seq(S)
  PROVE  s \o t \in Seq(S) /\ ToSet(s \o t) = ToSet(s) \cup ToSet(t)
<1>1. /\ s \o t \in Seq(S) /\ Len(s \o t) = Len(s) + Len(t)
      /\ \A i \in 1..Len(s) : (s \o t)[i] = s[i]
      /\ \A i \in 1..Len(t) : (s \o t)[Len(s) + i] = t[i]
      /\ Len(s) \in Nat /\ Len(t) \in Nat
  OBVIOUS
<1>2. \A i \in 1..Len(s \o t) : i \in 1..Len(s) \/ (i - Len(s) \in 1..Len(t) /\ i = Len(s) + (i - Len(s)))
  BY <1>1
<1>3. \A i \in 1..Len(s) : i \in 1..Len(s \o t)
  BY <1>1
<1>4. \A i \in 1..Len(t) : Len(s) + i \in 1..Len(s \o t)
  BY <1>1
<1>5. DOMAIN s = 1..Len(s) /\ DOMAIN t = 1..Len(t) /\ DOMAIN (s \o t) = 1..Len(s \o t)
  OBVIOUS
<1>6. ToSet(s \o t) \subseteq ToSet(s) \cup ToSet(t)
  BY <1>1, <1>2, <1>5 DEF ToSet
<1>7. ToSet(s) \subseteq ToSet(s \o t)
  BY <1>1, <1>3, <1>5 DEF ToSet
<1>8. ToSet(t) \subseteq ToSet(s \o t)
  BY <1>1, <1>4, <1>5 DEF ToSet
<1> QED BY <1>1, <1>6, <1>7, <1>8

\* The actions as a checkpoint file has them
AddsOf(S) == {[what |-> "add", on |-> p, val |-> 1] : p \in S}
RemovesOf(S) == {[what |-> "remove", on |-> p, val |-> 1] : p \in S}
SetsOf(values) == {[what |-> "set", on |-> k, val |-> values[k]] :
                     k \in {k \in Properties : values[k] # Removed}}
ActionsOf(file) == SetToSeq(AddsOf(file.adds)) \o SetToSeq(RemovesOf(file.removes))
                     \o SetToSeq(SetsOf(file.values))
FileOf(v) == IF single[v].written THEN single[v] ELSE Foreign(v)

\* They are log actions.
LEMMA ActionsOfFile ==
  ASSUME NEW file \in CheckpointFiles, IsFiniteSet(Paths)
  PROVE  /\ ActionsOf(file) \in Seq(LogActions)
         /\ ToSet(ActionsOf(file)) =
              AddsOf(file.adds) \cup RemovesOf(file.removes) \cup SetsOf(file.values)
<1> DEFINE K == {k \in Properties : file.values[k] # Removed}
<1>0. /\ file.adds \subseteq Paths /\ file.removes \subseteq Paths
      /\ file.values \in [Properties -> Int]
  BY DEF CheckpointFiles
<1>1. IsFiniteSet(file.adds) /\ IsFiniteSet(file.removes)
  BY <1>0, FS_Subset
<1>2. IsFiniteSet(K)
  <2>1. IsFiniteSet({"protocol"})
    BY FS_Singleton
  <2>2. IsFiniteSet({"protocol"} \cup {"metaData"})
    BY <2>1, FS_AddElement
  <2>3. IsFiniteSet(({"protocol"} \cup {"metaData"}) \cup {"txn"})
    BY <2>2, FS_AddElement
  <2>4. IsFiniteSet((({"protocol"} \cup {"metaData"}) \cup {"txn"}) \cup {"domain"})
    BY <2>3, FS_AddElement
  <2>5. K \subseteq (({"protocol"} \cup {"metaData"}) \cup {"txn"}) \cup {"domain"}
    BY DEF Properties
  <2> HIDE DEF K
  <2> QED BY <2>4, <2>5, FS_Subset
<1>3. IsFiniteSet(AddsOf(file.adds))
  <2> DEFINE f == [p \in file.adds |-> [what |-> "add", on |-> p, val |-> 1]]
  <2>1. f \in Surjection(file.adds, AddsOf(file.adds))
    BY DEF Surjection, AddsOf
  <2> HIDE DEF f
  <2> QED BY <1>1, <2>1, FS_Surjection
<1>4. IsFiniteSet(RemovesOf(file.removes))
  <2> DEFINE f == [p \in file.removes |-> [what |-> "remove", on |-> p, val |-> 1]]
  <2>1. f \in Surjection(file.removes, RemovesOf(file.removes))
    BY DEF Surjection, RemovesOf
  <2> HIDE DEF f
  <2> QED BY <1>1, <2>1, FS_Surjection
<1>5. IsFiniteSet(SetsOf(file.values))
  <2> DEFINE f == [k \in K |-> [what |-> "set", on |-> k, val |-> file.values[k]]]
  <2>1. f \in Surjection(K, SetsOf(file.values))
    BY DEF Surjection, SetsOf
  <2> HIDE DEF f, K
  <2> QED BY <1>2, <2>1, FS_Surjection
<1>6. /\ AddsOf(file.adds) \subseteq LogActions /\ RemovesOf(file.removes) \subseteq LogActions
      /\ SetsOf(file.values) \subseteq LogActions
  BY <1>0 DEF AddsOf, RemovesOf, SetsOf, LogActions
<1> DEFINE a == SetToSeq(AddsOf(file.adds))
           b == SetToSeq(RemovesOf(file.removes))
           d == SetToSeq(SetsOf(file.values))
<1>7. /\ a \in Seq(AddsOf(file.adds)) /\ ToSet(a) = AddsOf(file.adds)
      /\ b \in Seq(RemovesOf(file.removes)) /\ ToSet(b) = RemovesOf(file.removes)
      /\ d \in Seq(SetsOf(file.values)) /\ ToSet(d) = SetsOf(file.values)
  BY <1>3, <1>4, <1>5, SetToSeqElements
<1> HIDE DEF a, b, d
<1>8. a \in Seq(LogActions) /\ b \in Seq(LogActions) /\ d \in Seq(LogActions)
  BY <1>6, <1>7
<1>9. a \o b \in Seq(LogActions) /\ ToSet(a \o b) = ToSet(a) \cup ToSet(b)
  BY <1>8, ConcatElements
<1>10. (a \o b) \o d \in Seq(LogActions) /\ ToSet((a \o b) \o d) = ToSet(a \o b) \cup ToSet(d)
  <2> DEFINE e == a \o b
  <2>1. e \in Seq(LogActions)
    BY <1>9
  <2> HIDE DEF e
  <2>2. e \o d \in Seq(LogActions) /\ ToSet(e \o d) = ToSet(e) \cup ToSet(d)
    BY <1>8, <2>1, ConcatElements
  <2> QED BY <2>2 DEF e
<1>11. ActionsOf(file) = (a \o b) \o d
  BY DEF ActionsOf, a, b, d
<1> QED BY <1>7, <1>9, <1>10, <1>11

\* What a checkpoint does to a manager: the same as its actions would in the
\* commit of its version
LEMMA ApplyCheckpointDoes ==
  ASSUME NEW m \in Managers, NEW v \in Nat, IsFiniteSet(Paths), FileOf(v) \in CheckpointFiles,
         FileOf(v).adds \cap FileOf(v).removes = {}
  PROVE  LET file == FileOf(v)
             r == ApplyCheckpoint(m, v)
         IN /\ r \in Managers
            /\ ~r.unsupported => ~m.unsupported
            /\ \A p \in Paths :
                 LET cur == m.files[p]
                     new == r.files[p]
                 IN /\ p \notin file.adds \cup file.removes => new = cur
                    /\ cur.op # "NONE" /\ cur.version > v => new = cur
                    /\ p \in file.adds /\ cur.op = "NONE" => new.op = "ADD" /\ new.version = v
                    /\ p \in file.removes /\ cur.op = "NONE"
                         => new.op = "DELETE" /\ new.version = v /\ new.time = v
            /\ \A k \in Properties :
                 LET cur == m.values[k]
                     new == r.values[k]
                 IN /\ file.values[k] = Removed => new = cur
                    /\ cur.version > v => new = cur
                    /\ file.values[k] # Removed /\ cur.version <= v => new = Value(v, file.values[k])
<1> DEFINE file == FileOf(v)
           acts == ActionsOf(file)
           applied == ApplyAll(m, acts, v)
           r == ApplyCheckpoint(m, v)
           n == Len(acts)
<1>1. r = [applied EXCEPT !.unsupported = @ \/ (~single[v].written /\ HasVectors(v))]
  BY DEF ApplyCheckpoint, FileOf, ActionsOf, AddsOf, RemovesOf, SetsOf
<1>2. acts \in Seq(LogActions) /\ ToSet(acts) =
              AddsOf(file.adds) \cup RemovesOf(file.removes) \cup SetsOf(file.values)
  BY ActionsOfFile
<1>3. After(m, applied, acts, n, v)
  BY <1>2, ApplyAllDoes
<1> HIDE DEF r, acts, applied
<1>4. applied \in Managers
  BY <1>3 DEF After
<1>5. /\ r \in Managers /\ r.files = applied.files /\ r.values = applied.values
      /\ ~r.unsupported => ~applied.unsupported
  BY <1>1, <1>4 DEF Managers
<1>6. DOMAIN acts = 1..n
  BY <1>2
<1>7. \A what, on : HasBy(acts, n, what, on) <=> \E a \in ToSet(acts) : a.what = what /\ a.on = on
  BY <1>6 DEF HasBy, ToSet
<1> HIDE DEF n, file
<1>a. \A a \in ToSet(acts) :
        \/ a.what = "add" /\ a.on \in file.adds
        \/ a.what = "remove" /\ a.on \in file.removes
        \/ a.what = "set" /\ a.on \in Properties /\ file.values[a.on] # Removed
  BY <1>2 DEF AddsOf, RemovesOf, SetsOf
<1>b. \A p \in file.adds : \E a \in ToSet(acts) : a.what = "add" /\ a.on = p
  <2> SUFFICES ASSUME NEW p \in file.adds PROVE \E a \in ToSet(acts) : a.what = "add" /\ a.on = p
    OBVIOUS
  <2>1. [what |-> "add", on |-> p, val |-> 1] \in ToSet(acts)
    BY <1>2 DEF AddsOf
  <2> QED BY <2>1
<1>c. \A p \in file.removes : \E a \in ToSet(acts) : a.what = "remove" /\ a.on = p
  <2> SUFFICES ASSUME NEW p \in file.removes PROVE \E a \in ToSet(acts) : a.what = "remove" /\ a.on = p
    OBVIOUS
  <2>1. [what |-> "remove", on |-> p, val |-> 1] \in ToSet(acts)
    BY <1>2 DEF RemovesOf
  <2> QED BY <2>1
<1>d. \A k \in Properties : file.values[k] # Removed =>
        \E a \in ToSet(acts) : a.what = "set" /\ a.on = k
  <2> SUFFICES ASSUME NEW k \in Properties, file.values[k] # Removed
               PROVE  \E a \in ToSet(acts) : a.what = "set" /\ a.on = k
    OBVIOUS
  <2>1. [what |-> "set", on |-> k, val |-> file.values[k]] \in ToSet(acts)
    BY <1>2 DEF SetsOf
  <2> QED BY <2>1
<1>8. \A p : /\ HasBy(acts, n, "add", p) <=> p \in file.adds
             /\ HasBy(acts, n, "remove", p) <=> p \in file.removes
             /\ ~HasBy(acts, n, "addDV", p)
  BY <1>7, <1>a, <1>b, <1>c
<1>9. \A k \in Properties : HasBy(acts, n, "set", k) <=> file.values[k] # Removed
  BY <1>7, <1>a, <1>d
<1>10. \A i \in 1..n : acts[i].what = "set" => acts[i].val = file.values[acts[i].on]
  BY <1>2, <1>6 DEF AddsOf, RemovesOf, SetsOf, ToSet
<1>11. ASSUME NEW p \in Paths
       PROVE  LET cur == m.files[p]
                  new == r.files[p]
              IN /\ p \notin file.adds \cup file.removes => new = cur
                 /\ cur.op # "NONE" /\ cur.version > v => new = cur
                 /\ p \in file.adds /\ cur.op = "NONE" => new.op = "ADD" /\ new.version = v
                 /\ p \in file.removes /\ cur.op = "NONE"
                      => new.op = "DELETE" /\ new.version = v /\ new.time = v
  <2>1. FileAfter(m.files[p], r.files[p], acts, n, v, p)
    BY <1>3, <1>5 DEF After
  <2>2. TouchesBy(acts, n, p) <=> p \in file.adds \cup file.removes
    BY <1>8 DEF TouchesBy, FileActions
  <2>3. p \in file.adds => ~HasBy(acts, n, "remove", p)
    BY <1>8 DEF file
  <2> QED BY <1>8, <2>1, <2>2, <2>3 DEF FileAfter
<1>12. ASSUME NEW k \in Properties
       PROVE  LET cur == m.values[k]
                  new == r.values[k]
              IN /\ file.values[k] = Removed => new = cur
                 /\ cur.version > v => new = cur
                 /\ file.values[k] # Removed /\ cur.version <= v => new = Value(v, file.values[k])
  <2>1. ValueAfter(m.values[k], r.values[k], acts, n, v, k)
    BY <1>3, <1>5 DEF After
  <2> QED BY <1>9, <1>10, <2>1 DEF ValueAfter
<1> QED BY <1>3, <1>5, <1>11, <1>12 DEF r, file, After

-----------------------------------------------------------------------------
(* What a client knows that loads a snapshot *)

\* One value of each property
OneValueEach(actions) ==
  \A i, j \in DOMAIN actions :
    (actions[i].what = "set" /\ actions[j].what = "set" /\ actions[i].on = actions[j].on) => i = j

\* No marker is left up to v.
AllFinal(v) == \A u \in 0..v : slot[u] = "final"

\* What a checkpoint file of version v tells
Describes(file, v) ==
  /\ AllFinal(v)
  /\ file.adds = {p \in Paths : LiveFile(commits, v, p)}
  /\ file.values = [k \in Properties |-> PropertyAt(commits, v, k)]
  /\ \A p \in file.removes : RemovedFile(commits, v, p)
  /\ \A p \in Paths : RemovedFile(commits, v, p) /\ LastTouch(commits, v, p) >= file.from
                        => p \in file.removes

\* The store: only versions that are final have checkpoints, and those describe them.
StoreInv ==
  /\ commits \in [CkVersions -> Seq(LogActions)]
  /\ \A v \in CkVersions : OneValueEach(commits[v])
  /\ slot \in [CkVersions -> {"free", "marker", "final"}]
  /\ single \in [CkVersions -> CheckpointFiles]
  /\ last \in -1..CkMax /\ horizon \in Nat
  /\ \A v \in CkVersions : multi[v] # {} => AllFinal(v)
  /\ \A v \in CkVersions : single[v].written => Describes(single[v], v) /\ single[v].from <= horizon

\* The versions a client has applied, and whether it has applied its checkpoint
Applied(r) == ((r.base + 1)..r.version) \ (r.todo \cup r.waits)
Based(r) == r.base # None /\ -1 \notin r.todo

\* u is the last version in D that touches file p, or sets property k
LastToTouch(D, u, p) ==
  /\ u \in D /\ Touches(commits[u], p)
  /\ \A w \in D : Touches(commits[w], p) => w <= u
LastToSet(D, u, k) ==
  /\ u \in D /\ Has(commits[u], "set", k)
  /\ \A w \in D : Has(commits[w], "set", k) => w <= u

\* What the checkpoint has told a client of file p
FromBase(e, base, p) ==
  /\ LiveFile(commits, base, p) => e.op = "ADD" /\ e.version = base
  /\ e.op = "ADD" => LiveFile(commits, base, p)
  /\ e.op = "DELETE" => RemovedFile(commits, base, p) /\ e.version = base /\ e.time = base
  /\ RemovedFile(commits, base, p) /\ LastTouch(commits, base, p) >= horizon => e.op = "DELETE"

\* What a client knows of a file: the last version that it has applied decides,
\* else the checkpoint.
FileKnown(r, p) ==
  LET D == Applied(r)
      e == r.m.files[p]
  IN /\ \A u \in D : LastToTouch(D, u, p) =>
          /\ e.version = u
          /\ e.op = IF Has(commits[u], "remove", p) THEN "DELETE" ELSE "ADD"
          /\ e.op = "DELETE" => e.time = u
     /\ (\A u \in D : ~Touches(commits[u], p)) =>
          IF Based(r) THEN FromBase(e, r.base, p) ELSE e.op = "NONE"

\* What it knows of a property
ValueKnown(r, k) ==
  LET D == Applied(r)
      e == r.m.values[k]
      old == PropertyAt(commits, r.base, k)
  IN /\ \A u \in D : LastToSet(D, u, k) =>
          \E i \in DOMAIN commits[u] :
            /\ commits[u][i].what = "set" /\ commits[u][i].on = k
            /\ e = Value(u, commits[u][i].val)
     /\ (\A u \in D : ~Has(commits[u], "set", k)) =>
          e = IF Based(r) /\ old # Removed THEN Value(r.base, old) ELSE Value(-1, Removed)

\* A load under way, or at its end: it has applied final versions only, and
\* knows what they and its checkpoint tell.
Known(r) ==
  /\ r.m \in Managers
  /\ r.version \in CkVersions /\ r.base \in -1..r.version
  /\ r.todo \subseteq {-1} \cup (r.base + 1)..r.version
  /\ r.waits \subseteq (r.base + 1)..r.version /\ r.todo \cap r.waits = {}
  /\ r.base = None => -1 \notin r.todo
  /\ \A u \in Applied(r) : slot[u] = "final"
  /\ Based(r) => AllFinal(r.base)
  /\ ~r.m.unsupported => \A u \in Applied(r) : \A i \in DOMAIN commits[u] : commits[u][i].what # "addDV"
  /\ \A p \in Paths : FileKnown(r, p)
  /\ \A k \in Properties : ValueKnown(r, k)

\* The inductive invariant of the snapshots and checkpoints
SnapshotInv ==
  /\ StoreInv
  /\ \A c \in CkClients :
       LET r == ck[c] IN
       /\ r.at \in {"parse", "file"} /\ ~r.changed => Known(r)
       /\ r.at = "file" => /\ ~r.changed /\ r.todo = {} /\ r.waits = {}
                           /\ ~r.m.unsupported

-----------------------------------------------------------------------------
(* The reference *)

\* The last of some versions
LEMMA LastOfIs ==
  ASSUME NEW n \in -1..CkMax, NEW S \in SUBSET (0..n)
  PROVE  /\ LastOf(S) \in -1..n
         /\ S = {} => LastOf(S) = -1
         /\ \A x \in S : x <= LastOf(S)
         /\ LastOf(S) >= 0 => LastOf(S) \in S
         /\ S # {} => LastOf(S) >= 0
<1> DEFINE T == S \cup {-1}
<1>1. CkMax \in Nat /\ n \in Int /\ T \in SUBSET (-1..CkMax) /\ T # {}
  BY CheckpointAssumption
<1>2. Max(T) \in T /\ \A y \in T : y <= Max(T)
  <2> HIDE DEF T
  <2> QED BY <1>1, MaxOf
<1>3. LastOf(S) = Max(T)
  BY DEF LastOf
<1>4. \A x \in S : x \in Int /\ x >= 0 /\ x <= n
  BY <1>1
<1> HIDE DEF T
<1>5. \A x : x \in T <=> x \in S \/ x = -1
  BY DEF T
<1>6. LastOf(S) \in S \/ LastOf(S) = -1
  BY <1>2, <1>3, <1>5
<1>7. \A x \in S : x <= LastOf(S)
  BY <1>2, <1>3, <1>5
<1> DEFINE l == LastOf(S)
<1>8. n \in Int /\ n >= -1 /\ (l \in S \/ l = -1) /\ \A x \in S : x <= l
  BY <1>1, <1>6, <1>7
<1> HIDE DEF l
<1>9. l \in S => l \in Int /\ l >= 0 /\ l <= n
  BY <1>4
<1>10. l \in -1..n
  BY <1>8, <1>9
<1>11. S # {} => l >= 0
  <2> SUFFICES ASSUME NEW x \in S PROVE l >= 0
    OBVIOUS
  <2> QED BY <1>4, <1>8, <1>9
<1>12. S = {} => l = -1
  BY <1>8
<1>13. l >= 0 => l \in S
  BY <1>8
<1> QED BY <1>8, <1>10, <1>11, <1>12, <1>13 DEF l

\* The last of a set is what is in it and not below another one.
LEMMA LastOfIsUnique ==
  ASSUME NEW n \in -1..CkMax, NEW S \in SUBSET (0..n), NEW u \in S, \A w \in S : w <= u
  PROVE  LastOf(S) = u
<1>1. u <= LastOf(S) /\ LastOf(S) >= 0 /\ LastOf(S) \in S /\ LastOf(S) \in Int /\ u \in Int
  BY LastOfIs, CheckpointAssumption
<1> QED BY <1>1

\* The sets that the reference is about, and the value that a commit sets
TouchedIn(cm, v, p) == {u \in 0..v : Touches(cm[u], p)}
ValueIn(actions, k) ==
  actions[CHOOSE i \in DOMAIN actions : actions[i].what = "set" /\ actions[i].on = k].val
SetIn(cm, v, k) == {w \in 0..v : Has(cm[w], "set", k)}

\* Logs that agree up to a version agree on its snapshot.
LEMMA SameUpTo ==
  ASSUME NEW cm, NEW cn, NEW v \in -1..CkMax, \A u \in 0..v : cm[u] = cn[u]
  PROVE  /\ \A p : /\ LastTouch(cm, v, p) = LastTouch(cn, v, p)
                   /\ LiveFile(cm, v, p) = LiveFile(cn, v, p)
                   /\ RemovedFile(cm, v, p) = RemovedFile(cn, v, p)
         /\ \A k : PropertyAt(cm, v, k) = PropertyAt(cn, v, k)
<1>1. ASSUME NEW p PROVE LastTouch(cm, v, p) = LastTouch(cn, v, p)
  <2>1. TouchedIn(cm, v, p) = TouchedIn(cn, v, p)
    BY DEF TouchedIn
  <2> QED BY <2>1 DEF LastTouch, TouchedIn
<1>2. ASSUME NEW p PROVE LiveFile(cm, v, p) = LiveFile(cn, v, p)
  <2> DEFINE u == LastTouch(cn, v, p)
  <2>1. u >= 0 => u \in 0..v
    <3>1. TouchedIn(cn, v, p) \in SUBSET (0..v)
      BY DEF TouchedIn
    <3>2. u = LastOf(TouchedIn(cn, v, p))
      BY DEF LastTouch, TouchedIn
    <3> QED BY <3>1, <3>2, LastOfIs
  <2>2. u >= 0 => cm[u] = cn[u]
    BY <2>1
  <2>3. LastTouch(cm, v, p) = u
    BY <1>1
  <2> HIDE DEF u
  <2>4. LiveFile(cm, v, p) = (u >= 0 /\ (Has(cm[u], "addDV", p) \/ ~Has(cm[u], "remove", p)))
    BY <2>3 DEF LiveFile
  <2>5. LiveFile(cn, v, p) = (u >= 0 /\ (Has(cn[u], "addDV", p) \/ ~Has(cn[u], "remove", p)))
    BY DEF LiveFile, u
  <2> QED BY <2>2, <2>4, <2>5
<1>3. ASSUME NEW p PROVE RemovedFile(cm, v, p) = RemovedFile(cn, v, p)
  BY <1>1, <1>2 DEF RemovedFile
<1>4. ASSUME NEW k PROVE PropertyAt(cm, v, k) = PropertyAt(cn, v, k)
  <2> DEFINE u == LastOf(SetIn(cn, v, k))
  <2>1. SetIn(cm, v, k) = SetIn(cn, v, k)
    BY DEF SetIn
  <2>2. ~(u < 0) => u \in 0..v
    <3>1. SetIn(cn, v, k) \in SUBSET (0..v)
      BY DEF SetIn
    <3> HIDE DEF SetIn
    <3>2. u \in -1..v /\ v \in Int
      BY <3>1, LastOfIs, CheckpointAssumption
    <3> QED BY <3>2
  <2>3. ~(u < 0) => cm[u] = cn[u]
    BY <2>2
  <2>4. u = LastOf(SetIn(cm, v, k))
    BY <2>1
  <2> HIDE DEF u
  <2>5. PropertyAt(cm, v, k) = IF u < 0 THEN Removed
          ELSE ValueIn(cm[u], k)
    BY <2>4 DEF PropertyAt, SetIn, ValueIn
  <2>6. PropertyAt(cn, v, k) = IF u < 0 THEN Removed
          ELSE ValueIn(cn[u], k)
    BY DEF PropertyAt, SetIn, ValueIn, u
  <2> QED BY <2>3, <2>5, <2>6
<1> QED BY <1>1, <1>2, <1>3, <1>4

\* Some version of a set touches the file last, if any does.
LEMMA SomeLastToTouch ==
  ASSUME NEW D, D \subseteq CkVersions, NEW p, \E u \in D : Touches(commits[u], p)
  PROVE  \E u \in D : LastToTouch(D, u, p)
<1> DEFINE S == {u \in D : Touches(commits[u], p)}
<1>1. CkMax \in -1..CkMax
  BY CheckpointAssumption
<1>3. S \in SUBSET (0..CkMax) /\ S # {}
  BY DEF CkVersions
<1> HIDE DEF S
<1>2. LastOf(S) \in S /\ \A x \in S : x <= LastOf(S)
  BY <1>1, <1>3, LastOfIs
<1> QED BY <1>2 DEF S, LastToTouch

\* Or sets the property last.
LEMMA SomeLastToSet ==
  ASSUME NEW D, D \subseteq CkVersions, NEW k, \E u \in D : Has(commits[u], "set", k)
  PROVE  \E u \in D : LastToSet(D, u, k)
<1> DEFINE S == {u \in D : Has(commits[u], "set", k)}
<1>1. CkMax \in -1..CkMax
  BY CheckpointAssumption
<1>3. S \in SUBSET (0..CkMax) /\ S # {}
  BY DEF CkVersions
<1> HIDE DEF S
<1>2. LastOf(S) \in S /\ \A x \in S : x <= LastOf(S)
  BY <1>1, <1>3, LastOfIs
<1> QED BY <1>2 DEF S, LastToSet

\* The versions after the base decide, if any of them touches the file.
LEMMA LastTouchIn ==
  ASSUME NEW v \in CkVersions, NEW base \in -1..v, NEW p
  PROVE  /\ \A u \in (base + 1)..v : LastToTouch((base + 1)..v, u, p) => LastTouch(commits, v, p) = u
         /\ (\A u \in (base + 1)..v : ~Touches(commits[u], p))
              => /\ LastTouch(commits, v, p) = LastTouch(commits, base, p)
                 /\ LiveFile(commits, v, p) = LiveFile(commits, base, p)
                 /\ RemovedFile(commits, v, p) = RemovedFile(commits, base, p)
<1> DEFINE S == TouchedIn(commits, v, p)
<1>0. /\ v \in Nat /\ v <= CkMax /\ CkMax \in Nat /\ base \in Int /\ -1 <= base /\ base <= v
      /\ v \in -1..CkMax /\ base \in -1..CkMax
  BY CheckpointAssumption DEF CkVersions
<1>1. S \in SUBSET (0..v) /\ LastTouch(commits, v, p) = LastOf(S)
  BY DEF TouchedIn, LastTouch
<1>2. ASSUME NEW u \in (base + 1)..v, LastToTouch((base + 1)..v, u, p)
      PROVE  LastTouch(commits, v, p) = u
  <2>1. u \in S
    BY <1>0, <1>2 DEF LastToTouch, TouchedIn
  <2>2. ASSUME NEW w \in S PROVE w <= u
    <3>1. w \in 0..v /\ Touches(commits[w], p)
      BY DEF TouchedIn
    <3>2. CASE w \in (base + 1)..v
      BY <1>2, <3>1, <3>2 DEF LastToTouch
    <3>3. CASE ~(w \in (base + 1)..v)
      BY <1>0, <3>1, <3>3
    <3> QED BY <3>2, <3>3
  <2> HIDE DEF S
  <2> QED BY <1>0, <1>1, <2>1, <2>2, LastOfIsUnique
<1>3. ASSUME \A u \in (base + 1)..v : ~Touches(commits[u], p)
      PROVE  /\ LastTouch(commits, v, p) = LastTouch(commits, base, p)
             /\ LiveFile(commits, v, p) = LiveFile(commits, base, p)
             /\ RemovedFile(commits, v, p) = RemovedFile(commits, base, p)
  <2>1. S = TouchedIn(commits, base, p)
    <3>1. \A u \in 0..v : u \in 0..base \/ u \in (base + 1)..v
      BY <1>0
    <3>2. \A u \in 0..base : u \in 0..v
      BY <1>0
    <3> QED BY <1>3, <3>1, <3>2 DEF TouchedIn
  <2>2. LastTouch(commits, v, p) = LastTouch(commits, base, p)
    BY <2>1 DEF LastTouch, TouchedIn
  <2> HIDE DEF S
  <2>3. LiveFile(commits, v, p) = LiveFile(commits, base, p)
    BY <2>2 DEF LiveFile
  <2> QED BY <2>2, <2>3 DEF RemovedFile
<1> QED BY <1>2, <1>3

\* Or sets the property.
LEMMA LastSetIn ==
  ASSUME NEW v \in CkVersions, NEW base \in -1..v, NEW k
  PROVE  /\ \A u \in (base + 1)..v : LastToSet((base + 1)..v, u, k)
              => PropertyAt(commits, v, k) = ValueIn(commits[u], k)
         /\ (\A u \in (base + 1)..v : ~Has(commits[u], "set", k))
              => PropertyAt(commits, v, k) = PropertyAt(commits, base, k)
<1> DEFINE S == SetIn(commits, v, k)
<1>0. /\ v \in Nat /\ v <= CkMax /\ CkMax \in Nat /\ base \in Int /\ -1 <= base /\ base <= v
      /\ v \in -1..CkMax /\ base \in -1..CkMax
  BY CheckpointAssumption DEF CkVersions
<1>1. /\ S \in SUBSET (0..v)
      /\ PropertyAt(commits, v, k) = IF LastOf(S) < 0 THEN Removed ELSE ValueIn(commits[LastOf(S)], k)
  BY DEF SetIn, PropertyAt, ValueIn
<1>2. ASSUME NEW u \in (base + 1)..v, LastToSet((base + 1)..v, u, k)
      PROVE  PropertyAt(commits, v, k) = ValueIn(commits[u], k)
  <2>1. u \in S
    BY <1>0, <1>2 DEF LastToSet, SetIn
  <2>2. ASSUME NEW w \in S PROVE w <= u
    <3>1. w \in 0..v /\ Has(commits[w], "set", k)
      BY DEF SetIn
    <3>2. CASE w \in (base + 1)..v
      BY <1>2, <3>1, <3>2 DEF LastToSet
    <3>3. CASE ~(w \in (base + 1)..v)
      BY <1>0, <3>1, <3>3
    <3> QED BY <3>2, <3>3
  <2> HIDE DEF S
  <2>3. LastOf(S) = u
    BY <1>0, <1>1, <2>1, <2>2, LastOfIsUnique
  <2>4. ~(u < 0)
    BY <1>0
  <2> QED BY <1>1, <2>3, <2>4
<1>3. ASSUME \A u \in (base + 1)..v : ~Has(commits[u], "set", k)
      PROVE  PropertyAt(commits, v, k) = PropertyAt(commits, base, k)
  <2>1. S = SetIn(commits, base, k)
    <3>1. \A u \in 0..v : u \in 0..base \/ u \in (base + 1)..v
      BY <1>0
    <3>2. \A u \in 0..base : u \in 0..v
      BY <1>0
    <3> QED BY <1>3, <3>1, <3>2 DEF SetIn
  <2>2. PropertyAt(commits, base, k) = IF LastOf(S) < 0 THEN Removed ELSE ValueIn(commits[LastOf(S)], k)
    <3>1. PropertyAt(commits, base, k) =
            IF LastOf(SetIn(commits, base, k)) < 0 THEN Removed
            ELSE ValueIn(commits[LastOf(SetIn(commits, base, k))], k)
      BY DEF SetIn, PropertyAt, ValueIn
    <3> HIDE DEF S
    <3> QED BY <2>1, <3>1
  <2> QED BY <1>1, <2>2
<1> QED BY <1>2, <1>3

\* Nothing is in a snapshot before version 0.
LEMMA NothingYet ==
  /\ \A p : ~LiveFile(commits, -1, p) /\ ~RemovedFile(commits, -1, p)
  /\ \A k : PropertyAt(commits, -1, k) = Removed
<1>1. 0..(-1) = {} /\ -1 \in -1..CkMax /\ {} \in SUBSET (0..(-1))
  BY CheckpointAssumption
<1>2. LastOf({}) = -1
  BY <1>1, LastOfIs
<1>3. \A p : TouchedIn(commits, -1, p) = {}
  BY <1>1 DEF TouchedIn
<1>4. \A k : SetIn(commits, -1, k) = {}
  BY <1>1 DEF SetIn
<1>5. \A p : LastTouch(commits, -1, p) = -1
  BY <1>2, <1>3 DEF LastTouch, TouchedIn
<1>6. \A p : ~LiveFile(commits, -1, p)
  BY <1>5 DEF LiveFile
<1>7. \A p : ~RemovedFile(commits, -1, p)
  BY <1>5 DEF RemovedFile
<1>8. ASSUME NEW k PROVE PropertyAt(commits, -1, k) = Removed
  <2>1. LastOf(SetIn(commits, -1, k)) < 0
    BY <1>2, <1>4
  <2> QED BY <2>1 DEF PropertyAt, SetIn
<1> QED BY <1>6, <1>7, <1>8

\* Who has applied everything knows the snapshot of the version.
LEMMA KnownIsRight ==
  ASSUME StoreInv, NEW r, Known(r), r.todo = {}, r.waits = {}, ~r.m.unsupported
  PROVE  /\ AllFinal(r.version)
         /\ Added(r.m) = {p \in Paths : LiveFile(commits, r.version, p)}
         /\ [k \in Properties |-> r.m.values[k].val]
              = [k \in Properties |-> PropertyAt(commits, r.version, k)]
         /\ \A p \in Tombstones(r.m) : RemovedFile(commits, r.version, p)
         /\ \A p \in Paths : RemovedFile(commits, r.version, p)
                               /\ LastTouch(commits, r.version, p) >= horizon
              => p \in Tombstones(r.m) /\ r.m.files[p].time >= horizon
<1> DEFINE v == r.version
           base == r.base
           D == (base + 1)..v
<1>1. /\ v \in CkVersions /\ v \in Nat /\ v <= CkMax /\ CkMax \in Nat
      /\ base \in -1..v /\ base \in Int /\ -1 <= base /\ base <= v
      /\ horizon \in Nat
  BY CheckpointAssumption DEF Known, CkVersions, StoreInv
<1>2. Applied(r) = D /\ (Based(r) <=> base # -1)
  BY DEF Applied, Based, None
<1>3. AllFinal(v)
  <2> SUFFICES ASSUME NEW u \in 0..v PROVE slot[u] = "final"
    BY DEF AllFinal
  <2>1. CASE u \in D
    BY <1>2, <2>1 DEF Known
  <2>2. CASE u \notin D
    <3>1. base # -1 /\ u \in 0..base
      BY <1>1, <2>2
    <3> QED BY <1>2, <3>1 DEF Known, AllFinal
  <2> QED BY <2>1, <2>2
<1>4. D \subseteq CkVersions
  BY <1>1 DEF CkVersions
<1>5. \A u \in D : \A p : ~Has(commits[u], "addDV", p)
  BY <1>2 DEF Known, Has
<1>6. ASSUME NEW p \in Paths
      PROVE  /\ r.m.files[p].op = "ADD" <=> LiveFile(commits, v, p)
             /\ r.m.files[p].op = "DELETE" => RemovedFile(commits, v, p)
             /\ RemovedFile(commits, v, p) /\ LastTouch(commits, v, p) >= horizon
                  => r.m.files[p].op = "DELETE" /\ r.m.files[p].time >= horizon
  <2> DEFINE e == r.m.files[p]
  <2>1. FileKnown(r, p)
    BY DEF Known
  <2> HIDE DEF D
  <2>2. CASE \E u \in D : Touches(commits[u], p)
    <3>1. PICK u \in D : LastToTouch(D, u, p)
      BY <1>4, <2>2, SomeLastToTouch
    <3>2. LastTouch(commits, v, p) = u
      BY <1>1, <3>1, LastTouchIn DEF D
    <3>3. /\ e.op = IF Has(commits[u], "remove", p) THEN "DELETE" ELSE "ADD"
          /\ e.op = "DELETE" => e.time = u
      BY <1>2, <2>1, <3>1 DEF FileKnown
    <3>4. u >= 0
      BY <1>1, <1>4 DEF CkVersions
    <3>5. LiveFile(commits, v, p) <=> ~Has(commits[u], "remove", p)
      BY <1>5, <3>2, <3>4 DEF LiveFile
    <3>6. RemovedFile(commits, v, p) <=> ~LiveFile(commits, v, p)
      BY <3>2, <3>4 DEF RemovedFile
    <3> HIDE DEF e, v
    <3> QED BY <3>2, <3>3, <3>5, <3>6 DEF e, v
  <2>3. CASE \A u \in D : ~Touches(commits[u], p)
    <3>1. /\ LastTouch(commits, v, p) = LastTouch(commits, base, p)
          /\ LiveFile(commits, v, p) = LiveFile(commits, base, p)
          /\ RemovedFile(commits, v, p) = RemovedFile(commits, base, p)
      BY <1>1, <2>3, LastTouchIn DEF D
    <3>2. CASE base = -1
      <4>1. e.op = "NONE"
        BY <1>2, <2>1, <2>3, <3>2 DEF FileKnown
      <4> QED BY <3>1, <3>2, <4>1, NothingYet
    <3>3. CASE base # -1
      <4>1. FromBase(e, base, p)
        BY <1>2, <2>1, <2>3, <3>3 DEF FileKnown
      <4>2. LastTouch(commits, base, p) <= base /\ LastTouch(commits, base, p) \in Int
        <5>1. TouchedIn(commits, base, p) \in SUBSET (0..base) /\ base \in -1..CkMax
          BY <1>1 DEF TouchedIn
        <5>2. LastTouch(commits, base, p) = LastOf(TouchedIn(commits, base, p))
          BY DEF LastTouch, TouchedIn
        <5>3. LastTouch(commits, base, p) \in -1..base
          BY <5>1, <5>2, LastOfIs
        <5> QED BY <1>1, <5>3
      <4>3. LastTouch(commits, base, p) >= horizon => base >= horizon
        BY <1>1, <4>2
      <4> HIDE DEF e, base, v
      <4> QED BY <3>1, <4>1, <4>3 DEF FromBase, e, v
    <3> QED BY <3>2, <3>3
  <2> QED BY <2>2, <2>3
<1>7. ASSUME NEW k \in Properties PROVE r.m.values[k].val = PropertyAt(commits, v, k)
  <2>1. ValueKnown(r, k)
    BY DEF Known
  <2>a. \A u, x : Value(u, x).val = x
    BY DEF Value
  <2> HIDE DEF D
  <2>2. CASE \E u \in D : Has(commits[u], "set", k)
    <3>1. PICK u \in D : LastToSet(D, u, k)
      BY <1>4, <2>2, SomeLastToSet
    <3>2. PropertyAt(commits, v, k) = ValueIn(commits[u], k)
      BY <1>1, <3>1, LastSetIn DEF D
    <3>3. PICK i \in DOMAIN commits[u] : /\ commits[u][i].what = "set" /\ commits[u][i].on = k
                                         /\ r.m.values[k] = Value(u, commits[u][i].val)
      BY <1>2, <2>1, <3>1 DEF ValueKnown
    <3>4. \A j \in DOMAIN commits[u] : commits[u][j].what = "set" /\ commits[u][j].on = k => j = i
      <4>1. OneValueEach(commits[u])
        BY <1>4 DEF StoreInv
      <4> QED BY <3>3, <4>1 DEF OneValueEach
    <3>5. ValueIn(commits[u], k) = commits[u][i].val
      BY <3>3, <3>4 DEF ValueIn
    <3> QED BY <2>a, <3>2, <3>3, <3>5
  <2>3. CASE \A u \in D : ~Has(commits[u], "set", k)
    <3>1. PropertyAt(commits, v, k) = PropertyAt(commits, base, k)
      BY <1>1, <2>3, LastSetIn DEF D
    <3>2. r.m.values[k] = IF Based(r) /\ PropertyAt(commits, base, k) # Removed
                          THEN Value(base, PropertyAt(commits, base, k)) ELSE Value(-1, Removed)
      BY <1>2, <2>1, <2>3 DEF ValueKnown
    <3>3. ~Based(r) => PropertyAt(commits, base, k) = Removed
      BY <1>2, NothingYet
    <3> QED BY <2>a, <3>1, <3>2, <3>3
  <2> QED BY <2>2, <2>3
<1>8. Added(r.m) = {p \in Paths : LiveFile(commits, v, p)}
  BY <1>6 DEF Added, WithOp
<1>9. Tombstones(r.m) = {p \in Paths : r.m.files[p].op = "DELETE"}
  BY DEF Tombstones, WithOp
<1> QED BY <1>3, <1>6, <1>7, <1>8, <1>9

\* A change of the store that touches no final version changes nothing that
\* a client knows.
LEMMA KnownStable ==
  ASSUME StoreInv, NEW r, Known(r),
         \A u \in CkVersions : slot[u] = "final" => slot'[u] = "final" /\ commits'[u] = commits[u],
         horizon' \in Nat, horizon' >= horizon
  PROVE  Known(r)'
<1> DEFINE D == Applied(r)
           base == r.base
<1>1. /\ r.version \in CkVersions /\ r.version \in Nat /\ r.version <= CkMax /\ CkMax \in Nat
      /\ base \in -1..r.version /\ base \in Int /\ -1 <= base /\ base <= r.version
      /\ horizon \in Nat /\ base \in -1..CkMax
  BY CheckpointAssumption DEF Known, CkVersions, StoreInv
<1>2. D \subseteq CkVersions
  BY <1>1 DEF Applied, CkVersions
<1>3. \A u \in D : slot[u] = "final"
  BY DEF Known
<1>4. \A u \in D : slot'[u] = "final" /\ commits'[u] = commits[u]
  BY <1>2, <1>3
<1>5. Based(r) => \A u \in 0..base : u \in CkVersions /\ slot[u] = "final"
  BY <1>1 DEF Known, AllFinal, CkVersions
<1>6. Based(r) => /\ \A p : /\ LastTouch(commits', base, p) = LastTouch(commits, base, p)
                            /\ LiveFile(commits', base, p) = LiveFile(commits, base, p)
                            /\ RemovedFile(commits', base, p) = RemovedFile(commits, base, p)
                  /\ \A k : PropertyAt(commits', base, k) = PropertyAt(commits, base, k)
  BY <1>1, <1>5, SameUpTo
<1>7. ASSUME NEW p \in Paths PROVE FileKnown(r, p)'
  <2>1. FileKnown(r, p)
    BY DEF Known
  <2>2. \A u \in D : LastToTouch(D, u, p)' <=> LastToTouch(D, u, p)
    BY <1>4 DEF LastToTouch
  <2>3. \A e : Based(r) /\ FromBase(e, base, p) => FromBase(e, base, p)'
    <3> SUFFICES ASSUME NEW e, Based(r), FromBase(e, base, p) PROVE FromBase(e, base, p)'
      OBVIOUS
    <3>1. LastTouch(commits, base, p) \in Int
      <4>1. TouchedIn(commits, base, p) \in SUBSET (0..base)
        BY DEF TouchedIn
      <4>2. LastTouch(commits, base, p) = LastOf(TouchedIn(commits, base, p))
        BY DEF LastTouch, TouchedIn
      <4>3. LastTouch(commits, base, p) \in -1..base
        BY <1>1, <4>1, <4>2, LastOfIs
      <4> QED BY <1>1, <4>3
    <3>2. LastTouch(commits, base, p) >= horizon' => LastTouch(commits, base, p) >= horizon
      BY <1>1, <3>1
    <3> QED BY <1>6, <3>2 DEF FromBase
  <2> HIDE DEF D
  <2>4. D = Applied(r)
    BY DEF D
  <2> QED BY <1>4, <2>1, <2>2, <2>3, <2>4 DEF FileKnown
<1>8. ASSUME NEW k \in Properties PROVE ValueKnown(r, k)'
  <2>1. ValueKnown(r, k)
    BY DEF Known
  <2>2. \A u \in D : LastToSet(D, u, k)' <=> LastToSet(D, u, k)
    BY <1>4 DEF LastToSet
  <2> HIDE DEF D
  <2>3. D = Applied(r)
    BY DEF D
  <2> QED BY <1>4, <1>6, <2>1, <2>2, <2>3 DEF ValueKnown
<1>9. Based(r) => AllFinal(base)'
  BY <1>5 DEF AllFinal
<1>10. ~r.m.unsupported => \A u \in D : \A i \in DOMAIN commits'[u] : commits'[u][i].what # "addDV"
  BY <1>4 DEF Known
<1> QED BY <1>4, <1>7, <1>8, <1>9, <1>10 DEF Known

\* A version that was not applied before is applied.
LEMMA KnownVersion ==
  ASSUME StoreInv, NEW r, Known(r), NEW v \in (r.todo \ {-1}) \cup r.waits, slot[v] = "final",
         NEW s, s.m = ApplyAll(r.m, commits[v], v), s.version = r.version, s.base = r.base,
         s.todo = r.todo \ {v}, s.waits = r.waits \ {v}
  PROVE  Known(s)
<1> DEFINE D == Applied(r)
           E == Applied(s)
           base == r.base
           n == Len(commits[v])
           acts == commits[v]
<1>1. /\ r.version \in CkVersions /\ r.version \in Nat /\ r.version <= CkMax /\ CkMax \in Nat
      /\ base \in -1..r.version /\ base \in Int /\ -1 <= base /\ base <= r.version
  BY CheckpointAssumption DEF Known, CkVersions
<1>2. /\ v \in (base + 1)..r.version /\ v \in Int /\ v > base /\ v >= 0 /\ v \in CkVersions
      /\ v \notin D /\ v # -1
  BY <1>1 DEF Known, Applied, CkVersions
<1>3. E = D \cup {v}
  BY <1>2 DEF Applied
<1>4. \A u \in D : u \in Int /\ u > base /\ u \in CkVersions /\ u # v
  BY <1>1, <1>2 DEF Applied, CkVersions
<1>5. Based(s) = Based(r)
  BY <1>2 DEF Based
<1>6. acts \in Seq(LogActions) /\ DOMAIN acts = 1..n
  BY <1>2 DEF StoreInv
<1>7. After(r.m, s.m, acts, n, v)
  BY <1>2, <1>6, ApplyAllDoes DEF Known
<1>8. \A what, on : Has(acts, what, on) <=> HasBy(acts, n, what, on)
  BY <1>6 DEF Has, HasBy
<1>9. \A p : Touches(acts, p) <=> TouchesBy(acts, n, p)
  BY <1>8 DEF Touches, TouchesBy, FileActions
<1> HIDE DEF D, E, n
<1>10. ASSUME NEW p \in Paths PROVE FileKnown(s, p)
  <2> DEFINE cur == r.m.files[p]
             new == s.m.files[p]
  <2>1. FileKnown(r, p)
    BY DEF Known
  <2>2. FileAfter(cur, new, acts, n, v, p)
    BY <1>7 DEF After
  <2>t. cur.version \in Int /\ cur.op \in {"NONE", "ADD", "DELETE"}
    BY DEF Known, Managers, Entries
  <2>3. ASSUME NEW u \in D, LastToTouch(D, u, p)
        PROVE  /\ cur.version = u /\ cur.op # "NONE"
               /\ cur.op = IF Has(commits[u], "remove", p) THEN "DELETE" ELSE "ADD"
               /\ cur.op = "DELETE" => cur.time = u
    BY <2>1, <2>3 DEF FileKnown, D
  <2>4. (\A u \in D : ~Touches(commits[u], p)) =>
          IF Based(r) THEN FromBase(cur, base, p) ELSE cur.op = "NONE"
    BY <2>1 DEF FileKnown, D
  <2>5. (\A u \in D : ~Touches(commits[u], p)) => cur.op = "NONE" \/ cur.version < v
    <3> SUFFICES ASSUME \A u \in D : ~Touches(commits[u], p), Based(r)
                 PROVE  cur.op = "NONE" \/ cur.version < v
      BY <2>4
    <3>1. FromBase(cur, base, p)
      BY <2>4
    <3>2. cur.op # "NONE" => cur.version = base
      BY <2>t, <3>1 DEF FromBase
    <3> QED BY <1>2, <3>2
  <2> HIDE DEF cur, new
  <2>6. ASSUME NEW u \in E, LastToTouch(E, u, p)
        PROVE  /\ new.version = u
               /\ new.op = IF Has(commits[u], "remove", p) THEN "DELETE" ELSE "ADD"
               /\ new.op = "DELETE" => new.time = u
    <3>1. CASE u = v
      <4>1. TouchesBy(acts, n, p)
        BY <1>9, <2>6, <3>1 DEF LastToTouch
      <4>2. cur.op = "NONE" \/ cur.version < v
        <5>1. CASE \E w \in D : Touches(commits[w], p)
          <6>1. PICK w \in D : LastToTouch(D, w, p)
            BY <1>4, <5>1, SomeLastToTouch
          <6>2. w <= v
            BY <1>3, <2>6, <3>1, <6>1 DEF LastToTouch
          <6> QED BY <1>2, <1>4, <2>3, <6>1, <6>2
        <5>2. CASE \A w \in D : ~Touches(commits[w], p)
          BY <2>5, <5>2
        <5> QED BY <5>1, <5>2
      <4> QED BY <1>8, <2>2, <3>1, <4>1, <4>2 DEF FileAfter
    <3>2. CASE u # v
      <4>1. u \in D /\ LastToTouch(D, u, p)
        BY <1>3, <2>6, <3>2 DEF LastToTouch
      <4>2. Touches(acts, p) => u > v
        BY <1>2, <1>3, <1>4, <2>6, <3>2, <4>1 DEF LastToTouch
      <4>3. new = cur
        BY <1>9, <2>2, <2>3, <4>1, <4>2 DEF FileAfter
      <4> QED BY <2>3, <4>1, <4>3
    <3> QED BY <3>1, <3>2
  <2>7. ASSUME \A u \in E : ~Touches(commits[u], p)
        PROVE  IF Based(s) THEN FromBase(new, base, p) ELSE new.op = "NONE"
    <3>1. /\ \A u \in D : ~Touches(commits[u], p)
          /\ ~Touches(acts, p)
      BY <1>3, <2>7
    <3>2. new = cur
      BY <1>9, <2>2, <3>1 DEF FileAfter
    <3> QED BY <1>5, <2>4, <3>1, <3>2
  <2> QED BY <2>6, <2>7 DEF FileKnown, E, new
<1>11. ASSUME NEW k \in Properties PROVE ValueKnown(s, k)
  <2> DEFINE cur == r.m.values[k]
             new == s.m.values[k]
             old == PropertyAt(commits, base, k)
  <2>a. \A u, x : Value(u, x).version = u
    BY DEF Value
  <2>1. ValueKnown(r, k)
    BY DEF Known
  <2>2. ValueAfter(cur, new, acts, n, v, k)
    BY <1>7 DEF After
  <2>3. ASSUME NEW u \in D, LastToSet(D, u, k)
        PROVE  \E i \in DOMAIN commits[u] :
                 /\ commits[u][i].what = "set" /\ commits[u][i].on = k
                 /\ cur = Value(u, commits[u][i].val)
    BY <2>1, <2>3 DEF ValueKnown, D
  <2>4. (\A u \in D : ~Has(commits[u], "set", k)) =>
          cur = IF Based(r) /\ old # Removed THEN Value(base, old) ELSE Value(-1, Removed)
    BY <2>1 DEF ValueKnown, D
  <2> HIDE DEF cur, new, old
  <2>5. (\A u \in D : ~Has(commits[u], "set", k)) => cur.version <= v
    BY <1>1, <1>2, <2>4, <2>a
  <2>6. ASSUME NEW u \in E, LastToSet(E, u, k)
        PROVE  \E i \in DOMAIN commits[u] :
                 /\ commits[u][i].what = "set" /\ commits[u][i].on = k
                 /\ new = Value(u, commits[u][i].val)
    <3>1. CASE u = v
      <4>1. HasBy(acts, n, "set", k)
        BY <1>8, <2>6, <3>1 DEF LastToSet
      <4>2. cur.version <= v
        <5>1. CASE \E w \in D : Has(commits[w], "set", k)
          <6>1. PICK w \in D : LastToSet(D, w, k)
            BY <1>4, <5>1, SomeLastToSet
          <6>2. w <= v
            BY <1>3, <2>6, <3>1, <6>1 DEF LastToSet
          <6> QED BY <2>3, <2>a, <6>1, <6>2
        <5>2. CASE \A w \in D : ~Has(commits[w], "set", k)
          BY <2>5, <5>2
        <5> QED BY <5>1, <5>2
      <4> QED BY <1>6, <2>2, <3>1, <4>1, <4>2 DEF ValueAfter
    <3>2. CASE u # v
      <4>1. u \in D /\ LastToSet(D, u, k)
        BY <1>3, <2>6, <3>2 DEF LastToSet
      <4>2. Has(acts, "set", k) => u > v
        BY <1>2, <1>3, <1>4, <2>6, <3>2, <4>1 DEF LastToSet
      <4>3. cur.version = u
        BY <2>3, <2>a, <4>1
      <4>4. new = cur
        BY <1>8, <2>2, <4>2, <4>3 DEF ValueAfter
      <4> QED BY <2>3, <4>1, <4>4
    <3> QED BY <3>1, <3>2
  <2>7. ASSUME \A u \in E : ~Has(commits[u], "set", k)
        PROVE  new = IF Based(s) /\ old # Removed THEN Value(base, old) ELSE Value(-1, Removed)
    <3>1. /\ \A u \in D : ~Has(commits[u], "set", k)
          /\ ~Has(acts, "set", k)
      BY <1>3, <2>7
    <3>2. new = cur
      BY <1>8, <2>2, <3>1 DEF ValueAfter
    <3> QED BY <1>5, <2>4, <3>1, <3>2
  <2> QED BY <2>6, <2>7 DEF ValueKnown, E, new, old
<1>12. ~s.m.unsupported => \A u \in E : \A i \in DOMAIN commits[u] : commits[u][i].what # "addDV"
  <2> SUFFICES ASSUME ~s.m.unsupported, NEW u \in E, NEW i \in DOMAIN commits[u]
               PROVE  commits[u][i].what # "addDV"
    OBVIOUS
  <2>1. ~r.m.unsupported /\ \A j \in 1..n : acts[j].what # "addDV"
    BY <1>7 DEF After
  <2>2. CASE u = v
    BY <1>6, <2>1, <2>2
  <2>3. CASE u \in D
    BY <2>1, <2>3 DEF Known, D
  <2> QED BY <1>3, <2>2, <2>3
<1>13. \A u \in E : slot[u] = "final"
  <2>1. \A u \in D : slot[u] = "final"
    BY DEF Known, D
  <2> QED BY <1>3, <2>1
<1>14. Based(s) => AllFinal(s.base)
  BY <1>5 DEF Known
<1>15. /\ s.version \in CkVersions /\ s.base \in -1..s.version
       /\ s.todo \subseteq {-1} \cup (s.base + 1)..s.version
       /\ s.waits \subseteq (s.base + 1)..s.version /\ s.todo \cap s.waits = {}
       /\ s.base = None => -1 \notin s.todo
  BY DEF Known
<1>16. s.m \in Managers
  BY <1>7 DEF After
<1> QED BY <1>10, <1>11, <1>12, <1>13, <1>14, <1>15, <1>16 DEF Known, E

\* A version whose marker is found is waited for.
LEMMA KnownWaits ==
  ASSUME NEW r, Known(r), NEW v \in r.todo \ {-1},
         NEW s, s.m = r.m, s.version = r.version, s.base = r.base,
         s.todo = r.todo \ {v}, s.waits = r.waits \cup {v}
  PROVE  Known(s)
<1>1. Applied(s) = Applied(r)
  BY DEF Applied
<1>2. Based(s) = Based(r)
  BY DEF Based
<1>3. /\ s.todo \subseteq {-1} \cup (s.base + 1)..s.version
      /\ s.waits \subseteq (s.base + 1)..s.version /\ s.todo \cap s.waits = {}
      /\ s.base = None => -1 \notin s.todo
  BY DEF Known
<1>4. \A p \in Paths : FileKnown(s, p)
  BY <1>1, <1>2 DEF Known, FileKnown
<1>5. \A k \in Properties : ValueKnown(s, k)
  BY <1>1, <1>2 DEF Known, ValueKnown
<1> QED BY <1>1, <1>2, <1>3, <1>4, <1>5 DEF Known

\* A load starts with nothing.
LEMMA KnownAtStart ==
  ASSUME NEW s, s.m = EmptyManager, s.version \in CkVersions, s.base \in -1..s.version,
         s.todo = (IF s.base = None THEN {} ELSE {-1}) \cup FirstLog(s.base)..s.version,
         s.waits = {}
  PROVE  Known(s)
<1>1. s.version \in Nat /\ s.base \in Int /\ s.base >= -1
  BY CheckpointAssumption DEF CkVersions
<1>2. Applied(s) = {} /\ ~Based(s)
  BY DEF Applied, Based, FirstLog
<1>3. EmptyManager \in Managers
  BY DEF EmptyManager, Managers, NoEntry, Entry, Entries, Value, Values, UnknownSize, Removed
<1>4. \A p \in Paths : FileKnown(s, p)
  BY <1>2 DEF FileKnown, EmptyManager, NoEntry, Entry
<1>5. \A k \in Properties : ValueKnown(s, k)
  BY <1>2 DEF ValueKnown, EmptyManager
<1>6. s.todo \subseteq {-1} \cup (s.base + 1)..s.version /\ (s.base = None => -1 \notin s.todo)
  BY <1>1 DEF FirstLog, None
<1> QED BY <1>2, <1>3, <1>4, <1>5, <1>6 DEF Known

-----------------------------------------------------------------------------
\* What a complete checkpoint tells, whoever wrote it
LEMMA CheckpointTells ==
  ASSUME StoreInv, NEW v \in CkVersions, Complete(v)
  PROVE  /\ FileOf(v) \in CheckpointFiles
         /\ Describes(FileOf(v), v)
         /\ FileOf(v).from <= horizon
<1>1. CASE single[v].written
  <2>1. FileOf(v) = single[v]
    BY <1>1 DEF FileOf
  <2> QED BY <1>1, <2>1 DEF StoreInv
<1>2. CASE ~single[v].written
  <2>1. FileOf(v) = Foreign(v)
    BY <1>2 DEF FileOf
  <2>2. multi[v] # {}
    <3>1. multi[v] = 1..Parts /\ Parts \in Nat \ {0}
      BY <1>2, CheckpointAssumption DEF Complete
    <3>2. 1 \in 1..Parts
      BY <3>1
    <3> QED BY <3>1, <3>2
  <2>3. AllFinal(v)
    BY <2>2 DEF StoreInv
  <2>4. \A k \in Properties : PropertyAt(commits, v, k) \in Int
    <3> SUFFICES ASSUME NEW k \in Properties PROVE PropertyAt(commits, v, k) \in Int
      OBVIOUS
    <3> DEFINE S == SetIn(commits, v, k)
    <3>1. PropertyAt(commits, v, k) = IF LastOf(S) < 0 THEN Removed ELSE ValueIn(commits[LastOf(S)], k)
      BY DEF SetIn, PropertyAt, ValueIn
    <3>2. CASE LastOf(S) < 0
      BY <3>1, <3>2 DEF Removed
    <3>3. CASE ~(LastOf(S) < 0)
      <4>1. S \in SUBSET (0..v) /\ v \in -1..CkMax /\ \A u \in 0..v : u \in CkVersions
        BY CheckpointAssumption DEF SetIn, CkVersions
      <4> DEFINE u == LastOf(S)
      <4> HIDE DEF S
      <4>2. u \in -1..v /\ (u >= 0 => u \in S)
        BY <4>1, LastOfIs
      <4>3. u \in S
        BY <3>3, <4>1, <4>2
      <4> HIDE DEF u
      <4>4. u \in CkVersions /\ \E i \in DOMAIN commits[u] : commits[u][i].what = "set" /\ commits[u][i].on = k
        BY <4>1, <4>3 DEF S, SetIn, Has
      <4>5. commits[u] \in Seq(LogActions)
        BY <4>4 DEF StoreInv
      <4>6. \A i \in DOMAIN commits[u] : commits[u][i].val \in Int
        BY <4>5 DEF LogActions
      <4>7. ValueIn(commits[u], k) \in Int
        BY <4>4, <4>6 DEF ValueIn
      <4> QED BY <3>1, <3>3, <4>7 DEF u
    <3> QED BY <3>2, <3>3
  <2>5. Foreign(v) \in CheckpointFiles
    BY <2>4 DEF Foreign, CheckpointFiles
  <2>6. Describes(Foreign(v), v)
    BY <2>3 DEF Describes, Foreign
  <2> QED BY <2>1, <2>5, <2>6 DEF Foreign, StoreInv
<1> QED BY <1>1, <1>2

\* The checkpoint is applied, after some of the versions.
LEMMA KnownCheckpoint ==
  ASSUME StoreInv, IsFiniteSet(Paths), NEW r, Known(r), -1 \in r.todo, Complete(r.base),
         NEW s, s.m = ApplyCheckpoint(r.m, r.base), s.version = r.version, s.base = r.base,
         s.todo = r.todo \ {-1}, s.waits = r.waits
  PROVE  Known(s)
<1> DEFINE D == Applied(r)
           base == r.base
           file == FileOf(base)
<1>1. /\ r.version \in CkVersions /\ r.version \in Nat /\ r.version <= CkMax /\ CkMax \in Nat
      /\ base \in Int /\ base # -1 /\ base >= -1 /\ base <= r.version
  BY CheckpointAssumption DEF Known, CkVersions, None
<1>2. base \in CkVersions /\ base \in Nat /\ base \in -1..r.version
  BY <1>1 DEF CkVersions
<1>3. Applied(s) = D
  <2>1. \A u \in (base + 1)..r.version : u # -1
    BY <1>2
  <2> QED BY <2>1 DEF Applied
<1>4. ~Based(r) /\ Based(s)
  BY <1>1 DEF Based, None
<1>5. /\ file \in CheckpointFiles /\ Describes(file, base) /\ file.from <= horizon
  BY <1>2, CheckpointTells
<1>6. \A p \in Paths : p \in file.removes => p \notin file.adds
  BY <1>5 DEF Describes, RemovedFile
<1>7. file.adds \cap file.removes = {}
  BY <1>5, <1>6 DEF CheckpointFiles
<1>8. r.m \in Managers
  BY DEF Known
<1>9. /\ s.m \in Managers
      /\ ~s.m.unsupported => ~r.m.unsupported
  BY <1>2, <1>5, <1>7, <1>8, ApplyCheckpointDoes
<1>10. \A u \in D : u \in Int /\ u > base
  BY <1>2 DEF Applied
<1> HIDE DEF D
<1>11. ASSUME NEW p \in Paths PROVE FileKnown(s, p)
  <2> DEFINE cur == r.m.files[p]
             new == s.m.files[p]
  <2>1. /\ p \notin file.adds \cup file.removes => new = cur
        /\ cur.op # "NONE" /\ cur.version > base => new = cur
        /\ p \in file.adds /\ cur.op = "NONE" => new.op = "ADD" /\ new.version = base
        /\ p \in file.removes /\ cur.op = "NONE"
             => new.op = "DELETE" /\ new.version = base /\ new.time = base
    BY <1>2, <1>5, <1>7, <1>8, ApplyCheckpointDoes
  <2>2. FileKnown(r, p)
    BY DEF Known
  <2> HIDE DEF file
  <2>3. ASSUME NEW u \in D, LastToTouch(D, u, p)
        PROVE  /\ new.version = u
               /\ new.op = IF Has(commits[u], "remove", p) THEN "DELETE" ELSE "ADD"
               /\ new.op = "DELETE" => new.time = u
    <3>1. /\ cur.version = u
          /\ cur.op = IF Has(commits[u], "remove", p) THEN "DELETE" ELSE "ADD"
          /\ cur.op = "DELETE" => cur.time = u
      BY <2>2, <2>3 DEF FileKnown, D
    <3>2. cur.op # "NONE" /\ cur.version > base
      BY <1>10, <3>1
    <3> QED BY <2>1, <3>1, <3>2
  <2>4. ASSUME \A u \in D : ~Touches(commits[u], p) PROVE FromBase(new, base, p)
    <3>1. cur.op = "NONE"
      BY <1>4, <2>2, <2>4 DEF FileKnown, D
    <3>2. /\ p \in file.adds <=> LiveFile(commits, base, p)
          /\ p \in file.removes => RemovedFile(commits, base, p)
          /\ RemovedFile(commits, base, p) /\ LastTouch(commits, base, p) >= file.from
               => p \in file.removes
      BY <1>5 DEF Describes
    <3>3. LastTouch(commits, base, p) >= horizon => LastTouch(commits, base, p) >= file.from
      <4>1. TouchedIn(commits, base, p) \in SUBSET (0..base)
        BY DEF TouchedIn
      <4>2. LastTouch(commits, base, p) = LastOf(TouchedIn(commits, base, p))
        BY DEF LastTouch, TouchedIn
      <4>3. base \in -1..CkMax
        BY <1>1
      <4>4. LastTouch(commits, base, p) \in -1..base
        BY <4>1, <4>2, <4>3, LastOfIs
      <4>5. file.from \in Int /\ horizon \in Int
        BY <1>5 DEF CheckpointFiles, StoreInv
      <4> QED BY <1>1, <1>5, <4>4, <4>5
    <3>4. RemovedFile(commits, base, p) => ~LiveFile(commits, base, p)
      BY DEF RemovedFile
    <3> HIDE DEF base, cur, new
    <3> QED BY <2>1, <3>1, <3>2, <3>3, <3>4 DEF FromBase
  <2> HIDE DEF cur
  <2> QED BY <1>3, <1>4, <2>3, <2>4 DEF FileKnown
<1>12. ASSUME NEW k \in Properties PROVE ValueKnown(s, k)
  <2> DEFINE cur == r.m.values[k]
             new == s.m.values[k]
             old == PropertyAt(commits, base, k)
  <2>1. /\ file.values[k] = Removed => new = cur
        /\ cur.version > base => new = cur
        /\ file.values[k] # Removed /\ cur.version <= base => new = Value(base, file.values[k])
    BY <1>2, <1>5, <1>7, <1>8, ApplyCheckpointDoes
  <2>2. ValueKnown(r, k)
    BY DEF Known
  <2>3. file.values[k] = old
    BY <1>5 DEF Describes
  <2> HIDE DEF file, old
  <2>a. \A u, x : Value(u, x).version = u
    BY DEF Value
  <2>4. ASSUME NEW u \in D, LastToSet(D, u, k)
        PROVE  \E i \in DOMAIN commits[u] :
                 /\ commits[u][i].what = "set" /\ commits[u][i].on = k
                 /\ new = Value(u, commits[u][i].val)
    <3>1. PICK i \in DOMAIN commits[u] :
                 /\ commits[u][i].what = "set" /\ commits[u][i].on = k
                 /\ cur = Value(u, commits[u][i].val)
      BY <2>2, <2>4 DEF ValueKnown, D
    <3>2. cur.version > base
      BY <1>10, <2>a, <3>1
    <3> QED BY <2>1, <3>1, <3>2
  <2>5. ASSUME \A u \in D : ~Has(commits[u], "set", k)
        PROVE  new = IF old # Removed THEN Value(base, old) ELSE Value(-1, Removed)
    <3>1. cur = Value(-1, Removed)
      BY <1>4, <2>2, <2>5 DEF ValueKnown, D
    <3>2. cur.version <= base
      BY <1>1, <2>a, <3>1
    <3> QED BY <2>1, <2>3, <3>1, <3>2
  <2> QED BY <1>3, <1>4, <2>4, <2>5 DEF ValueKnown, old
<1>13. AllFinal(base)
  BY <1>5 DEF Describes
<1>14. /\ s.todo \subseteq {-1} \cup (s.base + 1)..s.version
       /\ s.waits \subseteq (s.base + 1)..s.version /\ s.todo \cap s.waits = {}
       /\ s.base = None => -1 \notin s.todo
  BY DEF Known
<1>15. \A u \in D : slot[u] = "final"
  BY DEF Known, D
<1>16. ~s.m.unsupported => \A u \in D : \A i \in DOMAIN commits[u] : commits[u][i].what # "addDV"
  BY <1>9 DEF Known, D
<1> QED BY <1>2, <1>1, <1>3, <1>9, <1>11, <1>12, <1>13, <1>14, <1>15, <1>16 DEF Known

-----------------------------------------------------------------------------
(* The invariant in the steps *)

\* What is final stays as it is, and time does not go back.
StoreGrows ==
  /\ \A u \in CkVersions : slot[u] = "final" => slot'[u] = "final" /\ commits'[u] = commits[u]
  /\ horizon' \in Nat /\ horizon' >= horizon

\* A checkpoint that describes its version goes on to do so.
LEMMA DescribesStable ==
  ASSUME StoreGrows, NEW v \in CkVersions, NEW file, Describes(file, v)
  PROVE  Describes(file, v)'
<1>1. v \in -1..CkMax /\ \A u \in 0..v : u \in CkVersions
  BY CheckpointAssumption DEF CkVersions
<1>2. \A u \in 0..v : slot'[u] = "final" /\ commits'[u] = commits[u]
  BY <1>1 DEF StoreGrows, Describes, AllFinal
<1>3. /\ \A p : /\ LastTouch(commits', v, p) = LastTouch(commits, v, p)
                /\ LiveFile(commits', v, p) = LiveFile(commits, v, p)
                /\ RemovedFile(commits', v, p) = RemovedFile(commits, v, p)
      /\ \A k : PropertyAt(commits', v, k) = PropertyAt(commits, v, k)
  BY <1>1, <1>2, SameUpTo
<1>4. AllFinal(v)'
  BY <1>2 DEF AllFinal
<1> QED BY <1>3, <1>4 DEF Describes

\* A step of the store that writes only right checkpoints
LEMMA StoreInvStep ==
  ASSUME StoreInv, StoreGrows,
         commits' \in [CkVersions -> Seq(LogActions)],
         \A v \in CkVersions : OneValueEach(commits'[v]),
         slot' \in [CkVersions -> {"free", "marker", "final"}],
         single' \in [CkVersions -> CheckpointFiles],
         last' \in -1..CkMax,
         \A v \in CkVersions : multi'[v] # {} => AllFinal(v),
         \A v \in CkVersions : single'[v].written =>
           Describes(single'[v], v) /\ single'[v].from <= horizon
  PROVE  StoreInv'
<1>1. ASSUME NEW v \in CkVersions, AllFinal(v) PROVE AllFinal(v)'
  <2>1. \A u \in 0..v : u \in CkVersions
    BY CheckpointAssumption DEF CkVersions
  <2> QED BY <1>1, <2>1 DEF AllFinal, StoreGrows
<1>2. ASSUME NEW v \in CkVersions, single'[v].written
      PROVE  Describes(single[v], v)' /\ single'[v].from <= horizon'
  <2>1. Describes(single'[v], v) /\ single'[v].from <= horizon
    BY <1>2
  <2> DEFINE file == single'[v]
  <2>2. file.from \in Int /\ horizon \in Int /\ horizon' \in Int /\ horizon' >= horizon
    BY DEF CheckpointFiles, StoreInv, StoreGrows
  <2>3. file.from <= horizon'
    BY <2>1, <2>2
  <2>4. \A f : Describes(f, v) => Describes(f, v)'
    BY DescribesStable
  <2>5. Describes(file, v)
    BY <2>1
  <2> QED BY <2>3, <2>4, <2>5
<1>3. \A v \in CkVersions : multi'[v] # {} => AllFinal(v)'
  BY <1>1
<1>4. horizon' \in Nat
  BY DEF StoreGrows
<1> QED BY <1>2, <1>3, <1>4 DEF StoreInv

\* What SnapshotInv says of a client
ClientKnows(r) ==
  /\ r.at \in {"parse", "file"} /\ ~r.changed => Known(r)
  /\ r.at = "file" => /\ ~r.changed /\ r.todo = {} /\ r.waits = {}
                      /\ ~r.m.unsupported

\* What a client knows stays right while others work.
LEMMA OthersKnow ==
  ASSUME StoreInv, StoreGrows, NEW r, ClientKnows(r)
  PROVE  ClientKnows(r)'
BY KnownStable DEF ClientKnows, StoreGrows

\* A step of the store alone
LEMMA SnapshotStoreStep ==
  ASSUME SnapshotInv, StoreGrows, StoreInv', UNCHANGED ck
  PROVE  SnapshotInv'
<1>1. ASSUME NEW c \in CkClients PROVE ClientKnows(ck[c])'
  <2>1. StoreInv /\ ClientKnows(ck[c])
    BY DEF SnapshotInv, ClientKnows
  <2>2. \A r : ClientKnows(r) => ClientKnows(r)'
    BY <2>1, OthersKnow
  <2> QED BY <2>1, <2>2
<1> QED BY <1>1 DEF SnapshotInv, ClientKnows

\* Client c goes to state r.
LEMMA SnapshotClientStep ==
  ASSUME SnapshotInv, LastInv, StoreGrows, StoreInv', NEW c \in CkClients, NEW r, Become(c, r),
         ClientKnows(r)
  PROVE  SnapshotInv'
<1>1. ck' = [ck EXCEPT ![c] = r] /\ DOMAIN ck = CkClients
  BY DEF Become, LastInv
<1>2. \A s : ClientKnows(s) => ClientKnows(s)'
  BY OthersKnow DEF SnapshotInv
<1>3. ASSUME NEW d \in CkClients PROVE ClientKnows(ck[d])'
  <2>1. CASE d = c
    <3>1. ck'[d] = r
      BY <1>1, <2>1
    <3> QED BY <1>2, <3>1
  <2>2. CASE d # c
    <3>1. ck'[d] = ck[d] /\ ClientKnows(ck[d])
      BY <1>1, <2>2 DEF SnapshotInv, ClientKnows
    <3> QED BY <1>2, <3>1
  <2> QED BY <2>1, <2>2
<1> QED BY <1>3 DEF SnapshotInv, ClientKnows

\* So does a step that leaves the store alone.
LEMMA StoreKept ==
  ASSUME StoreInv, KeepStore
  PROVE  StoreGrows /\ StoreInv'
<1>1. StoreGrows
  BY DEF StoreInv, StoreGrows, KeepStore
<1> QED BY <1>1, StoreInvStep DEF StoreInv, KeepStore

\* A client that is done, or waits to write _last_checkpoint, knows nothing.
LEMMA StoppedKnowsNothing ==
  ClientKnows([IdleClient EXCEPT !.at = "done"])
BY IdleIsClient DEF ClientKnows

\* A client stops.
LEMMA SnapshotStop ==
  ASSUME SnapshotInv, LastInv, KeepStore, NEW c \in CkClients, Stop(c)
  PROVE  SnapshotInv'
<1> DEFINE r == [IdleClient EXCEPT !.at = "done"]
<1>1. Become(c, r) /\ ClientKnows(r)
  BY StoppedKnowsNothing DEF Stop
<1>2. StoreGrows /\ StoreInv'
  BY StoreKept DEF SnapshotInv
<1> HIDE DEF r
<1> QED BY <1>1, <1>2, SnapshotClientStep

\* newest_checkpoint finds a complete one, if it finds any.
LEMMA NewestIs ==
  ASSUME NEW n \in 0..CkMax
  PROVE  /\ NewestCheckpoint(n) \in -1..n
         /\ NewestCheckpoint(n) # None => Complete(NewestCheckpoint(n))
<1> DEFINE found == {v \in 0..n : Complete(v)}
<1>1. found \in SUBSET (-1..CkMax) /\ CkMax \in Nat /\ n \in Nat
  BY CheckpointAssumption
<1>2. CASE found = {}
  BY <1>1, <1>2 DEF NewestCheckpoint, None
<1>3. CASE found # {}
  <2> DEFINE x == Max(found)
             y == CHOOSE v \in found : \A w \in found : w <= v
  <2>1. x \in found /\ \A w \in found : w <= x
    <3> HIDE DEF found
    <3> QED BY <1>1, <1>3, MaxOf
  <2>2. y \in found
    <3> HIDE DEF found, x
    <3> QED BY <2>1
  <2>3. NewestCheckpoint(n) = y
    BY <1>3 DEF NewestCheckpoint
  <2> HIDE DEF y
  <2> QED BY <1>1, <2>2, <2>3
<1> QED BY <1>2, <1>3

\* So does find_checkpoint.
LEMMA FoundIs ==
  ASSUME StoreInv, NEW v \in CkVersions
  PROVE  FindCheckpoint(v) \in -1..v
<1>1. v \in 0..CkMax /\ v \in Nat
  BY CheckpointAssumption DEF CkVersions
<1>2. NewestCheckpoint(v) \in -1..v
  BY <1>1, NewestIs
<1>3. last \in -1..CkMax /\ CkMax \in Nat
  BY CheckpointAssumption DEF StoreInv
<1> QED BY <1>1, <1>2, <1>3 DEF FindCheckpoint, None

\* A load begins.
LEMMA SnapshotStartLoad ==
  ASSUME SnapshotInv, LastInv, KeepStore, NEW c \in CkClients,
         NEW run, NEW v \in CkVersions, NEW b \in -1..v, StartLoad(c, run, v, b)
  PROVE  SnapshotInv'
<1> DEFINE r == [IdleClient EXCEPT
             !.at = "parse", !.run = run, !.version = v, !.base = b,
             !.todo = (IF b = None THEN {} ELSE {-1}) \cup FirstLog(b)..v]
<1>1. Become(c, r)
  BY DEF StartLoad
<1>2. /\ r.at = "parse" /\ r.m = EmptyManager /\ r.version = v /\ r.base = b
      /\ r.todo = (IF r.base = None THEN {} ELSE {-1}) \cup FirstLog(r.base)..r.version
      /\ r.waits = {}
  BY DEF IdleClient
<1> HIDE DEF r
<1>3. Known(r)
  BY <1>2, KnownAtStart
<1>4. ClientKnows(r)
  BY <1>2, <1>3 DEF ClientKnows
<1>5. StoreGrows /\ StoreInv'
  BY StoreKept DEF SnapshotInv
<1> QED BY <1>1, <1>4, <1>5, SnapshotClientStep

\* The steps of a load
LEMMA SnapshotLoadSteps ==
  ASSUME SnapshotInv, LastInv, NEW c \in CkClients, HeadFaults = FALSE, IsFiniteSet(Paths),
         \/ OpenTable(c) \/ CheckpointAfterCommit(c) \/ ParseCheckpoint(c)
         \/ ParseVersion(c) \/ WaitForMarker(c)
  PROVE  SnapshotInv'
<1>0. /\ IsClient(ck[c]) /\ StoreInv /\ ClientKnows(ck[c])
      /\ CkMax \in Nat
  BY CheckpointAssumption DEF LastInv, SnapshotInv, ClientKnows
<1>a. KeepStore => StoreGrows /\ StoreInv'
  BY <1>0, StoreKept
<1>1. CASE OpenTable(c)
  <2>1. PICK v \in CkVersions : IsHighest(v) /\ StartLoad(c, "open", v, NewestCheckpoint(CkMax))
    BY <1>1 DEF OpenTable
  <2> DEFINE b == NewestCheckpoint(CkMax)
  <2>2. CkMax \in 0..CkMax /\ v \in Nat /\ v <= CkMax
    BY <1>0 DEF CkVersions
  <2>3. b \in -1..CkMax /\ (b # None => Complete(b))
    BY <2>2, NewestIs
  <2> HIDE DEF b
  <2>4. CASE b = None
    <3>1. b \in -1..v
      BY <2>2, <2>4 DEF None
    <3> QED BY <1>1, <2>1, <3>1, SnapshotStartLoad DEF OpenTable, b
  <2>5. CASE b # None
    <3>1. b \in CkVersions /\ b \in 0..b
      BY <1>0, <2>3, <2>5 DEF None, CkVersions
    <3>2. Describes(FileOf(b), b)
      BY <1>0, <2>3, <2>5, <3>1, CheckpointTells
    <3>3. slot[b] = "final"
      BY <3>1, <3>2 DEF Describes, AllFinal
    <3>4. ~(b \in v + 1..CkMax)
      BY <2>1, <3>3 DEF IsHighest
    <3>5. b \in -1..v
      BY <1>0, <2>2, <2>3, <3>4
    <3> QED BY <1>1, <2>1, <3>5, SnapshotStartLoad DEF OpenTable, b
  <2> QED BY <2>4, <2>5
<1>2. CASE CheckpointAfterCommit(c)
  <2>3. PICK v \in CkVersions :
          \E base \in {FindCheckpoint(v), None} : StartLoad(c, "after", v, base)
    BY <1>2 DEF CheckpointAfterCommit
  <2>1. PICK base \in {FindCheckpoint(v), None} : StartLoad(c, "after", v, base)
    BY <2>3
  <2>2. base \in -1..v
    <3>1. None \in -1..v
      BY <1>0 DEF None, CkVersions
    <3> QED BY <1>0, <2>1, <3>1, FoundIs
  <2> QED BY <1>2, <2>1, <2>2, SnapshotStartLoad DEF CheckpointAfterCommit
<1>3. CASE ParseCheckpoint(c)
  <2>0. ck[c].at = "parse" /\ -1 \in ck[c].todo /\ KeepStore
    BY <1>3 DEF ParseCheckpoint
  <2>1. CASE Stop(c)
    BY <2>0, <2>1, SnapshotStop
  <2>2. CASE ~Stop(c)
    <3> DEFINE m == ApplyCheckpoint(ck[c].m, ck[c].base)
               r == [ck[c] EXCEPT !.todo = @ \ {-1}, !.m = m]
    <3>1. Complete(ck[c].base) /\ Become(c, r)
      BY <1>3, <2>2 DEF ParseCheckpoint
    <3> HIDE DEF m
    <3>2. /\ r.at = "parse" /\ r.changed = ck[c].changed /\ r.m = m
          /\ r.version = ck[c].version /\ r.base = ck[c].base
          /\ r.todo = ck[c].todo \ {-1} /\ r.waits = ck[c].waits
      BY <1>0, <2>0 DEF IsClient
    <3> HIDE DEF r
    <3>3. ~ck[c].changed => Known(ck[c])
      BY <1>0, <2>0 DEF ClientKnows
    <3>4. ~ck[c].changed => Known(r)
      BY <1>0, <2>0, <3>1, <3>2, <3>3, KnownCheckpoint DEF m
    <3>5. ClientKnows(r)
      BY <3>2, <3>4 DEF ClientKnows
    <3> QED BY <1>a, <2>0, <3>1, <3>5, SnapshotClientStep
  <2> QED BY <2>1, <2>2
<1>4. CASE ParseVersion(c)
  <2>1. PICK v \in ck[c].todo \ {-1} :
          /\ ck[c].at = "parse" /\ KeepStore
          /\ IF ~InLog(v) \/ (slot[v] = "marker" /\ ck[c].run = "after")
             THEN Stop(c)
             ELSE IF slot[v] = "marker"
                  THEN Become(c, [ck[c] EXCEPT !.todo = @ \ {v}, !.waits = @ \cup {v}])
                  ELSE Become(c, [ck[c] EXCEPT !.todo = @ \ {v},
                                               !.m = ApplyAll(@, commits[v], v)])
    BY <1>4 DEF ParseVersion
  <2>2. CASE Stop(c)
    BY <2>1, <2>2, SnapshotStop
  <2> DEFINE m == ApplyAll(ck[c].m, commits[v], v)
             r == [ck[c] EXCEPT !.todo = @ \ {v}, !.waits = @ \cup {v}]
             s == [ck[c] EXCEPT !.todo = @ \ {v}, !.m = m]
  <2>3. ~Stop(c) => /\ InLog(v)
                    /\ \/ slot[v] = "marker" /\ Become(c, r)
                       \/ slot[v] # "marker" /\ Become(c, s)
    BY <2>1
  <2>4. /\ r.at = "parse" /\ r.changed = ck[c].changed /\ r.m = ck[c].m
        /\ r.version = ck[c].version /\ r.base = ck[c].base
        /\ r.todo = ck[c].todo \ {v} /\ r.waits = ck[c].waits \cup {v}
    BY <1>0, <2>1 DEF IsClient
  <2> HIDE DEF m
  <2>5. /\ s.at = "parse" /\ s.changed = ck[c].changed /\ s.m = m
        /\ s.version = ck[c].version /\ s.base = ck[c].base
        /\ s.todo = ck[c].todo \ {v} /\ s.waits = ck[c].waits
    BY <1>0, <2>1 DEF IsClient
  <2> HIDE DEF r, s
  <2>6. ~ck[c].changed => Known(ck[c])
    BY <1>0, <2>1 DEF ClientKnows
  <2>7. CASE ~Stop(c) /\ slot[v] = "marker"
    <3>1. ~ck[c].changed => Known(r)
      BY <2>1, <2>4, <2>6, KnownWaits
    <3>2. ClientKnows(r)
      BY <2>4, <3>1 DEF ClientKnows
    <3> QED BY <1>a, <2>1, <2>3, <2>7, <3>2, SnapshotClientStep
  <2>8. CASE ~Stop(c) /\ slot[v] # "marker"
    <3>1. ~ck[c].changed => Known(s)
      <4> SUFFICES ASSUME ~ck[c].changed PROVE Known(s)
        OBVIOUS
      <4>1. v \in CkVersions /\ v \notin ck[c].waits
        <5>1. /\ v \in (ck[c].base + 1)..ck[c].version /\ v \notin ck[c].waits
              /\ ck[c].base \in -1..ck[c].version /\ ck[c].version \in CkVersions
          BY <2>1, <2>6 DEF Known
        <5> QED BY <1>0, <5>1 DEF CkVersions
      <4>2. slot[v] \in {"free", "marker", "final"}
        BY <1>0, <4>1 DEF StoreInv
      <4>3. slot[v] = "final"
        BY <2>3, <2>8, <4>2 DEF InLog
      <4>4. ck[c].waits = ck[c].waits \ {v}
        BY <4>1
      <4> QED BY <1>0, <2>1, <2>5, <2>6, <4>3, <4>4, KnownVersion DEF m
    <3>2. ClientKnows(s)
      BY <2>5, <3>1 DEF ClientKnows
    <3> QED BY <1>a, <2>1, <2>3, <2>8, <3>2, SnapshotClientStep
  <2> QED BY <2>2, <2>7, <2>8
<1>5. CASE WaitForMarker(c)
  <2>1. PICK v \in ck[c].waits, found \in {TRUE, ~HeadFaults} :
          /\ Loaded(c) /\ KeepStore
          /\ found => slot[v] = "final"
          /\ Become(c, [ck[c] EXCEPT !.waits = @ \ {v},
               !.m = IF found THEN ApplyAll(@, commits[v], v) ELSE @])
    BY <1>5 DEF WaitForMarker
  <2> DEFINE m == ApplyAll(ck[c].m, commits[v], v)
             s == [ck[c] EXCEPT !.waits = @ \ {v}, !.m = m]
  <2>2. slot[v] = "final" /\ Become(c, s)
    BY <2>1
  <2> HIDE DEF m
  <2>3. /\ s.at = "parse" /\ s.changed = ck[c].changed /\ s.m = m
        /\ s.version = ck[c].version /\ s.base = ck[c].base
        /\ s.todo = ck[c].todo /\ s.waits = ck[c].waits \ {v} /\ ck[c].todo = {}
    BY <1>0, <2>1 DEF IsClient, Loaded
  <2> HIDE DEF s
  <2>4. ~ck[c].changed => Known(ck[c])
    BY <1>0, <2>1 DEF ClientKnows, Loaded
  <2>5. ~ck[c].changed => Known(s)
    <3>1. s.todo = ck[c].todo \ {v}
      BY <2>3
    <3> QED BY <1>0, <2>1, <2>2, <2>3, <2>4, <3>1, KnownVersion DEF m
  <2>6. ClientKnows(s)
    BY <2>3, <2>5 DEF ClientKnows
  <2> QED BY <1>a, <2>1, <2>2, <2>6, SnapshotClientStep
<1> QED BY <1>1, <1>2, <1>3, <1>4, <1>5

\* The steps after a load: the checkpoint that is written describes its version.
LEMMA SnapshotWriteSteps ==
  ASSUME SnapshotInv, LastInv, NEW c \in CkClients,
         \/ WorkOnFile(c) \/ StartCheckpoint(c) \/ WriteFile(c) \/ ReadLast(c) \/ WriteLast(c)
  PROVE  SnapshotInv'
<1>0. /\ IsClient(ck[c]) /\ StoreInv /\ ClientKnows(ck[c])
      /\ CkMax \in Nat
  BY CheckpointAssumption DEF LastInv, SnapshotInv, ClientKnows
<1>a. KeepStore => StoreGrows /\ StoreInv'
  BY <1>0, StoreKept
<1>1. CASE WorkOnFile(c)
  <2>1. PICK p \in Paths :
          Become(c, [ck[c] EXCEPT
            !.changed = TRUE,
            !.m.files = RegisterOperation(@, p,
                          IF @[p].op = "ADD" THEN "DELETE" ELSE "ADD", FALSE)])
    BY <1>1 DEF WorkOnFile
  <2> DEFINE r == [ck[c] EXCEPT
            !.changed = TRUE,
            !.m.files = RegisterOperation(@, p,
                          IF @[p].op = "ADD" THEN "DELETE" ELSE "ADD", FALSE)]
  <2>2. r.at = "parse" /\ r.changed = TRUE
    BY <1>0, <1>1 DEF IsClient, WorkOnFile, Loaded
  <2>3. Become(c, r)
    BY <2>1
  <2> HIDE DEF r
  <2>4. ClientKnows(r)
    BY <2>2 DEF ClientKnows
  <2> QED BY <1>a, <1>1, <2>3, <2>4, SnapshotClientStep DEF WorkOnFile
<1>2. CASE StartCheckpoint(c)
  <2> DEFINE r == [ck[c] EXCEPT !.at = "file"]
  <2>1. /\ MayCheckpoint(c) /\ KeepStore
        /\ Stop(c) \/ (Writable(ck[c].m) /\ Become(c, r))
    BY <1>2 DEF StartCheckpoint
  <2>2. /\ r.at = "file" /\ r.changed = ck[c].changed /\ r.m = ck[c].m
        /\ r.version = ck[c].version /\ r.base = ck[c].base
        /\ r.todo = ck[c].todo /\ r.waits = ck[c].waits
    BY <1>0 DEF IsClient
  <2> HIDE DEF r
  <2>3. /\ ck[c].at = "parse" /\ ck[c].todo = {} /\ ck[c].waits = {} /\ ~ck[c].changed
    BY <2>1 DEF MayCheckpoint, Loaded
  <2>4. Known(ck[c])
    BY <1>0, <2>3 DEF ClientKnows
  <2>5. Known(r)
    <3>1. Applied(r) = Applied(ck[c]) /\ Based(r) = Based(ck[c])
      BY <2>2 DEF Applied, Based
    <3>2. \A p \in Paths : FileKnown(r, p)
      BY <2>2, <2>4, <3>1 DEF Known, FileKnown
    <3>3. \A k \in Properties : ValueKnown(r, k)
      BY <2>2, <2>4, <3>1 DEF Known, ValueKnown
    <3> QED BY <2>2, <2>4, <3>1, <3>2, <3>3 DEF Known
  <2>6. Writable(ck[c].m) => ClientKnows(r)
    BY <2>2, <2>3, <2>5 DEF ClientKnows, Writable
  <2> QED BY <1>a, <2>1, <2>6, SnapshotStop, SnapshotClientStep
<1>3. CASE WriteFile(c)
  <2> DEFINE v == ck[c].version
             r == [IdleClient EXCEPT !.at = "readLast", !.version = v]
             file == Content(ck[c].m)
  <2>1. /\ ck[c].at = "file" /\ UNCHANGED <<commits, slot, multi, last, horizon, cleaned>>
        /\ \/ /\ single' = IF single[v].written THEN single ELSE [single EXCEPT ![v] = file]
              /\ Become(c, r)
           \/ Stop(c) /\ UNCHANGED single
    BY <1>3 DEF WriteFile
  <2>2. r.at = "readLast"
    BY DEF IdleClient
  <2>3. v \in CkVersions
    BY <1>0 DEF IsClient
  <2>4. /\ Known(ck[c]) /\ ck[c].todo = {} /\ ck[c].waits = {} /\ ~ck[c].m.unsupported
    BY <1>0, <2>1 DEF ClientKnows
  <2> HIDE DEF r
  <2>5. CASE Stop(c) /\ UNCHANGED single
    <3>1. KeepStore
      BY <2>1, <2>5 DEF KeepStore
    <3> QED BY <2>5, <3>1, SnapshotStop
  <2>6. CASE ~(Stop(c) /\ UNCHANGED single)
    <3>1. ClientKnows(r) /\ Become(c, r)
      BY <2>1, <2>2, <2>6 DEF ClientKnows
    <3> DEFINE m == ck[c].m
    <3>2. /\ AllFinal(v)
          /\ Added(m) = {p \in Paths : LiveFile(commits, v, p)}
          /\ [k \in Properties |-> m.values[k].val]
              = [k \in Properties |-> PropertyAt(commits, v, k)]
          /\ \A p \in Tombstones(m) : RemovedFile(commits, v, p)
          /\ \A p \in Paths : RemovedFile(commits, v, p) /\ LastTouch(commits, v, p) >= horizon
              => p \in Tombstones(m) /\ m.files[p].time >= horizon
      BY <1>0, <2>4, KnownIsRight
    <3>3. m \in Managers
      BY <2>4 DEF Known
    <3> HIDE DEF m, v
    <3>4. Tombstones(m) \subseteq Paths /\ Added(m) \subseteq Paths
      BY DEF Tombstones, Added, WithOp
    <3>5. file \in CheckpointFiles
      <4>1. \A k \in Properties : m.values[k].val \in Int
        BY <3>3 DEF Managers, Values
      <4>2. horizon \in Nat
        BY <1>0 DEF StoreInv
      <4> QED BY <3>4, <4>1, <4>2 DEF Content, CheckpointFiles, m
    <3>6. Describes(file, v) /\ file.from <= horizon
      <4>1. /\ file.adds = Added(m) /\ file.removes = {p \in Tombstones(m) : m.files[p].time >= horizon}
            /\ file.values = [k \in Properties |-> m.values[k].val] /\ file.from = horizon
        BY DEF Content, m
      <4>2. horizon \in Nat
        BY <1>0 DEF StoreInv
      <4> HIDE DEF file
      <4> QED BY <3>2, <4>1, <4>2 DEF Describes
    <3> HIDE DEF file
    <3>7. StoreGrows
      BY <1>0, <2>1 DEF StoreGrows, StoreInv
    <3>8. single' = IF single[v].written THEN single ELSE [single EXCEPT ![v] = file]
      BY <2>1, <2>6
    <3>9. single' \in [CkVersions -> CheckpointFiles]
      BY <1>0, <2>3, <3>5, <3>8 DEF StoreInv, v
    <3>10. \A w \in CkVersions : single'[w].written =>
             Describes(single'[w], w) /\ single'[w].from <= horizon
      <4> SUFFICES ASSUME NEW w \in CkVersions, single'[w].written
                   PROVE  Describes(single'[w], w) /\ single'[w].from <= horizon
        OBVIOUS
      <4>1. CASE single'[w] = single[w]
        BY <1>0, <4>1 DEF StoreInv
      <4>2. CASE single'[w] # single[w]
        <5>1. w = v /\ single'[w] = file
          BY <1>0, <2>3, <3>8, <4>2 DEF StoreInv, v
        <5> QED BY <3>6, <5>1
      <4> QED BY <4>1, <4>2
    <3>11. StoreInv'
      BY <1>0, <2>1, <3>7, <3>9, <3>10, StoreInvStep DEF StoreInv
    <3> QED BY <3>1, <3>7, <3>11, SnapshotClientStep
  <2> QED BY <2>5, <2>6
<1>4. CASE ReadLast(c)
  <2>1. PICK seen \in {last, None} :
          Stop(c) \/ Become(c, [ck[c] EXCEPT !.at = "writeLast", !.etag = seen])
    BY <1>4 DEF ReadLast
  <2> DEFINE r == [ck[c] EXCEPT !.at = "writeLast", !.etag = seen]
  <2>2. r.at = "writeLast" /\ (Stop(c) \/ Become(c, r))
    BY <1>0, <2>1 DEF IsClient
  <2> HIDE DEF r
  <2>3. ClientKnows(r)
    BY <2>2 DEF ClientKnows
  <2> QED BY <1>a, <1>4, <2>2, <2>3, SnapshotStop, SnapshotClientStep DEF ReadLast
<1>5. CASE WriteLast(c)
  <2> DEFINE n == ck[c].tries + 1
             e == None
             r == [ck[c] EXCEPT !.at = "readLast", !.etag = e, !.tries = n]
             d == [IdleClient EXCEPT !.at = "done"]
  <2>1. /\ Become(c, d) \/ Become(c, r)
        /\ last' = last \/ last' = ck[c].version
        /\ UNCHANGED <<commits, slot, single, multi, horizon, cleaned>>
    BY <1>5 DEF WriteLast, Stop
  <2> HIDE DEF n, e
  <2>2. r.at = "readLast"
    BY <1>0 DEF IsClient
  <2> HIDE DEF r
  <2>3. ClientKnows(r)
    BY <2>2 DEF ClientKnows
  <2>4. ClientKnows(d)
    BY StoppedKnowsNothing
  <2> HIDE DEF d
  <2>5. last' \in -1..CkMax
    BY <1>0, <2>1 DEF StoreInv, IsClient, CkVersions
  <2>6. StoreGrows
    BY <1>0, <2>1 DEF StoreGrows, StoreInv
  <2>7. StoreInv'
    BY <1>0, <2>1, <2>5, <2>6, StoreInvStep DEF StoreInv
  <2> QED BY <2>1, <2>3, <2>4, <2>6, <2>7, SnapshotClientStep
<1> QED BY <1>1, <1>2, <1>3, <1>4, <1>5

\* The other actions on the store change no final version.
LEMMA SnapshotStoreSteps ==
  ASSUME SnapshotInv, ReserveSlot \/ FinishSlot \/ ForeignPart \/ Age \/ Cleanup
  PROVE  SnapshotInv'
<1>0. StoreInv
  BY DEF SnapshotInv
<1>1. CASE ReserveSlot
  <2>1. PICK v \in 1..CkMax, s \in {"marker", "final"} :
          /\ IsHighest(v - 1) /\ slot' = [slot EXCEPT ![v] = s]
          /\ UNCHANGED <<commits, single, multi, last, horizon, cleaned, ck>>
    BY <1>1 DEF ReserveSlot
  <2>2. v \in CkVersions /\ v \in v - 1 + 1..CkMax
    BY CheckpointAssumption DEF CkVersions
  <2>3. slot[v] = "free"
    BY <2>1, <2>2 DEF IsHighest
  <2>4. StoreGrows
    BY <1>0, <2>1, <2>3 DEF StoreGrows, StoreInv
  <2>5. slot' \in [CkVersions -> {"free", "marker", "final"}]
    BY <1>0, <2>1 DEF StoreInv
  <2>6. StoreInv'
    BY <1>0, <2>1, <2>4, <2>5, StoreInvStep DEF StoreInv
  <2> QED BY <2>1, <2>4, <2>6, SnapshotStoreStep
<1>2. CASE FinishSlot
  <2>1. PICK v \in CkVersions :
          /\ slot[v] = "marker" /\ slot' = [slot EXCEPT ![v] = "final"]
          /\ commits' \in {commits, [commits EXCEPT ![v] = <<>>]}
          /\ UNCHANGED <<single, multi, last, horizon, cleaned, ck>>
    BY <1>2 DEF FinishSlot
  <2>2. StoreGrows
    BY <1>0, <2>1 DEF StoreGrows, StoreInv
  <2>3. slot' \in [CkVersions -> {"free", "marker", "final"}]
    BY <1>0, <2>1 DEF StoreInv
  <2>9. <<>> \in Seq(LogActions)
    OBVIOUS
  <2>4. commits' \in [CkVersions -> Seq(LogActions)]
    <3>1. commits \in [CkVersions -> Seq(LogActions)]
      BY <1>0 DEF StoreInv
    <3>2. CASE commits' = commits
      BY <3>1, <3>2
    <3>3. CASE commits' = [commits EXCEPT ![v] = <<>>]
      <4> DEFINE none == <<>>
      <4>1. none \in Seq(LogActions) /\ commits' = [commits EXCEPT ![v] = none]
        BY <2>9, <3>3
      <4> HIDE DEF none
      <4> QED BY <3>1, <4>1
    <3> QED BY <2>1, <3>2, <3>3
  <2>5. OneValueEach(<<>>)
    BY DEF OneValueEach
  <2>6. \A w \in CkVersions : commits'[w] = commits[w] \/ commits'[w] = <<>>
    BY <1>0, <2>1 DEF StoreInv
  <2>7. \A w \in CkVersions : OneValueEach(commits'[w])
    BY <1>0, <2>5, <2>6 DEF StoreInv
  <2>8. StoreInv'
    BY <1>0, <2>1, <2>2, <2>3, <2>4, <2>7, StoreInvStep DEF StoreInv
  <2> QED BY <2>1, <2>2, <2>8, SnapshotStoreStep
<1>3. CASE ForeignPart
  <2>1. PICK v \in (cleaned..CkMax) \ {0} :
          /\ \A u \in 0..v : slot[u] = "final"
          /\ multi' = [multi EXCEPT ![v] = 1..(Cardinality(@) + 1)]
          /\ UNCHANGED <<commits, slot, single, last, horizon, cleaned, ck>>
    BY <1>3 DEF ForeignPart
  <2>2. StoreGrows
    BY <1>0, <2>1 DEF StoreGrows, StoreInv
  <2>3. \A w \in CkVersions : multi'[w] # {} => AllFinal(w)
    <3>1. AllFinal(v)
      BY <2>1 DEF AllFinal
    <3>2. \A w : w # v => multi'[w] = multi[w]
      BY <2>1
    <3> QED BY <1>0, <3>1, <3>2 DEF StoreInv
  <2>4. StoreInv'
    BY <1>0, <2>1, <2>2, <2>3, StoreInvStep DEF StoreInv
  <2> QED BY <2>1, <2>2, <2>4, SnapshotStoreStep
<1>4. CASE Age
  <2>1. /\ horizon = 0 /\ horizon' = Expiry /\ Expiry \in Nat
        /\ UNCHANGED <<commits, slot, single, multi, last, cleaned, ck>>
    BY <1>4, CheckpointAssumption DEF Age
  <2>2. StoreGrows
    BY <1>0, <2>1 DEF StoreGrows, StoreInv
  <2>3. StoreInv'
    BY <1>0, <2>1, <2>2, StoreInvStep DEF StoreInv
  <2> QED BY <2>1, <2>2, <2>3, SnapshotStoreStep
<1>5. CASE Cleanup
  <2>1. /\ single' = [single EXCEPT ![cleaned] = NoCheckpoint]
        /\ multi' = [multi EXCEPT ![cleaned] = {}]
        /\ UNCHANGED <<commits, slot, last, horizon, ck>>
    BY <1>5 DEF Cleanup
  <2>2. StoreGrows
    BY <1>0, <2>1 DEF StoreGrows, StoreInv
  <2>3. NoCheckpoint \in CheckpointFiles /\ ~NoCheckpoint.written
    BY DEF NoCheckpoint, CheckpointFiles, Removed
  <2>4. single' \in [CkVersions -> CheckpointFiles]
    BY <1>0, <2>1, <2>3 DEF StoreInv
  <2>5. \A w \in CkVersions : single'[w].written => single'[w] = single[w]
    BY <1>0, <2>1, <2>3 DEF StoreInv
  <2>6. \A w \in CkVersions : single'[w].written =>
          Describes(single'[w], w) /\ single'[w].from <= horizon
    BY <1>0, <2>5 DEF StoreInv
  <2>7. \A w \in CkVersions : multi'[w] # {} => AllFinal(w)
    <3>1. \A w \in CkVersions : multi'[w] # {} => multi[w] # {}
      <4>1. CASE cleaned \in DOMAIN multi
        BY <2>1, <4>1
      <4>2. CASE cleaned \notin DOMAIN multi
        BY <2>1, <4>2
      <4> QED BY <4>1, <4>2
    <3> QED BY <1>0, <3>1 DEF StoreInv
  <2>8. StoreInv'
    BY <1>0, <2>1, <2>2, <2>4, <2>6, <2>7, StoreInvStep DEF StoreInv
  <2> QED BY <2>1, <2>2, <2>8, SnapshotStoreStep
<1> QED BY <1>1, <1>2, <1>3, <1>4, <1>5

-----------------------------------------------------------------------------
\* The invariant holds in every reachable state.
LEMMA SnapshotInductive ==
  ASSUME HeadFaults = FALSE
  PROVE  CkSpec => []SnapshotInv
<1>1. CkInit => SnapshotInv
  <2> SUFFICES ASSUME CkInit PROVE SnapshotInv
    OBVIOUS
  <2>1. PICK h \in Histories : commits = [v \in CkVersions |-> h[v + 1]]
    BY DEF CkInit
  <2>2. \A v \in CkVersions : h[v + 1] \in Seq(LogActions) /\ OneValueEach(h[v + 1])
    BY HistoriesAssumption DEF CkVersions, OneValueEach
  <2>3. /\ commits \in [CkVersions -> Seq(LogActions)]
        /\ \A v \in CkVersions : OneValueEach(commits[v])
    BY <2>1, <2>2
  <2>4. NoCheckpoint \in CheckpointFiles /\ ~NoCheckpoint.written
    BY DEF NoCheckpoint, CheckpointFiles, Removed
  <2>5. /\ single \in [CkVersions -> CheckpointFiles]
        /\ \A v \in CkVersions : ~single[v].written
    BY <2>4 DEF CkInit
  <2>6. last \in -1..CkMax /\ horizon \in Nat
    BY CheckpointAssumption DEF CkInit, None
  <2>7. /\ slot \in [CkVersions -> {"free", "marker", "final"}]
        /\ \A v \in CkVersions : multi[v] = {}
    BY DEF CkInit
  <2>8. StoreInv
    BY <2>3, <2>5, <2>6, <2>7 DEF StoreInv
  <2>9. \A c \in CkClients : ck[c].at = "idle"
    BY DEF CkInit, IdleClient
  <2> QED BY <2>8, <2>9 DEF SnapshotInv
<1>2. SnapshotInv /\ LastInv /\ [CkNext]_ckVars => SnapshotInv'
  <2> SUFFICES ASSUME SnapshotInv, LastInv, [CkNext]_ckVars PROVE SnapshotInv'
    OBVIOUS
  <2>1. CASE UNCHANGED ckVars
    <3>1. KeepStore /\ UNCHANGED ck
      BY <2>1 DEF ckVars, KeepStore
    <3>2. StoreGrows /\ StoreInv'
      BY <3>1, StoreKept DEF SnapshotInv
    <3> QED BY <3>1, <3>2, SnapshotStoreStep
  <2>2. CASE CkNext
    BY <2>2, PathsAssumption, SnapshotStoreSteps, SnapshotLoadSteps, SnapshotWriteSteps DEF CkNext
  <2> QED BY <2>1, <2>2
<1> QED BY <1>1, <1>2, LastInductive, PTL DEF CkSpec

\* What load_table and load_snapshot end with is the snapshot of the version:
\* for any history, any order of the threads that apply the checkpoint and the
\* versions, any checkpoints and cleanups meanwhile, as long as a HEAD or a read
\* of a marker that fails is not taken for "no marker".
THEOREM SnapshotsAreRight ==
  ASSUME HeadFaults = FALSE
  PROVE  CkSpec => []SnapshotIsItsVersion
<1>1. SnapshotInv => SnapshotIsItsVersion
  <2> SUFFICES ASSUME SnapshotInv, NEW c \in CkClients,
                      Loaded(c), ck[c].waits = {}, ~ck[c].changed, ~ck[c].m.unsupported
               PROVE  Holds(Added(ck[c].m), [k \in Properties |-> ck[c].m.values[k].val],
                            ck[c].version)
    BY DEF SnapshotIsItsVersion
  <2>1. StoreInv /\ Known(ck[c]) /\ ck[c].todo = {}
    BY DEF SnapshotInv, Loaded
  <2> QED BY <2>1, KnownIsRight DEF Holds, AllFinal
<1> QED BY <1>1, SnapshotInductive, PTL

\* write_checkpoint writes the snapshot of the version, with the tombstones of
\* the retention and no others: for any number of clients and any history.
THEOREM CheckpointsAreRight ==
  ASSUME HeadFaults = FALSE
  PROVE  CkSpec => []CheckpointsAreSnapshots
<1>1. SnapshotInv => CheckpointsAreSnapshots
  <2> SUFFICES ASSUME SnapshotInv, NEW v \in CkVersions, single[v].written
               PROVE  /\ Holds(single[v].adds, single[v].values, v)
                      /\ LET removed == {p \in Paths : RemovedFile(commits, v, p)} IN
                         /\ single[v].removes \subseteq removed
                         /\ {p \in removed : LastTouch(commits, v, p) >= single[v].from}
                              \subseteq single[v].removes
    BY DEF CheckpointsAreSnapshots
  <2>1. Describes(single[v], v) /\ single[v] \in CheckpointFiles
    BY DEF SnapshotInv, StoreInv
  <2>2. single[v].removes \subseteq Paths
    BY <2>1 DEF CheckpointFiles
  <2> QED BY <2>1, <2>2 DEF Describes, Holds, AllFinal
<1> QED BY <1>1, SnapshotInductive, PTL

-----------------------------------------------------------------------------
(***************************************************************************)
(* create_table and drop_table, for any number of clients, crashes, lost   *)
(* responses and repeated drops.                                           *)
(*                                                                         *)
(* The order in which drop_table deletes is enough for both of its         *)
(* promises as long as a drop deletes what it lists (DeleteFaults is       *)
(* FALSE): the objects of the location are then always among those the     *)
(* drop has still to delete, except for a version 0 that was created       *)
(* meanwhile.  The latter is only possible where the history says "raced". *)
(***************************************************************************)

DropUnderWay(c) == tl[c].at = "delete" \/ (tl[c].at = "entry" /\ c \in Droppers)

\* Who creates a table does not delete, and the other way round.
Roles ==
  /\ \A c \in Creators : tl[c].at # "delete"
  /\ \A c \in Droppers : tl[c].at # "create"

\* Between the removal of an entry and the end of the creation or the drop that
\* removed it there is no entry, unless a table was created and used meanwhile
\* or a failed HEAD has made a client overlook the entry.
EntryRemoved ==
  /\ \A c \in Droppers : tl[c].at = "delete" => ~entry.present \/ overlooked
  /\ \A c \in Creators :
       tl[c].at = "create" => ~entry.present \/ "v0" \in objects \/ overlooked

\* What a drop has still to delete
DropsAll ==
  \A c \in TlClients : DropUnderWay(c) => objects \ {"v0"} \subseteq tl[c].keys

\* Data belong to a version that is deleted after them.
VersionOfData == "data" \in objects => objects \cap {"v1", "v2"} # {}

\* A version 0 among the rest of another table was created by a client that
\* had seen the location empty before.
OnlyRaces ==
  /\ CreationPending /\ objects \cap {"v1", "data"} # {} /\ "v0" \notin objects => raced
  /\ \A c \in TlClients :
       DropUnderWay(c) /\ "v0" \in objects \ tl[c].keys /\ "data" \in objects => raced

TableInv == /\ TlTypeOK /\ Roles /\ EntryRemoved
            /\ EntryIsOfThisTable /\ CreatedTableIsTheirs

DropInv == DropsAll /\ VersionOfData /\ OnlyRaces /\ NoTableWithoutItsData

-----------------------------------------------------------------------------
\* A client that has not started has a state of the right type.
LEMMA NewClientType == NewClient \in TlStates
<1>1. CreateRetries \in Nat /\ CreateRetries # 0
  BY LifecycleAssumption
<1> QED BY <1>1 DEF NewClient, TlStates, Results

\* The entry of a table, and none
LEMMA EntryTypes ==
  /\ NoEntryLeft \in [present : BOOLEAN, of : Creators \cup {Nobody}]
  /\ \A o \in Creators \cup {Nobody} :
       [present |-> TRUE, of |-> o] \in [present : BOOLEAN, of : Creators \cup {Nobody}]
BY DEF NoEntryLeft

\* TlBecome changes the state of one client.
LEMMA Becomes ==
  ASSUME TlTypeOK, NEW c \in TlClients, NEW r \in TlStates, TlBecome(c, r)
  PROVE  /\ tl' \in [TlClients -> TlStates]
         /\ tl'[c] = r
         /\ \A d \in TlClients : d # c => tl'[d] = tl[d]
BY DEF TlBecome, TlTypeOK

\* So does TlEnd.
LEMMA Ends ==
  ASSUME TlTypeOK, NEW c \in TlClients, NEW result \in Results, TlEnd(c, result)
  PROVE  /\ tl' \in [TlClients -> TlStates]
         /\ tl'[c].at = "end" /\ tl'[c].result = result
         /\ \A d \in TlClients : d # c => tl'[d] = tl[d]
<1> DEFINE r == [NewClient EXCEPT !.at = "end", !.result = result]
<1>1. r \in TlStates /\ r.at = "end" /\ r.result = result
  BY NewClientType DEF TlStates, NewClient
<1>2. TlBecome(c, r)
  BY DEF TlEnd
<1> HIDE DEF r
<1> QED BY <1>1, <1>2, Becomes

\* What a listing does: the client goes on, or it ends.
LEMMA ListForCreateStep ==
  ASSUME TlTypeOK, NEW c \in TlClients, ListForCreate(c)
  PROVE  /\ tl' \in [TlClients -> TlStates]
         /\ \A d \in TlClients : d # c => tl'[d] = tl[d]
         /\ \/ tl'[c].at = "entry" /\ tl'[c].result = tl[c].result /\ objects = {}
            \/ tl'[c].at = "end" /\ tl'[c].result # "Ok"
<1>1. CASE objects = {}
  <2> DEFINE r == [tl[c] EXCEPT !.at = "entry"]
  <2>1. r \in TlStates /\ r.at = "entry" /\ r.result = tl[c].result
    BY DEF TlTypeOK, TlStates
  <2>2. TlBecome(c, r)
    BY <1>1 DEF ListForCreate
  <2> HIDE DEF r
  <2> QED BY <1>1, <2>1, <2>2, Becomes
<1>2. CASE objects # {}
  <2>1. PICK result \in {"AlreadyExists", "NotEmpty"} : TlEnd(c, result)
    BY <1>2 DEF ListForCreate
  <2> QED BY <2>1, Ends DEF Results
<1> QED BY <1>1, <1>2

LEMMA ListForDropStep ==
  ASSUME TlTypeOK, NEW c \in TlClients, ListForDrop(c)
  PROVE  /\ tl' \in [TlClients -> TlStates]
         /\ \A d \in TlClients : d # c => tl'[d] = tl[d]
         /\ \/ tl'[c].at = "entry" /\ tl'[c].result = tl[c].result
               /\ tl'[c].keys = objects
            \/ tl'[c].at = "end" /\ tl'[c].result # "Ok"
<1>1. CASE objects \cap LogKeys # {}
  <2> DEFINE r == [tl[c] EXCEPT !.at = "entry", !.keys = objects]
  <2>1. /\ r \in TlStates /\ r.at = "entry" /\ r.result = tl[c].result
        /\ r.keys = objects
    BY DEF TlTypeOK, TlStates
  <2>2. TlBecome(c, r)
    BY <1>1 DEF ListForDrop
  <2> HIDE DEF r
  <2> QED BY <1>1, <2>1, <2>2, Becomes
<1>2. CASE objects \cap LogKeys = {}
  <2>1. PICK result \in {"NotFound", "NotEmpty"} : TlEnd(c, result)
    BY <1>2 DEF ListForDrop
  <2> QED BY <2>1, Ends DEF Results
<1> QED BY <1>1, <1>2

\* The entry of the table is gone or overlooked, or the client ends.
LEMMA UpdateEntryStep ==
  ASSUME TlTypeOK, NEW c \in TlClients, UpdateEntry(c)
  PROVE  /\ tl' \in [TlClients -> TlStates]
         /\ \A d \in TlClients : d # c => tl'[d] = tl[d]
         /\ \/ /\ \/ entry' = NoEntryLeft /\ overlooked' = FALSE
                  \/ entry' = entry /\ overlooked' = entry.present
               /\ tl'[c].at = IF c \in Creators THEN "create" ELSE "delete"
               /\ tl'[c].result = tl[c].result /\ tl'[c].keys = tl[c].keys
            \/ /\ tl'[c].at = "end" /\ tl'[c].result # "Ok"
               /\ entry' = entry /\ overlooked' = overlooked
<1> DEFINE r == [tl[c] EXCEPT !.at = IF c \in Creators THEN "create" ELSE "delete"]
<1>1. CASE /\ TlBecome(c, r)
           /\ \/ entry' = NoEntryLeft /\ overlooked' = FALSE
              \/ entry' = entry /\ overlooked' = entry.present
  <2>1. /\ r \in TlStates /\ r.result = tl[c].result /\ r.keys = tl[c].keys
        /\ r.at = IF c \in Creators THEN "create" ELSE "delete"
    BY DEF TlTypeOK, TlStates
  <2> HIDE DEF r
  <2> QED BY <1>1, <2>1, Becomes
<1>2. CASE TlEnd(c, "Error") /\ entry' = entry /\ overlooked' = overlooked
  BY <1>2, Ends DEF Results
<1> QED BY <1>1, <1>2 DEF UpdateEntry, WithoutEntry

\* Version 0 is written at most if it is free; who is told Ok has written it.
LEMMA WriteVersion0Step ==
  ASSUME TlTypeOK, NEW c \in TlClients, WriteVersion0(c)
  PROVE  /\ tl' \in [TlClients -> TlStates]
         /\ \A d \in TlClients : d # c => tl'[d] = tl[d]
         /\ tl'[c].at \in {"create", "end"}
         /\ \/ objects' = objects /\ owner' = owner
            \/ "v0" \notin objects /\ objects' = objects \cup {"v0"} /\ owner' = c
         /\ tl'[c].result = "Ok" =>
              tl[c].result = "Ok" \/ ("v0" \in objects' /\ owner' = c)
<1>1. PICK answered \in BOOLEAN, arrives \in BOOLEAN :
        /\ answered => arrives
        /\ IF arrives /\ "v0" \notin objects
           THEN objects' = objects \cup {"v0"} /\ owner' = c
           ELSE UNCHANGED <<objects, owner>>
        /\ IF answered
           THEN TlEnd(c, IF "v0" \notin objects \/ FindsItsOwn(c) THEN "Ok"
                         ELSE "AlreadyExists")
           ELSE IF GivesUp(c) THEN TlEnd(c, "Error")
           ELSE TlBecome(c, [tl[c] EXCEPT !.uncertain = TRUE, !.tries = @ + 1])
  BY DEF WriteVersion0
<1>2. tl[c].at = "create"
  BY DEF WriteVersion0
<1>3. CASE ~answered /\ ~GivesUp(c)
  <2> DEFINE r == [tl[c] EXCEPT !.uncertain = TRUE, !.tries = @ + 1]
  <2>1. CreateRetries \in Nat /\ tl[c].tries \in 0..(CreateRetries - 1)
    BY LifecycleAssumption DEF TlTypeOK, TlStates
  <2>2. tl[c].tries + 1 \in 0..(CreateRetries - 1)
    BY <2>1, <1>3 DEF GivesUp
  <2>3. r \in TlStates /\ r.at = "create" /\ r.result = tl[c].result
    BY <1>2, <2>2 DEF TlTypeOK, TlStates
  <2>4. TlBecome(c, r)
    BY <1>1, <1>3
  <2> HIDE DEF r
  <2> QED BY <1>1, <2>3, <2>4, Becomes
<1>4. CASE ~answered /\ GivesUp(c)
  <2>1. TlEnd(c, "Error")
    BY <1>1, <1>4
  <2> QED BY <1>1, <2>1, Ends DEF Results
<1>5. CASE answered
  <2>1. PICK result \in {"Ok", "AlreadyExists"} :
          /\ TlEnd(c, result)
          /\ result = "Ok" => "v0" \in objects' /\ owner' = c
    BY <1>1, <1>5 DEF FindsItsOwn
  <2> QED BY <1>1, <2>1, Ends DEF Results
<1> QED BY <1>3, <1>4, <1>5

\* One of the objects that go next is deleted, or cannot be deleted.
LEMMA DeleteNextStep ==
  ASSUME TlTypeOK, NEW c \in TlClients, DeleteNext(c)
  PROVE  \E k \in tl[c].keys, ok \in {TRUE, ~DeleteFaults} :
           /\ \A other \in tl[c].keys : Rank(k) <= Rank(other)
           /\ tl' \in [TlClients -> TlStates]
           /\ \A d \in TlClients : d # c => tl'[d] = tl[d]
           /\ tl[c].at = "delete" /\ tl'[c].at = "delete"
           /\ tl'[c].keys = tl[c].keys \ {k} /\ tl'[c].result = tl[c].result
           /\ objects' = IF ok THEN objects \ {k} ELSE objects
           /\ dropped' = IF ok /\ k = "v0" /\ "v0" \in objects
                         THEN dropped \cup {owner} ELSE dropped
           /\ ok /\ k = "v0" /\ CreationPending => raced'
           /\ raced => raced'
<1>1. PICK k \in tl[c].keys, ok \in {TRUE, ~DeleteFaults} :
        /\ \A other \in tl[c].keys : Rank(k) <= Rank(other)
        /\ TlBecome(c, [tl[c] EXCEPT !.keys = @ \ {k},
                                     !.failed = IF ok THEN @ ELSE TRUE])
        /\ objects' = IF ok THEN objects \ {k} ELSE objects
        /\ dropped' = IF ok /\ k = "v0" /\ "v0" \in objects
                      THEN dropped \cup {owner} ELSE dropped
        /\ raced' = (raced \/ (ok /\ k = "v0" /\ CreationPending))
  BY DEF DeleteNext
<1> DEFINE r == [tl[c] EXCEPT !.keys = @ \ {k}, !.failed = IF ok THEN @ ELSE TRUE]
<1>2. tl[c].at = "delete"
  BY DEF DeleteNext
<1>3. /\ r \in TlStates /\ r.at = "delete" /\ r.keys = tl[c].keys \ {k}
      /\ r.result = tl[c].result
  BY <1>2 DEF TlTypeOK, TlStates
<1>4. TlBecome(c, r)
  BY <1>1
<1>5. raced => raced'
  BY <1>1
<1>6. ok /\ k = "v0" /\ CreationPending => raced'
  BY <1>1
<1> HIDE DEF r
<1>7. /\ tl' \in [TlClients -> TlStates] /\ tl'[c] = r
      /\ \A d \in TlClients : d # c => tl'[d] = tl[d]
  BY <1>3, <1>4, Becomes
<1> QED BY <1>1, <1>2, <1>3, <1>5, <1>6, <1>7

\* A drop is done, a client crashes, a drop is started again: nothing but the
\* state of the client changes.
LEMMA DropEndsStep ==
  ASSUME TlTypeOK, NEW c \in TlClients, DropEnds(c)
  PROVE  /\ tl' \in [TlClients -> TlStates]
         /\ \A d \in TlClients : d # c => tl'[d] = tl[d]
         /\ tl[c].at = "delete" /\ tl'[c].at = "end"
<1>1. PICK result \in {"Error", "Ok"} : TlEnd(c, result)
  BY DEF DropEnds
<1> QED BY <1>1, Ends DEF Results, DropEnds

LEMMA TlCrashStep ==
  ASSUME TlTypeOK, NEW c \in TlClients, TlCrash(c)
  PROVE  /\ tl' \in [TlClients -> TlStates]
         /\ \A d \in TlClients : d # c => tl'[d] = tl[d]
         /\ tl'[c].at = "end" /\ tl'[c].result = "Crashed"
BY Ends DEF TlCrash, Results

LEMMA AgainStep ==
  ASSUME TlTypeOK, NEW c \in TlClients, Again(c)
  PROVE  /\ tl' \in [TlClients -> TlStates]
         /\ \A d \in TlClients : d # c => tl'[d] = tl[d]
         /\ tl'[c].at = "list" /\ tl'[c].result = "Running"
<1>1. /\ [NewClient EXCEPT !.at = "list"] = NewClient
      /\ NewClient.at = "list" /\ NewClient.result = "Running"
  BY DEF NewClient
<1>2. TlBecome(c, NewClient)
  BY <1>1 DEF Again
<1> QED BY <1>1, <1>2, NewClientType, Becomes

-----------------------------------------------------------------------------
\* The invariant of creations and entries holds in every reachable state.
LEMMA TableInductive == TlSpec => []TableInv
<1>1. TlInit => TableInv
  <2> SUFFICES ASSUME TlInit PROVE TableInv
    OBVIOUS
  <2>1. \A c \in TlClients : tl[c] = NewClient
    BY DEF TlInit
  <2>2. NewClient.at = "list" /\ NewClient.result = "Running"
    BY DEF NewClient
  <2>3. TlTypeOK
    <3>1. tl \in [TlClients -> TlStates]
      BY NewClientType DEF TlInit
    <3>2. entry \in [present : BOOLEAN, of : Creators \cup {Nobody}]
      BY EntryTypes DEF TlInit
    <3>3. objects \subseteq ObjectNames
      BY LocationsAssumption DEF TlInit
    <3> QED BY <3>1, <3>2, <3>3 DEF TlInit, TlTypeOK
  <2> QED BY <2>1, <2>2, <2>3
       DEF TlInit, TableInv, Roles, EntryRemoved, EntryIsOfThisTable,
           CreatedTableIsTheirs, NoEntryLeft, TlClients
<1>2. TableInv /\ [TlNext]_tlVars => TableInv'
  <2> SUFFICES ASSUME TableInv, [TlNext]_tlVars PROVE TableInv'
    OBVIOUS
  <2> USE LifecycleAssumption
          DEF TableInv, Roles, EntryRemoved, EntryIsOfThisTable,
              CreatedTableIsTheirs, TlClients
  <2>1. ASSUME NEW c \in TlClients, ListForCreate(c) PROVE TableInv'
    <3>1. c \in Creators /\ UNCHANGED <<objects, owner, entry, dropped, raced, overlooked>>
      BY <2>1 DEF ListForCreate
    <3> QED BY <2>1, <3>1, ListForCreateStep DEF TlTypeOK
  <2>2. ASSUME NEW c \in TlClients, ListForDrop(c) PROVE TableInv'
    <3>1. c \in Droppers /\ UNCHANGED <<objects, owner, entry, dropped, raced, overlooked>>
      BY <2>2 DEF ListForDrop
    <3> QED BY <2>2, <3>1, ListForDropStep DEF TlTypeOK
  <2>3. ASSUME NEW c \in TlClients, UpdateEntry(c) PROVE TableInv'
    <3>1. tl[c].at = "entry" /\ UNCHANGED <<objects, owner, dropped, raced>>
      BY <2>3 DEF UpdateEntry
    <3>2. TlTypeOK'
      BY <2>3, <3>1, UpdateEntryStep, EntryTypes DEF TlTypeOK
    <3>5. Roles'
      BY <2>3, <3>1, UpdateEntryStep
    <3>3. EntryRemoved' /\ EntryIsOfThisTable'
      <4>1. CASE \/ entry' = NoEntryLeft
                 \/ entry' = entry /\ overlooked' = entry.present
        <5>1. ~entry'.present \/ overlooked'
          BY <4>1 DEF NoEntryLeft
        <5> QED BY <5>1
      <4>2. CASE tl'[c].at = "end" /\ entry' = entry /\ overlooked' = overlooked
        <5>1. UNCHANGED <<objects, owner>>
          BY <3>1
        <5>2. \A d \in TlClients : d # c => tl'[d] = tl[d]
          BY <2>3, <3>1, UpdateEntryStep
        <5> QED BY <4>2, <5>1, <5>2
      <4> QED BY <2>3, <3>1, <4>1, <4>2, UpdateEntryStep
    <3>4. CreatedTableIsTheirs'
      BY <2>3, <3>1, UpdateEntryStep
    <3> QED BY <3>2, <3>3, <3>4, <3>5
  <2>4. ASSUME NEW c \in TlClients, WriteVersion0(c) PROVE TableInv'
    <3>1. tl[c].at = "create" /\ UNCHANGED <<entry, dropped, raced, overlooked>>
      BY <2>4 DEF WriteVersion0
    <3>2. c \in Creators
      BY <3>1
    <3>3. /\ tl' \in [TlClients -> TlStates]
          /\ \A d \in TlClients : d # c => tl'[d] = tl[d]
          /\ tl'[c].at \in {"create", "end"}
          /\ \/ objects' = objects /\ owner' = owner
             \/ "v0" \notin objects /\ objects' = objects \cup {"v0"} /\ owner' = c
      BY <2>4, WriteVersion0Step
    <3>4. TlTypeOK'
      BY <3>1, <3>2, <3>3 DEF TlTypeOK, ObjectNames
    <3>5. Roles' /\ EntryRemoved'
      BY <3>1, <3>2, <3>3
    <3>6. EntryIsOfThisTable'
      BY <3>1, <3>2, <3>3
    <3>7. CreatedTableIsTheirs'
      BY <2>4, <3>1, <3>2, WriteVersion0Step
    <3> QED BY <3>4, <3>5, <3>6, <3>7
  <2>5. ASSUME NEW c \in TlClients, DeleteNext(c) PROVE TableInv'
    <3>1. raced' \in BOOLEAN /\ UNCHANGED <<owner, entry, overlooked>>
      BY <2>5 DEF DeleteNext
    <3> QED BY <2>5, <3>1, DeleteNextStep DEF TlTypeOK
  <2>6. ASSUME NEW c \in TlClients, DropEnds(c) PROVE TableInv'
    <3>1. UNCHANGED <<objects, owner, entry, dropped, raced, overlooked>>
      BY <2>6 DEF DropEnds
    <3> QED BY <2>6, <3>1, DropEndsStep DEF TlTypeOK
  <2>7. ASSUME NEW c \in TlClients, TlCrash(c) PROVE TableInv'
    <3>1. UNCHANGED <<objects, owner, entry, dropped, raced, overlooked>>
      BY <2>7 DEF TlCrash
    <3> QED BY <2>7, <3>1, TlCrashStep DEF TlTypeOK
  <2>8. ASSUME NEW c \in TlClients, Again(c) PROVE TableInv'
    <3>1. UNCHANGED <<objects, owner, entry, dropped, raced, overlooked>>
      BY <2>8 DEF Again
    <3> QED BY <2>8, <3>1, AgainStep DEF TlTypeOK
  <2>9. CASE CommitToTable
    <3>1. /\ "v0" \in objects /\ "v0" \in objects' /\ UNCHANGED <<owner, tl, dropped, raced>>
          /\ \A c \in Droppers : tl[c].at # "delete"
          /\ objects' = objects \cup {"v1", "data"}
      BY <2>9 DEF CommitToTable
    <3>2. CASE entry' = [present |-> TRUE, of |-> owner] /\ overlooked' = FALSE
      BY <3>1, <3>2, EntryTypes DEF TlTypeOK, ObjectNames
    <3>3. CASE UNCHANGED <<entry, overlooked>>
      BY <3>1, <3>3 DEF TlTypeOK, ObjectNames
    <3> QED BY <2>9, <3>2, <3>3 DEF CommitToTable
  <2>10. CASE UNCHANGED tlVars
    BY <2>10 DEF tlVars, TlTypeOK
  <2> QED BY <2>1, <2>2, <2>3, <2>4, <2>5, <2>6, <2>7, <2>8, <2>9, <2>10 DEF TlNext
<1> QED BY <1>1, <1>2, PTL DEF TlSpec

\* drop_table deletes what a reader needs first, and the log after the data.
LEMMA Ranks ==
  /\ Rank("last") = 0 /\ Rank("ckpt1") = 1 /\ Rank("v0") = 2
  /\ Rank("data") = 3 /\ Rank("other") = 3 /\ Rank("v1") = 4 /\ Rank("v2") = 4
BY DEF Rank

\* Deleting the next object keeps DropInv, as the deletes do not fail: at the
\* data the checkpoint and version 0 are gone (or a race was noted), at the
\* log the data are.
LEMMA DeleteNextDropInv ==
  ASSUME DeleteFaults = FALSE, TableInv, DropInv, NEW c \in TlClients, DeleteNext(c)
  PROVE  DropInv'
<1>1. TlTypeOK /\ tl[c].at = "delete" /\ DropUnderWay(c)
  BY DEF TableInv, DeleteNext, DropUnderWay
<1>2. PICK k \in tl[c].keys :
        /\ \A other \in tl[c].keys : Rank(k) <= Rank(other)
        /\ \A d \in TlClients : d # c => tl'[d] = tl[d]
        /\ tl'[c].at = "delete" /\ tl'[c].keys = tl[c].keys \ {k}
        /\ objects' = objects \ {k}
        /\ k = "v0" /\ CreationPending => raced'
        /\ raced => raced'
  BY <1>1, DeleteNextStep
<1>3. objects \ {"v0"} \subseteq tl[c].keys
  BY <1>1 DEF DropInv, DropsAll
<1>4. DropsAll'
  BY <1>1, <1>2 DEF DropInv, DropsAll, DropUnderWay
<1>5. VersionOfData'
  <2>1. k = "v1" \/ k = "v2" => "data" \notin objects
    BY <1>2, <1>3, Ranks
  <2> QED BY <1>2, <2>1 DEF DropInv, VersionOfData
<1>6. CreationPending' => CreationPending
  BY <1>1, <1>2 DEF CreationPending, TlClients
<1>7. OnlyRaces'
  <2>1. CreationPending' /\ objects' \cap {"v1", "data"} # {} /\ "v0" \notin objects' => raced'
    BY <1>2, <1>6 DEF DropInv, OnlyRaces
  <2>2. ASSUME NEW d \in TlClients, DropUnderWay(d)',
               "v0" \in objects' \ tl'[d].keys, "data" \in objects'
        PROVE  raced'
    BY <1>1, <1>2, <2>2 DEF DropInv, OnlyRaces, DropUnderWay
  <2> QED BY <2>1, <2>2 DEF OnlyRaces
<1>8. NoTableWithoutItsData'
  <2> SUFFICES ASSUME Readable', ~raced', ~HasData' PROVE FALSE
    BY DEF NoTableWithoutItsData
  <2>1. "ckpt1" \in objects' \/ ("v0" \in objects' /\ "v1" \in objects')
    BY DEF Readable, HasData
  <2>2. "data" \in objects /\ k = "data"
    BY <1>2, <2>1 DEF Readable, HasData, DropInv, NoTableWithoutItsData
  <2>3. "ckpt1" \notin tl[c].keys /\ "v0" \notin tl[c].keys
    BY <1>2, <2>2, Ranks
  <2> QED BY <1>1, <1>2, <1>3, <2>1, <2>2, <2>3 DEF DropInv, OnlyRaces
<1> QED BY <1>4, <1>5, <1>7, <1>8 DEF DropInv

\* The invariant of drops holds in every reachable state.
LEMMA DropInductive ==
  ASSUME DeleteFaults = FALSE
  PROVE  TlSpec => []DropInv
<1>1. TlInit => DropInv
  <2> SUFFICES ASSUME TlInit PROVE DropInv
    OBVIOUS
  <2>1. \A c \in TlClients : tl[c].at = "list"
    BY DEF TlInit, NewClient
  <2>2. DropsAll /\ OnlyRaces
    BY <2>1 DEF DropsAll, OnlyRaces, DropUnderWay, CreationPending, TlClients
  <2>3. VersionOfData
    BY LocationsAssumption DEF TlInit, VersionOfData
  <2>4. NoTableWithoutItsData
    BY LocationsAssumption DEF TlInit, NoTableWithoutItsData, Readable, HasData
  <2> QED BY <2>2, <2>3, <2>4 DEF DropInv
<1>2. TableInv /\ DropInv /\ [TlNext]_tlVars => DropInv'
  <2> SUFFICES ASSUME TableInv, DropInv, [TlNext]_tlVars PROVE DropInv'
    OBVIOUS
  <2>0. TlTypeOK /\ Roles
    BY DEF TableInv
  <2> USE LifecycleAssumption
          DEF DropInv, DropsAll, VersionOfData, OnlyRaces, NoTableWithoutItsData,
              Readable, HasData, CreationPending, DropUnderWay, TlClients
  <2>1. ASSUME NEW c \in TlClients, ListForCreate(c) PROVE DropInv'
    <3>1. c \in Creators /\ UNCHANGED <<objects, raced>>
      BY <2>1 DEF ListForCreate
    <3>2. c \notin Droppers
      BY <3>1
    <3> QED BY <2>0, <2>1, <3>1, <3>2, ListForCreateStep
  <2>2. ASSUME NEW c \in TlClients, ListForDrop(c) PROVE DropInv'
    <3>1. c \in Droppers /\ UNCHANGED <<objects, raced>>
      BY <2>2 DEF ListForDrop
    <3>2. c \notin Creators
      BY <3>1
    <3> QED BY <2>0, <2>2, <3>1, <3>2, ListForDropStep
  <2>3. ASSUME NEW c \in TlClients, UpdateEntry(c) PROVE DropInv'
    <3>1. tl[c].at = "entry" /\ UNCHANGED <<objects, raced>>
      BY <2>3 DEF UpdateEntry
    <3> QED BY <2>0, <2>3, <3>1, UpdateEntryStep
  <2>4. ASSUME NEW c \in TlClients, WriteVersion0(c) PROVE DropInv'
    <3>1. tl[c].at = "create" /\ c \in Creators /\ UNCHANGED raced
      BY <2>4, <2>0 DEF WriteVersion0, Roles
    <3>2. \/ objects' = objects
          \/ "v0" \notin objects /\ objects' = objects \cup {"v0"}
      BY <2>0, <2>4, WriteVersion0Step
    <3>3. /\ tl'[c].at \in {"create", "end"}
          /\ \A d \in TlClients : d # c => tl'[d] = tl[d]
      BY <2>0, <2>4, WriteVersion0Step
    <3> QED BY <3>1, <3>2, <3>3
  <2>5. ASSUME NEW c \in TlClients, DeleteNext(c) PROVE DropInv'
    BY <2>5, DeleteNextDropInv
  <2>6. ASSUME NEW c \in TlClients, DropEnds(c) PROVE DropInv'
    <3>1. UNCHANGED <<objects, raced>>
      BY <2>6 DEF DropEnds
    <3> QED BY <2>0, <2>6, <3>1, DropEndsStep
  <2>7. ASSUME NEW c \in TlClients, TlCrash(c) PROVE DropInv'
    <3>1. UNCHANGED <<objects, raced>>
      BY <2>7 DEF TlCrash
    <3> QED BY <2>0, <2>7, <3>1, TlCrashStep
  <2>8. ASSUME NEW c \in TlClients, Again(c) PROVE DropInv'
    <3>1. UNCHANGED <<objects, raced>>
      BY <2>8 DEF Again
    <3> QED BY <2>0, <2>8, <3>1, AgainStep
  <2>9. CASE CommitToTable
    <3>1. \A c \in TlClients : ~DropUnderWay(c)
      BY <2>9, <2>0 DEF CommitToTable, Roles
    <3> QED BY <2>9, <3>1 DEF CommitToTable
  <2>10. CASE UNCHANGED tlVars
    BY <2>10 DEF tlVars
  <2> QED BY <2>1, <2>2, <2>3, <2>4, <2>5, <2>6, <2>7, <2>8, <2>9, <2>10 DEF TlNext
<1> QED BY <1>1, <1>2, TableInductive, PTL DEF TlSpec

-----------------------------------------------------------------------------
\* drop_table's order of deletion: whatever crashes and is started again, a
\* table that can still be read has its data.
THEOREM DropHidesTheTableFirst ==
  ASSUME DeleteFaults = FALSE
  PROVE  TlSpec => []NoTableWithoutItsData
<1>1. DropInv => NoTableWithoutItsData
  BY DEF DropInv
<1> QED BY <1>1, DropInductive, PTL

\* As long as there are data files, drop_table still finds a log to list them by.
THEOREM DropsAreRepeatable ==
  ASSUME DeleteFaults = FALSE
  PROVE  TlSpec => []DropCanBeCompleted
<1>1. DropInv => DropCanBeCompleted
  BY DEF DropInv, VersionOfData, DropCanBeCompleted, LogKeys, ObjectNames
<1> QED BY <1>1, DropInductive, PTL

\* create_table, whose response may be lost: who is told Ok has the table.
THEOREM CreationHasOneWinner == TlSpec => []CreatedTableIsTheirs
<1>1. TableInv => CreatedTableIsTheirs
  BY DEF TableInv
<1> QED BY <1>1, TableInductive, PTL

\* create_table and drop_table, whoever else creates, drops, crashes or starts
\* again between their requests: an entry of an earlier table is only left by a
\* client whose HEAD of the global log failed, and until the next removal.
THEOREM NoEntryIsStale == TlSpec => []EntryIsOfThisTable
<1>1. TableInv => EntryIsOfThisTable
  BY DEF TableInv
<1> QED BY <1>1, TableInductive, PTL
=============================================================================
