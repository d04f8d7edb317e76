------------------------------- MODULE SubLog -------------------------------
(***************************************************************************)
(* Level 0 of a transaction on one table: the operations of the client are *)
(* executed at once (explicit logging) or only noted by key in sublog      *)
(* objects (implicit logging, as soon as the marker of a concurrent        *)
(* transaction was seen) and executed by redo() at commit, against a       *)
(* snapshot that meanwhile holds the other transaction's commit.           *)
(*                                                                         *)
(* A data file is a set of rows.  The value of a row is the sequence of    *)
(* the operations applied to it, so that a lost, repeated or misdirected   *)
(* update shows.  Sublog step n is the object 00<n>.sub.                   *)
(***************************************************************************)
EXTENDS Naturals, Sequences, FiniteSets, SequencesExt

CONSTANTS Keys,        \* keys of the table's first column
          Layouts,     \* the tables to start from: sequences of files, sets of keys
          ClientOps,   \* the operations of the client
          MaxOps,      \* bound: operations of the transaction
          MaxOthers,   \* bound: commits of the concurrent transaction
          MaxFaults    \* bound: sublog objects that cannot be written

ASSUME SubLogAssumption ==
  /\ Keys # {} /\ Layouts \subseteq Seq(SUBSET Keys)
  /\ ClientOps \subseteq {"update", "updateInThreads", "insert", "delete"}
  /\ MaxOps \in Nat /\ MaxOthers \in Nat /\ MaxFaults \in Nat

VARIABLES files,       \* the data files in the order they were written
          base,        \* the files of the newest version of the table
          live,        \* table.delta_log: the files the transaction sees
          created,     \* table.created_files: file -> "none", "valid", "invalid"
          deleted,     \* table.deleted_files
          explicitLog, updateVals, updateOps, sublog,
          op,          \* the running operation
          todo,        \* what its two threads have left to do
          targets,     \* the files its removing thread has found
          at, foundKey, foundFiles, retired, redoOk,   \* redo()
          phase,
          performed, executed, lateSwitch, others, sublogFaults   \* history

fileVars == <<files, base, live, created, deleted>>
logVars == <<updateVals, updateOps, sublog, sublogFaults>>
opVars == <<op, todo, targets>>
redoVars == <<at, foundKey, foundFiles, retired, redoOk>>
historyVars == <<performed, executed, lateSwitch, others>>
subVars == <<fileVars, explicitLog, logVars, opVars, redoVars, phase, historyVars>>

-----------------------------------------------------------------------------
NoOp == [kind |-> "none", key |-> CHOOSE k \in Keys : TRUE, id |-> 0, read |-> {}]
NoUpdate == 0    \* UINT32_MAX as the id of an update

Row(k, v) == [key |-> k, val |-> v]
DataFile(rows, update) == [rows |-> rows, update |-> update]
HasKey(f, k) == \E r \in files[f].rows : r.key = k
KeyRows(S, k) == UNION {{r \in files[f].rows : r.key = k} : f \in S}

\* find_key_files: the files with rows of the key, except those that the same
\* update wrote
FindKeyFiles(k, update) ==
  {f \in live : HasKey(f, k) /\ (update = NoUpdate \/ files[f].update # update)}

\* build_string_col, build_int_col: the operation applied to every row of the
\* key; values and operation are looked up by the same index.
Updated(rows, val, operation) ==
  {Row(r.key, Append(r.val, IF val = operation THEN val ELSE 0)) : r \in rows}

\* register_created_file and register_deleted_file
EntryOf(which, f) == IF f \in DOMAIN which THEN which[f] ELSE "none"
WithEntries(which, S, state) ==
  [f \in (DOMAIN which) \cup S |-> IF f \in S THEN state ELSE which[f]]
Invalidated(which, S) ==
  [f \in DOMAIN which |-> IF f \in S THEN "invalid" ELSE which[f]]

\* Mutant: the other rows of a file are forgotten.
NoRestFiles(S, k) == <<>>

\* The files that are written for S when its rows of key k are removed: a file
\* that holds other rows is replaced by one with the rest of them.
RestFiles(S, k) ==
  LET mixed == SetToSeq({f \in S : \E r \in files[f].rows : r.key # k})
  IN [i \in DOMAIN mixed |->
        DataFile({r \in files[mixed[i]].rows : r.key # k}, NoUpdate)]

\* new_data_file_path: n paths that no file has.  Mutant: one is skipped.
SkippingFileIds(n) == (Len(files) + 2)..(Len(files) + n + 1)
NewFileIds(n) == (Len(files) + 1)..(Len(files) + n)

\* Files in 'new' are written and registered, the rows of key k in S removed.
ReplaceRows(S, k, new) ==
  LET written == RestFiles(S, k) \o new
      ids == NewFileIds(Len(written))
  IN /\ files' = files \o written
     /\ live' = (live \ S) \cup ids
     /\ created' = WithEntries(Invalidated(created, S), ids, "valid")
     /\ deleted' = WithEntries(deleted, S, "valid")

-----------------------------------------------------------------------------
(* Logging a step *)

Step(command, k, f, i) == [command |-> command, key |-> k, file |-> f, index |-> i]
NoStep == Step("missing", NoOp.key, 0, 0)

\* write_sublog: the step number is taken in any case; when the storage retries
\* are used up the object is missing, which nobody who logs a step looks at.
LogSteps(steps) ==
  \/ /\ sublog' = sublog \o steps
     /\ UNCHANGED sublogFaults
  \/ /\ steps # <<>> /\ sublogFaults < MaxFaults
     /\ sublogFaults' = sublogFaults + 1
     /\ \E i \in DOMAIN steps : sublog' = sublog \o [steps EXCEPT ![i] = NoStep]

\* Mutant: one past the last registered update
NextUpdate == Len(updateVals) + 1

\* add_substep_implicit for an ADD: the last registered update
LastUpdate == Len(updateVals)
\* READ of a key: the search is logged when logging is implicit.
ReadStep(k, f) == IF explicitLog THEN Step("r", k, f, 0) ELSE Step("s", k, 0, 0)

-----------------------------------------------------------------------------
(* The client's operations *)

Ready == phase = "work" /\ op = NoOp
NextId == Len(performed) + 1

Start(kind, k, read) ==
  /\ op' = [kind |-> kind, key |-> k, id |-> NextId, read |-> read]
  /\ performed' = Append(performed, [kind |-> kind, key |-> k, id |-> NextId])
  /\ executed' = IF explicitLog /\ kind # "insert" THEN executed \cup {NextId}
                 ELSE executed
  /\ targets' = {}

\* An update begins: the row is read, the values are registered and the row is
\* to be removed and added, one after the other or in two threads.
BeginUpdate(kind, k) ==
  LET found == FindKeyFiles(k, NoUpdate) IN
  /\ Ready /\ NextId <= MaxOps
  /\ found # {}
  /\ \E f \in found : LogSteps(<<ReadStep(k, f)>>)
  /\ updateVals' = Append(updateVals, NextId)
  /\ updateOps' = IF explicitLog THEN updateOps ELSE Append(updateOps, NextId)
  /\ Start(kind, k, KeyRows(found, k))
  /\ todo' = IF kind = "update"
             THEN [remover |-> <<"find", "remove", "add">>, adder |-> <<>>]
             ELSE [remover |-> <<"find", "remove">>, adder |-> <<"add">>]
  /\ UNCHANGED <<fileVars, explicitLog, redoVars, phase, lateSwitch, others>>

\* remove_file(key): without a key to remove, nothing is done or logged.
BeginDelete(k) ==
  /\ Ready /\ NextId <= MaxOps
  /\ FindKeyFiles(k, NoUpdate) # {}
  /\ Start("delete", k, {})
  /\ todo' = [remover |-> <<"find", "remove">>, adder |-> <<>>]
  /\ UNCHANGED <<fileVars, explicitLog, logVars, redoVars, phase, lateSwitch, others>>

\* add_file(table, key) without an update: the file is written at once, in both
\* kinds of logging, and logged by its path.
Insert(k) ==
  LET f == Len(files) + 1 IN
  /\ Ready /\ NextId <= MaxOps
  /\ KeyRows(live, k) = {}
  /\ ReplaceRows({}, k, <<DataFile({Row(k, <<NextId>>)}, NoUpdate)>>)
  /\ LogSteps(<<Step("a", k, f, 0)>>)
  /\ performed' = Append(performed, [kind |-> "insert", key |-> k, id |-> NextId])
  /\ UNCHANGED <<base, explicitLog, updateVals, updateOps, opVars, redoVars,
                 phase, executed, lateSwitch, others>>

\* The next thing a thread of the running operation does
Does(thread, what) ==
  /\ phase = "work"
  /\ todo[thread] # <<>> /\ Head(todo[thread]) = what
  /\ todo' = [todo EXCEPT ![thread] = Tail(@)]
UpdateId == IF op.kind = "delete" THEN NoUpdate ELSE op.id

FindRows(thread) ==
  /\ Does(thread, "find")
  /\ targets' = FindKeyFiles(op.key, UpdateId)
  /\ UNCHANGED <<fileVars, explicitLog, logVars, op, redoVars, phase, historyVars>>

\* remove_file(key) with explicit logging: remove_key_rows for every file
RemoveRows(thread) ==
  /\ explicitLog
  /\ Does(thread, "remove")
  /\ ReplaceRows(targets, op.key, <<>>)
  /\ LET rest == Len(RestFiles(targets, op.key))
         adds == [i \in 1..rest |-> Step("a", op.key, Len(files) + i, 0)]
         removes == [i \in 1..Cardinality(targets) |->
                       Step("d", op.key, SetToSeq(targets)[i], 0)]
     IN LogSteps(adds \o removes)
  /\ UNCHANGED <<base, explicitLog, updateVals, updateOps, op, targets, redoVars,
                 phase, historyVars>>

\* remove_file(key) with implicit logging: the search and the removal of what
\* it finds; a delete that belongs to no update logs the path of a file.  The
\* two steps are logged one after the other.
LogSearch(thread) ==
  /\ ~explicitLog /\ targets # {}
  /\ todo[thread] # <<>> /\ Head(todo[thread]) = "remove" /\ phase = "work"
  /\ todo' = [todo EXCEPT ![thread][1] = "logRemove"]
  /\ LogSteps(<<Step("s", op.key, 0, 0)>>)
  /\ UNCHANGED <<fileVars, explicitLog, updateVals, updateOps, op, targets,
                 redoVars, phase, historyVars>>

LogRemove(thread) ==
  /\ Does(thread, "logRemove")
  /\ IF UpdateId = NoUpdate
     THEN \E f \in targets : LogSteps(<<Step("d", op.key, f, 0)>>)
     ELSE LogSteps(<<Step("d found", op.key, 0, 0)>>)
  /\ UNCHANGED <<fileVars, explicitLog, updateVals, updateOps, op, targets,
                 redoVars, phase, historyVars>>

\* add_file(table, key, prev): the file is written and registered, or the
\* update of the found rows is logged.
AddRows(thread) ==
  /\ Does(thread, "add")
  /\ IF explicitLog
     THEN /\ ReplaceRows({}, op.key,
                         <<DataFile(Updated(op.read, op.id, op.id), op.id)>>)
          /\ LogSteps(<<Step("a", op.key, Len(files) + 1, 0)>>)
          /\ UNCHANGED base
     ELSE /\ LogSteps(<<Step("e found", op.key, 0, LastUpdate)>>)
          /\ UNCHANGED fileVars
  /\ UNCHANGED <<explicitLog, updateVals, updateOps, op, targets, redoVars, phase,
                 historyVars>>

\* Both threads are joined.
EndOperation ==
  /\ phase = "work" /\ op # NoOp
  /\ todo.remover = <<>> /\ todo.adder = <<>>
  /\ op' = NoOp
  /\ targets' = {}
  /\ UNCHANGED <<fileVars, explicitLog, logVars, todo, redoVars, phase, historyVars>>

\* Another table is opened and its log ends in a marker.
SeeMarker ==
  /\ Ready /\ explicitLog
  /\ explicitLog' = FALSE
  /\ lateSwitch' = (executed # {})
  /\ UNCHANGED <<fileVars, logVars, opVars, redoVars, phase, performed, executed,
                 others>>

-----------------------------------------------------------------------------
(* Commit *)

\* commit: only implicitly logged operations are redone.
BeginCommit ==
  /\ Ready /\ performed # <<>>
  /\ phase' = IF explicitLog THEN "write" ELSE "wait"
  /\ UNCHANGED <<fileVars, explicitLog, logVars, opVars, redoVars, historyVars>>

\* wait_for_marker: the other transaction's update of a row arrives.
OtherCommits(k) ==
  LET old == {f \in base : HasKey(f, k)}
      rest == RestFiles(old, k)
      new == Append(rest, DataFile({Row(r.key, Append(r.val, MaxOps + 1)) :
                                      r \in KeyRows(old, k)}, NoUpdate))
      ids == NewFileIds(Len(new))
  IN /\ phase = "wait" /\ others < MaxOthers
     /\ old # {}
     /\ files' = files \o new
     /\ base' = (base \ old) \cup ids
     /\ live' = (live \ old) \cup ids
     /\ others' = others + 1
     /\ UNCHANGED <<created, deleted, explicitLog, logVars, opVars, redoVars,
                    phase, performed, executed, lateSwitch>>

\* redo(1): the steps 1 .. next_step - 1
BeginRedo ==
  /\ phase = "wait"
  /\ phase' = "redo" /\ at' = 1
  /\ UNCHANGED <<fileVars, explicitLog, logVars, opVars, foundKey, foundFiles,
                 retired, redoOk, historyVars>>

Redoing(command) ==
  /\ phase = "redo" /\ at <= Len(sublog)
  /\ sublog[at].command = command
  /\ at' = at + 1
UnchangedByRedo ==
  UNCHANGED <<base, explicitLog, logVars, opVars, historyVars>>

\* A step that is missing is skipped, as a read is.
RedoNothing ==
  /\ Redoing("missing") \/ Redoing("r")
  /\ UnchangedByRedo
  /\ UNCHANGED <<files, live, created, deleted, foundKey, foundFiles, retired,
                 redoOk, phase>>

\* The search also finds what this redo has written before.
RedoSearch ==
  /\ Redoing("s")
  /\ foundKey' = sublog[at].key
  /\ foundFiles' = FindKeyFiles(sublog[at].key, NoUpdate)
  /\ retired' = {}
  /\ UnchangedByRedo
  /\ UNCHANGED <<files, live, created, deleted, redoOk, phase>>

\* The found rows are removed from their files once.
RedoRemove ==
  /\ Redoing("d found")
  /\ ReplaceRows(foundFiles \ retired, foundKey, <<>>)
  /\ retired' = retired \cup foundFiles
  /\ UnchangedByRedo
  /\ UNCHANGED <<foundKey, foundFiles, redoOk, phase>>

\* The found rows, updated, are written; then the old ones are removed.
ValidReference == sublog[at].index \in 1..Len(updateOps) /\ foundFiles # {}
RedoUpdate ==
  /\ Redoing("e found") /\ ValidReference
  /\ LET i == sublog[at].index
     IN ReplaceRows(foundFiles \ retired, foundKey,
                    <<DataFile(Updated(KeyRows(foundFiles, foundKey),
                                     updateVals[i], updateOps[i]), NoUpdate)>>)
  /\ retired' = retired \cup foundFiles
  /\ UnchangedByRedo
  /\ UNCHANGED <<foundKey, foundFiles, redoOk, phase>>

\* A step that cannot be executed ends the redo; commit() ignores that.
RedoFails ==
  /\ Redoing("e found") /\ ~ValidReference
  /\ redoOk' = FALSE
  /\ phase' = "write"
  /\ UnchangedByRedo
  /\ UNCHANGED <<files, live, created, deleted, foundKey, foundFiles, retired>>

\* Steps by path make an entry valid again that is already there.
RedoAddPath ==
  /\ Redoing("a")
  /\ LET f == sublog[at].file
     IN /\ live' = live \cup {f}
        /\ created' = IF EntryOf(created, f) = "none" THEN created
                      ELSE [created EXCEPT ![f] = "valid"]
        /\ deleted' = Invalidated(deleted, {f})
  /\ UnchangedByRedo
  /\ UNCHANGED <<files, foundKey, foundFiles, retired, redoOk, phase>>

RedoDeletePath ==
  /\ Redoing("d")
  /\ LET f == sublog[at].file
     IN /\ live' = live \ {f}
        /\ created' = Invalidated(created, {f})
        /\ deleted' = IF EntryOf(deleted, f) = "none" THEN deleted
                      ELSE [deleted EXCEPT ![f] = "valid"]
  /\ UnchangedByRedo
  /\ UNCHANGED <<files, foundKey, foundFiles, retired, redoOk, phase>>

EndRedo ==
  /\ phase = "redo" /\ at > Len(sublog)
  /\ phase' = "write"
  /\ UNCHANGED <<fileVars, explicitLog, logVars, opVars, redoVars, historyVars>>

\* build_commit_log and write_commit: the valid entries
CommitFiles ==
  /\ phase = "write"
  /\ base' = (base \ {f \in DOMAIN deleted : deleted[f] = "valid"})
                \cup {f \in DOMAIN created : created[f] = "valid"}
  /\ phase' = "committed"
  /\ UNCHANGED <<files, live, created, deleted, explicitLog, logVars, opVars,
                 redoVars, historyVars>>

-----------------------------------------------------------------------------
SubInit ==
  /\ \E layout \in Layouts :
       /\ files = [i \in DOMAIN layout |->
                     DataFile({Row(k, <<>>) : k \in layout[i]}, NoUpdate)]
       /\ base = DOMAIN layout
  /\ live = base
  /\ created = <<>> /\ deleted = <<>>
  /\ explicitLog \in BOOLEAN
  /\ updateVals = <<>> /\ updateOps = <<>> /\ sublog = <<>>
  /\ op = NoOp /\ targets = {}
  /\ todo = [remover |-> <<>>, adder |-> <<>>]
  /\ at = 0 /\ foundKey = NoOp.key /\ foundFiles = {} /\ retired = {}
  /\ redoOk = TRUE
  /\ phase = "work"
  /\ performed = <<>> /\ executed = {} /\ lateSwitch = FALSE /\ others = 0
  /\ sublogFaults = 0

ClientStep ==
  \/ \E k \in Keys :
       \/ \E kind \in ClientOps \cap {"update", "updateInThreads"} :
            BeginUpdate(kind, k)
       \/ "delete" \in ClientOps /\ BeginDelete(k)
       \/ "insert" \in ClientOps /\ Insert(k)
  \/ \E thread \in {"remover", "adder"} :
       \/ FindRows(thread) \/ RemoveRows(thread) \/ LogSearch(thread)
       \/ LogRemove(thread) \/ AddRows(thread)
  \/ EndOperation \/ SeeMarker

CommitStep ==
  \/ BeginCommit \/ \E k \in Keys : OtherCommits(k)
  \/ BeginRedo \/ RedoNothing \/ RedoSearch \/ RedoRemove \/ RedoUpdate
  \/ RedoFails \/ RedoAddPath \/ RedoDeletePath \/ EndRedo \/ CommitFiles

SubNext == ClientStep \/ CommitStep

SubSpec == SubInit /\ [][SubNext]_subVars

-----------------------------------------------------------------------------
(* Properties *)

Committed == phase = "committed"

\* The rows of key k after the operations were executed one by one against the
\* newest version: the files of 'base' that this transaction did not write, plus
\* those it removed.
NewestRows(k) ==
  LET ours == {f \in DOMAIN created : created[f] # "none"}
      removed == {f \in DOMAIN deleted : deleted[f] = "valid"} \ ours
  IN KeyRows((base \ ours) \cup removed, k)

Effect(rows, o) ==
  CASE o.kind = "insert" -> rows \cup {Row(o.key, <<o.id>>)}
    [] o.kind = "delete" -> {}
    [] OTHER -> Updated(rows, o.id, o.id)
Intended(k) ==
  FoldLeft(LAMBDA rows, o : IF o.key = k THEN Effect(rows, o) ELSE rows,
           NewestRows(k), performed)

\* README, "the redo searches the key again in the newest snapshot and applies
\* the update to its rows": what is committed is the newest version with the
\* operations of the transaction applied in their order.
CommittedRowsAreAsIntended ==
  Committed => \A k \in Keys : KeyRows(base, k) = Intended(k)

\* The same for what the code does get right: a client that runs its operations
\* one after the other, whose deletes are executed at once, and that does not
\* see its first marker after it has executed updates already.
SequentialUpdatesAreRedone ==
  /\ sublogFaults = 0
  /\ ~lateSwitch
  /\ \A i \in DOMAIN performed : performed[i].kind = "delete" => i \in executed
  => CommittedRowsAreAsIntended

\* remove_file, "the rows of the key are removed; other rows of their files
\* stay": a row whose key no operation names is committed as it was.
OtherRowsAreKept ==
  Committed =>
    \A k \in Keys : (\A i \in DOMAIN performed : performed[i].key # k)
                      => KeyRows(base, k) = NewestRows(k)

\* What the code does get right: a client whose deletes are executed at once
\* (they are remove_key_rows) keeps the other rows, whatever it is doing in two
\* threads, and whatever was lost or misdirected.  A delete that is noted takes
\* a whole file with it if the transaction has written the file itself.
OtherRowsStay ==
  (\A i \in DOMAIN performed : performed[i].kind = "delete" => i \in executed)
  => OtherRowsAreKept

\* The types of the variables.
SubTypeOK ==
  /\ base \subseteq DOMAIN files /\ live \subseteq DOMAIN files
  /\ DOMAIN created \subseteq DOMAIN files /\ DOMAIN deleted \subseteq DOMAIN files
  /\ explicitLog \in BOOLEAN
  /\ Len(updateOps) <= Len(updateVals) /\ Len(updateVals) <= MaxOps
  /\ targets \subseteq DOMAIN files /\ foundFiles \subseteq DOMAIN files
  /\ retired \subseteq DOMAIN files
  /\ at \in 0..(Len(sublog) + 1)
  /\ phase \in {"work", "wait", "redo", "write", "committed"}
=============================================================================
