------------------------------ MODULE Snapshot ------------------------------
(***************************************************************************)
(* A DeltaLogManager: the files and table properties that a client knows   *)
(* of a Delta table after it applied log actions and checkpoints, in the   *)
(* order in which its parallel threads happened to read them.              *)
(*                                                                         *)
(* An action is [what, on, val]: an add or remove of file `on` with its    *)
(* size (-1: not recorded), an add with a deletion vector, or the value of *)
(* one of Properties (protocol, metaData, a txn or a domainMetadata, of    *)
(* which value 0 stands for "removed").  Statistics, partition values and  *)
(* tags follow the size of an entry and are left out.                      *)
(***************************************************************************)
EXTENDS Integers, Sequences, SequencesExt

CONSTANT Paths  \* the data files

Properties == {"protocol", "metaData", "txn", "domain"}
Removed == 0
UnknownSize == -1

Entries == [op : {"NONE", "ADD", "DELETE"}, version : Int, size : Int, time : Int]
Values == [version : Int, val : Int]
Managers == [files : [Paths -> Entries], values : [Properties -> Values],
             unsupported : BOOLEAN]

Entry(op, v, size, time) == [op |-> op, version |-> v, size |-> size, time |-> time]
Value(v, val) == [version |-> v, val |-> val]

LogActions ==
  [what : {"add", "addDV", "remove"}, on : Paths, val : Int]
    \cup [what : {"set"}, on : Properties, val : Int]

\* A file without an entry
NoEntry == Entry("NONE", -1, UnknownSize, 0)
EmptyManager ==
  [files |-> [p \in Paths |-> NoEntry],
   values |-> [k \in Properties |-> Value(-1, Removed)],
   unsupported |-> FALSE]

\* Mutant: the action that is applied last wins.
LastOneWins(cur, e) == TRUE

\* Whether an action replaces what is known of its file: the higher version
\* wins, in one version a remove.
Replaces(cur, e) ==
  \/ cur.op = "NONE"
  \/ e.version > cur.version
  \/ e.version = cur.version /\ e.op = "DELETE" /\ cur.op # "DELETE"

\* register_action: a remove without a size keeps that of the add it replaces.
RegisterAction(files, p, e) ==
  LET cur == files[p]
      size == IF e.op = "DELETE" /\ e.size < 0 /\ cur.op = "ADD" THEN cur.size ELSE e.size
  IN IF Replaces(cur, e) THEN [files EXCEPT ![p] = [e EXCEPT !.size = size]] ELSE files

\* set_protocol, set_metadata, set_transaction, set_domain_metadata
SetValue(values, k, v, val) ==
  IF v >= values[k].version THEN [values EXCEPT ![k] = Value(v, val)] ELSE values

\* apply_log_action; the deletion timestamp of a remove is its version.
Apply(m, a, v) ==
  CASE a.what \in {"add", "addDV"} ->
         [m EXCEPT !.files = RegisterAction(@, a.on, Entry("ADD", v, a.val, 0)),
                   !.unsupported = @ \/ a.what = "addDV"]
    [] a.what = "remove" ->
         [m EXCEPT !.files = RegisterAction(@, a.on, Entry("DELETE", v, a.val, v))]
    [] a.what = "set" -> [m EXCEPT !.values = SetValue(@, a.on, v, a.val)]

ApplyAll(m, actions, v) == FoldLeft(LAMBDA acc, a : Apply(acc, a, v), m, actions)

\* update() of an entry by an operation of the transaction itself: without
\* overwrite a removed file stays removed.
Update(old, op, overwrite) ==
  CASE overwrite \/ old = "NONE" -> op
    [] old = "ADD" /\ op = "DELETE" -> "DELETE"
    [] OTHER -> old

\* upsert: the operations of the transaction have no version.
RegisterOperation(files, p, op, overwrite) ==
  [files EXCEPT ![p] = IF @.op = "NONE" THEN Entry(op, -1, UnknownSize, 0)
                       ELSE [@ EXCEPT !.op = Update(@, op, overwrite)]]

\* get_list, get_entries and get_tombstones
WithOp(m, op) == {p \in Paths : m.files[p].op = op}
Added(m) == WithOp(m, "ADD")
Tombstones(m) == WithOp(m, "DELETE")

-----------------------------------------------------------------------------
(* What the log says: the reference, by version instead of by order *)

Has(actions, what, on) ==
  \E i \in DOMAIN actions : actions[i].what = what /\ actions[i].on = on
Touches(actions, p) == \E w \in {"add", "addDV", "remove"} : Has(actions, w, p)

\* The last of some versions; -1: none
LastOf(S) == Max(S \cup {-1})
LastTouch(commits, v, p) == LastOf({u \in 0..v : Touches(commits[u], p)})

\* A deletion vector is an add of the file in the commit that removes it.
LiveFile(commits, v, p) ==
  LET u == LastTouch(commits, v, p) IN
  u >= 0 /\ (Has(commits[u], "addDV", p) \/ ~Has(commits[u], "remove", p))
RemovedFile(commits, v, p) == LastTouch(commits, v, p) >= 0 /\ ~LiveFile(commits, v, p)

PropertyAt(commits, v, k) ==
  LET u == LastOf({w \in 0..v : Has(commits[w], "set", k)}) IN
  IF u < 0 THEN Removed
  ELSE commits[u][CHOOSE i \in DOMAIN commits[u] :
                    commits[u][i].what = "set" /\ commits[u][i].on = k].val
=============================================================================
