------------------------------ MODULE MCStorage ------------------------------
(***************************************************************************)
(* Small instances of what clients do to the objects of one table that are *)
(* not versions: they write checkpoints, and they create and drop tables.  *)
(*                                                                         *)
(* The two components share no state.  A behaviour is one of a single      *)
(* component, which its initial state chooses (part); the other one stays  *)
(* in an initial state.  Their states add up, they do not multiply.        *)
(***************************************************************************)
EXTENDS Checkpoint, TableLifecycle, TLC

CONSTANTS p, q, c1, c2

VARIABLE part

-----------------------------------------------------------------------------
(* Checkpoints: a file is added, removed and restored; rows are deleted by *)
(* a vector.                                                               *)

AddOf(f) == [what |-> "add", on |-> f, val |-> 1]
RemoveOf(f) == [what |-> "remove", on |-> f, val |-> -1]
AddVector(f) == [what |-> "addDV", on |-> f, val |-> 1]
SetTo(k, n) == [what |-> "set", on |-> k, val |-> n]

Creation == <<SetTo("protocol", 1), SetTo("metaData", 1), SetTo("domain", 1), AddOf(p)>>
AddQ == <<AddOf(q)>>
RemoveP == <<RemoveOf(p), SetTo("domain", 0)>>
RestoreP == <<AddOf(p), SetTo("txn", 2)>>
SomeHistories == {<<Creation, RemoveP, AddQ \o RestoreP>>,
                  <<Creation, <<RemoveOf(p), AddVector(p)>>, AddQ>>}

\* Tables: nothing, foreign objects, a table without and with a checkpoint, one
\* whose first version is gone, one that nobody can read any more
OldTable == {"v0", "v1", "data"}
OldLocations ==
  {{}, {"other"}, OldTable, OldTable \cup {"ckpt1", "last", "v2"},
   {"ckpt1", "last", "v1", "v2", "data"}, {"v1", "data"}}

TwoClients == Permutations(CkClients)

-----------------------------------------------------------------------------
StorageInit ==
  /\ part \in {"checkpoint", "table"}
  /\ CkInit /\ TlInit
  /\ part # "checkpoint" => commits[1] = RemoveP
  /\ part # "table" => objects = {} /\ ~entry.present

StorageNext ==
  \/ part = "checkpoint" /\ CkNext /\ UNCHANGED <<part, tlVars>>
  \/ part = "table" /\ TlNext /\ UNCHANGED <<part, ckVars>>

StorageSpec == StorageInit /\ [][StorageNext]_<<part, ckVars, tlVars>>

\* The variables of both components have their types.
StorageTypeOK == CkTypeOK /\ TlTypeOK
=============================================================================
