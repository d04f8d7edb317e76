----------------------------- MODULE VersionLog -----------------------------
(***************************************************************************)
(* What the log directory of a table promises to those who read it: a      *)
(* dense sequence of versions, each of which is reserved by one writer and *)
(* then decided once and for good, either by the commit of that writer or  *)
(* as void.  Readers need nothing else: the snapshot of version v is fixed *)
(* as soon as the versions up to v are decided.                            *)
(***************************************************************************)
EXTENDS Naturals

CONSTANTS Tables, Writers, Creator, MaxVersion

VARIABLE entry    \* entry[x][v]: version v of table x

Versions == 0 .. MaxVersion

Entries == [kind : {"absent", "marker", "commit", "empty"}, by : Writers]
Free == [kind |-> "absent", by |-> Creator]
Void == [kind |-> "empty", by |-> Creator]
Reserved(t) == [kind |-> "marker", by |-> t]
Committed(t) == [kind |-> "commit", by |-> t]

Init == entry = [x \in Tables |->
                   [v \in Versions |-> IF v = 0 THEN Committed(Creator) ELSE Free]]

\* The next version of a table
IsNext(x, v) == /\ entry[x][v] = Free
                /\ \A w \in Versions : w < v => entry[x][w] # Free

Reserve(x, v, t) == IsNext(x, v) /\ entry' = [entry EXCEPT ![x][v] = Reserved(t)]

CommitReserved(x, v, t) == /\ entry[x][v] = Reserved(t)
                           /\ entry' = [entry EXCEPT ![x][v] = Committed(t)]

\* Released by its owner or taken over by a waiter
GiveUp(x, v, t) == /\ entry[x][v] = Reserved(t)
                   /\ entry' = [entry EXCEPT ![x][v] = Void]

Next == \E x \in Tables, v \in Versions, t \in Writers :
          Reserve(x, v, t) \/ CommitReserved(x, v, t) \/ GiveUp(x, v, t)

Spec == Init /\ [][Next]_entry

-----------------------------------------------------------------------------
Decided(e) == e.kind \in {"commit", "empty"}

TypeOK == entry \in [Tables -> [Versions -> Entries]]

\* No version exists above a free one.
Dense == \A x \in Tables, v, w \in Versions :
           v < w /\ entry[x][v] = Free => entry[x][w] = Free

\* A decided version keeps its decision; a reserved one keeps its owner
\* until it is decided, and only the owner's commit can follow.
DecidedOnce ==
  [][\A x \in Tables, v \in Versions :
       /\ Decided(entry[x][v]) => entry'[x][v] = entry[x][v]
       /\ entry[x][v].kind = "marker" =>
            \/ entry'[x][v] = Void
            \/ entry'[x][v].by = entry[x][v].by]_entry
=============================================================================
