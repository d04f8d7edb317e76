--------------------------- MODULE MCMarkerCommit ---------------------------
(* Small instances of MarkerCommit: who opens which tables and does what *)
EXTENDS MarkerCommit, TLC

CONSTANTS t1, t2, t3, A, B

OpenA == [t \in Txns |-> <<A>>]
OpenCrosswise == [t \in Txns |-> IF t = t1 THEN <<A, B>> ELSE <<B, A>>]
OpenTwoTwoOne == [t \in Txns |-> IF t = t3 THEN <<A>> ELSE <<A, B>>]
OpenCrosswiseAndOne ==
  [t \in Txns |-> IF t = t1 THEN <<A, B>> ELSE IF t = t2 THEN <<B, A>> ELSE <<B>>]

EveryoneDoes(ops) == [t \in Txns |-> [x \in Tables |-> ops]]
Update == EveryoneDoes({"update"})
UpdateAndAppend == EveryoneDoes({"update", "append"})

\* t1 and t2 read and append to different tables and update the other one; t3
\* removes nothing, so that it loads its table again when it stops waiting.
ReadOneUpdateOther ==
  [t \in Txns |-> [x \in Tables |->
     IF t = t3 \/ ((t = t1) <=> (x = A)) THEN {"read", "append"} ELSE {"update"}]]

\* A reader of B that appends to A; the others update B and append to A.
AppendAThenUseB ==
  [t \in Txns |-> [x \in Tables |->
     IF x = A THEN {"append"} ELSE IF t = t1 THEN {"read"} ELSE {"update"}]]
=============================================================================
