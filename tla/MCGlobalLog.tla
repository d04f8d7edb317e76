---------------------------- MODULE MCGlobalLog ----------------------------
(* Small instances of GlobalLog: who opens which tables and does what *)
EXTENDS GlobalLog

CONSTANTS t1, t2, t3, A, B, C

OpenA == [t \in Txns |-> <<A>>]
AllUpdate == [t \in Txns |-> [x \in Tables |-> {"update"}]]

\* t1 reads A and updates B; t2 reads B and changes A and C; t3 reads all.
OpenCrosswise ==
  [t \in Txns |-> IF t = t1 THEN <<A, B>> ELSE IF t = t2 THEN <<B, A, C>> ELSE <<C, A, B>>]
WriteSkew ==
  [t \in Txns |-> [x \in Tables |->
     CASE <<t, x>> \in {<<t1, B>>, <<t2, A>>} -> {"update"}
       [] <<t, x>> = <<t2, C>>                -> {"append"}
       [] OTHER                               -> {"read"}]]

\* t1 reads A and updates B; t2 updates B and appends to A; t3 reads both.
OpenOpposite ==
  [t \in Txns |-> IF t = t2 THEN <<B, A>> ELSE <<A, B>>]
ReadersAndWriters ==
  [t \in Txns |-> [x \in Tables |->
     IF t = t3 THEN {"read"}
     ELSE IF x = B THEN {"update"} ELSE IF t = t1 THEN {"read"} ELSE {"append"}]]
=============================================================================
