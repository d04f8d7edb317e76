------------------------------ MODULE MCSubLog ------------------------------
(* A table of one file with three rows, for the sublog alone. *)
EXTENDS SubLog

CONSTANTS k1, k2, k3

ThreeRows == {<<{k1, k2, k3}>>}
=============================================================================
