------------------------------ MODULE MCClients ------------------------------
(***************************************************************************)
(* Small instances of what happens within a client: the sublog, the lookup *)
(* of a key in a data file, schemas and conversions, the estimate of the   *)
(* store's time and the lease of a marker, and the programs of the         *)
(* workloads.                                                              *)
(*                                                                         *)
(* As in MCStorage, a behaviour is one of a single component (part); they  *)
(* share no state, and the others stay in an initial state of theirs.      *)
(***************************************************************************)
EXTENDS SubLog, KeyLookup, Schemas, StoreClock, MarkerLease, Banking, Programs,
        TLC

CONSTANTS k1, k2, k3, m1, m2

VARIABLE part

-----------------------------------------------------------------------------
\* The sublog: one file with two or three rows, a file for each of two, one row
OneOrTwoFiles == {<<{k1, k2, k3}>>, <<{k1, k2}>>, <<{k1}, {k2}>>, <<{k1}>>}

\* Key lookup: numbers around zero
Z == -1..1

\* Schemas: units of time with the rates 1, 4 and 8, longs of 5 bits, ints of 4
Units == [s |-> 1, us |-> 4, ns |-> 8]
SomeAtoms == {-16, -5, -4, -1, 0, 3, 15}
Longs16 == -16
Int8 == -8

SimpleTypes == {Leaf("int32"), Leaf("int64"), Leaf("large_string"), Leaf("uint32"),
                Dictionary(Leaf("string")), Stamp("s", TRUE), Stamp("us", FALSE),
                Stamp("ns", TRUE), Stamp("ns", FALSE)}
Pair == Struct(<<Field("b", Leaf("int32"), TRUE), Field("a", Stamp("ns", FALSE), TRUE)>>)
NestedTypes ==
  {ListOf(k, t, null) : k \in {"list", "large_list"}, null \in BOOLEAN,
     t \in {Stamp("ns", FALSE), ListOf("list", Leaf("large_string"), TRUE)}}
  \cup {MapOf(Leaf("large_string"), Stamp("ns", FALSE), null) : null \in BOOLEAN}
  \cup {Pair, ListOf("list", Pair, TRUE),
        Struct(<<Field("a", Leaf("uint32"), TRUE)>>), Struct(<<>>)}

OneColumn ==
  {<<Field("a", t, null)>> : t \in SimpleTypes \cup NestedTypes, null \in BOOLEAN}
TwoColumns ==
  {<<Field(m, Leaf("int32"), TRUE), Field(n, Leaf("int32"), FALSE)>> :
     m, n \in {"a", "B", "A", " "}}
SomeTables == OneColumn \cup TwoColumns \cup {<<>>}

\* The store's time: offsets of a clock that is ahead or behind
SmallOffsets == {-4, -1, 2}

\* The lease: holder and waiter
TwoHolders == Permutations(LeaseClients)

\* Programs: the tables of Load and Optimize, those of the table scaling
Two == <<"item", "store">>
Three == <<"s0", "s1", "s2">>

-----------------------------------------------------------------------------
ClientsInit ==
  /\ part \in {"sublog", "lookup", "schema", "clock", "lease", "bank", "program"}
  /\ SubInit
  /\ part = "sublog" \/ (explicitLog /\ files = <<DataFile({Row(k1, <<>>)}, NoUpdate)>>)
  /\ \/ part = "lookup"
     \/ /\ part # "lookup"
        /\ kind = "other" /\ chunks = <<<<>>, <<>>>> /\ key = 0 /\ exact = FALSE
  /\ KlInit
  /\ part = "lookup" \/ (stats.name = "missing" /\ stats.records = 0)
  /\ part = "schema" \/ (part # "schema" /\ given = <<>>)
  /\ ScInit
  /\ ClockInit
  /\ part = "clock" \/ \A c \in ClockClients : offset[c] = 2
  /\ LeaseInit
  /\ BankInit
  /\ part = "bank" \/ layout = "MultiTable"
  /\ part = "program" \/ (part # "program" /\ program = Payment /\ single = FALSE)
  /\ PrInit

ClientsNext ==
  \/ /\ part = "sublog" /\ SubNext
     /\ UNCHANGED <<part, klVars, scVars, clockVars, leaseVars, bankVars, prVars>>
  \/ /\ part = "lookup" /\ KlNext
     /\ UNCHANGED <<part, subVars, scVars, clockVars, leaseVars, bankVars, prVars>>
  \/ /\ part = "schema" /\ ScNext
     /\ UNCHANGED <<part, subVars, klVars, clockVars, leaseVars, bankVars, prVars>>
  \/ /\ part = "clock" /\ ClockNext
     /\ UNCHANGED <<part, subVars, klVars, scVars, leaseVars, bankVars, prVars>>
  \/ /\ part = "lease" /\ LeaseNext
     /\ UNCHANGED <<part, subVars, klVars, scVars, clockVars, bankVars, prVars>>
  \/ /\ part = "bank" /\ BankNext
     /\ UNCHANGED <<part, subVars, klVars, scVars, clockVars, leaseVars, prVars>>
  \/ /\ part = "program" /\ PrNext
     /\ UNCHANGED <<part, subVars, klVars, scVars, clockVars, leaseVars, bankVars>>

clientsVars ==
  <<part, subVars, klVars, scVars, clockVars, leaseVars, bankVars, prVars>>
ClientsSpec == ClientsInit /\ [][ClientsNext]_clientsVars

\* The variables of every component have their types.
ClientsTypeOK ==
  /\ SubTypeOK /\ KlTypeOK /\ ScTypeOK /\ ClockTypeOK /\ LeaseTypeOK
  /\ BankTypeOK /\ PrTypeOK
=============================================================================
