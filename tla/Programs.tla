------------------------------ MODULE Programs ------------------------------
(***************************************************************************)
(* How the transactions of module Workloads run: their calls may fail, and *)
(* they often go on.  Where do the rows they write end up, which tables do *)
(* they read, and do they report what was committed?                       *)
(*                                                                         *)
(* Without levels 1 and 2 TPC-C runs its programs with one transaction per *)
(* table (TpccClientSingleTable).  A commit() that succeeds has committed  *)
(* what the transaction changed, except appends that were lost in a redo;  *)
(* one that fails may have committed the first tables of the transaction.  *)
(***************************************************************************)
EXTENDS Workloads

CONSTANT UncheckedBegins  \* begin may fail where TPC-C ignores its result

VARIABLES
  program,    \* the calls that are left
  single,     \* TPC-C with one transaction per table
  txns,       \* the transactions: their tables and the rows they are to write
  commits,    \* the rows that were committed, as <<table, table meant>>
  accepted,   \* history: the rows a call accepted, in the same form
  lost,       \* history: the rows of appends a redo lost (finding lost_append)
  reads,      \* history: the tables that were read, in the same form
  result      \* what the program returned

prVars == <<program, single, txns, commits, accepted, lost, reads, result>>

NewTxn(t, tables) == [of |-> t, tables |-> tables, rows |-> <<>>]
\* The transaction a call is made on, and the number of its table there
TxnOf(c) == IF single THEN CHOOSE i \in DOMAIN txns : txns[i].of = c.of ELSE 1
Position(tables, t) ==
  LET found == {i \in DOMAIN tables : tables[i] = t}
  IN IF found = {} THEN Len(tables) ELSE (CHOOSE i \in found : \A j \in found : i <= j) - 1
TableId(c) == IF c.id = Named THEN Position(txns[1].tables, c.table) ELSE c.id

Called == Head(program)
CallIs(name) == result = "running" /\ Called.call = name
IsOpened == Called.table \in ToSet(txns[1].tables)
\* The call reaches a table of its transaction, which need not be its own.
Reaches == TableId(Called) < Len(txns[TxnOf(Called)].tables)
Reached == <<txns[TxnOf(Called)].tables[TableId(Called) + 1], Called.table>>
Continue == program' = Tail(program) /\ UNCHANGED result
Finish(r) == result' = r /\ program' = <<>>

\* A transaction begins.
Begins ==
  /\ CallIs("begin")
  /\ \/ txns' = Append(txns, NewTxn(Called.table, <<Called.table>>)) /\ Continue
     \/ /\ ~Called.checked
        /\ UncheckedBegins \/ single \/ Called.id = Named
        /\ txns' = Append(txns, NewTxn(Called.table, <<>>))
        /\ Continue
     \/ Called.checked /\ Finish("false") /\ UNCHANGED txns
  /\ UNCHANGED <<single, commits, accepted, lost, reads>>

\* open_new_table appends the table, or aborts the transaction: its versions
\* are released, and the program returns or ignores it.
Opens ==
  /\ CallIs("open") \/ (CallIs("need") /\ ~IsOpened)
  /\ \/ txns' = [txns EXCEPT ![1].tables = Append(@, Called.table)] /\ Continue
     \/ UNCHANGED txns /\ (IF Called.checked THEN Finish("false") ELSE Continue)
  /\ UNCHANGED <<single, commits, accepted, lost, reads>>

IsOpen ==
  /\ CallIs("need") /\ IsOpened
  /\ Continue
  /\ UNCHANGED <<single, txns, commits, accepted, lost, reads>>

\* A read of an unknown number reads nothing.
Reads ==
  /\ CallIs("read")
  /\ Continue
  /\ reads' = IF Reaches THEN reads \cup {Reached} ELSE reads
  /\ UNCHANGED <<single, txns, commits, accepted, lost>>

\* A change of the table of that number.  Unknown numbers and failures are
\* reported to the program, which ignores it or gives up without an error.
Changes ==
  /\ CallIs("change")
  /\ \/ /\ Reaches /\ Continue
        /\ txns' = [txns EXCEPT ![TxnOf(Called)].rows = Append(@, Reached)]
        /\ accepted' = Append(accepted, Reached)
     \/ /\ IF Called.checked THEN Finish("true") ELSE Continue
        /\ UNCHANGED <<txns, accepted>>
  /\ UNCHANGED <<single, commits, lost, reads>>

Breaks ==
  /\ CallIs("break")
  /\ program' \in {Tail(program), <<Last(program)>>}
  /\ UNCHANGED <<single, txns, commits, accepted, lost, reads, result>>

\* Mutant: the result of the last commit
LastCommit(done) == Len(txns) \in done
\* Every commit is executed, and all of them must succeed.
AllCommitted(done) == done = DOMAIN txns

\* The tables some transactions changed, and the rows they are to write there
ChangedBy(is) == UNION {{<<i, row[1]>> : row \in ToSet(txns[i].rows)} : i \in is}
RowsFor(tables) ==
  FlattenSeq([i \in DOMAIN txns |->
                SelectSeq(txns[i].rows, LAMBDA row : <<i, row[1]>> \in tables)])

\* The tables of a transaction are written in the order they were opened; a
\* commit that fails stops at one, or was not answered after the last.
FirstTables(i, written) ==
  \A m, n \in DOMAIN txns[i].tables :
    m < n /\ <<i, txns[i].tables[n]>> \in written /\ <<i, txns[i].tables[m]>> \in ChangedBy({i})
      => <<i, txns[i].tables[m]>> \in written

\* The transactions commit one after the other, each of them or not;
\* commit(true) aborts, which always succeeds.
CommitsAll ==
  /\ CallIs("commit")
  /\ LET readOnly == {i \in DOMAIN txns : txns[i].of \in Called.readOnly}
     IN \E done \in SUBSET DOMAIN txns,
           written \in SUBSET ChangedBy(DOMAIN txns \ readOnly) :
          /\ readOnly \subseteq done
          /\ \A i \in DOMAIN txns \ done : FirstTables(i, written)
          /\ commits' = RowsFor(written)
          /\ lost' = RowsFor(ChangedBy(done \ readOnly) \ written)
          /\ Finish(IF AllCommitted(done) THEN "true" ELSE "false")
  /\ UNCHANGED <<single, txns, accepted, reads>>

PrInit ==
  /\ \/ program \in TpccMulti \cup CabQueries \cup CabWrites \cup DsPrograms /\ single = FALSE
     \/ program \in TpccSingle /\ single = TRUE
  /\ txns = <<>> /\ commits = <<>> /\ accepted = <<>> /\ lost = <<>> /\ reads = {}
  /\ result = "running"

PrNext ==
  Begins \/ Opens \/ IsOpen \/ Reads \/ Changes \/ Breaks \/ CommitsAll

PrSpec == PrInit /\ [][PrNext]_prVars

-----------------------------------------------------------------------------
\* The types of the variables.
PrTypeOK ==
  /\ single \in BOOLEAN
  /\ result \in {"running", "true", "false"}
  /\ (result = "running") = (program # <<>>)

\* Whatever calls fail, rows are committed to the table they are made for,
\* and read from it, although TPC-C numbers the tables by hand
\* (TpccClientMultiTable.cpp).  Known exceptions: with UncheckedBegins a
\* transaction of TPC-C that could not open its first table goes on with the
\* numbers of the next ones; and the delivery with one transaction per table
\* reads the sum of the order lines from the orders (TpccClientSingleTable.cpp).
RowsGoToTheirTable ==
  /\ \A i \in DOMAIN commits : commits[i][1] = commits[i][2]
  /\ \A r \in reads : r[1] = r[2] \/ (single /\ r = <<"order", "order_line">>)

\* A program that reports success, with one transaction or many, committed
\* every row it was told was accepted, and no other.  Known exception: the rows
\* of an append that was redone twice at level 0 (ManagerDeltaLake.cpp:1772).  One
\* that reports a failure may have committed some of them, also with a single
\* transaction: commit() stops between two tables.
ReportsWhatWasCommitted ==
  result = "true" =>
    /\ ToSet(accepted) = ToSet(commits) \cup ToSet(lost)
    /\ Len(accepted) = Len(commits) + Len(lost)
=============================================================================
