----------------------------- MODULE Workloads -----------------------------
(***************************************************************************)
(* The transactions of the benchmark drivers (TPC-C, CAB, LST-Bench,       *)
(* TPC-DS) as sequences of calls of the transaction manager.               *)
(*                                                                         *)
(* The tables of a transaction are numbered in the order they were opened. *)
(* TPC-C passes these numbers as literals; the others ask for the number   *)
(* of a path (get_table_id).  What is read and written of a table is not   *)
(* modelled: a change stands for the calls that write rows of one table    *)
(* (add_file, or remove_file and add_file).                                *)
(***************************************************************************)
EXTENDS Integers, Sequences, SequencesExt

CONSTANTS
  Loops,              \* how often the loops of the programs run
  LoadOrder,          \* the tables that Load writes to
  ScaleTables         \* the tables of the table-scaling benchmark

Named == -1           \* the number is asked for

\* A call: the table it is meant for, the table whose transaction manager it
\* is made on if each table has one, and the number it passes.  Checked: the
\* program returns when the call fails.
ACall(name, i, t) ==
  [call |-> name, id |-> i, table |-> t, of |-> t, checked |-> FALSE, readOnly |-> {}]

Begin(t) == ACall("begin", 0, t)
BeginNamed(t) == ACall("begin", Named, t)
BeginChecked(t) == [BeginNamed(t) EXCEPT !.checked = TRUE]
Open(t) == [ACall("open", 0, t) EXCEPT !.checked = TRUE]
OpenIgnored(t) == ACall("open", Named, t)
\* The table is opened unless it is open.
Need(t) == ACall("need", Named, t)
Read(i, t) == ACall("read", i, t)
ReadNamed(t) == Read(Named, t)
Change(i, t) == ACall("change", i, t)
ChangeNamed(t) == Change(Named, t)
\* When the change fails, the transaction is aborted and true returned.
TriedChange(t) == [ChangeNamed(t) EXCEPT !.checked = TRUE]
\* The program goes on with its commit if the read before returned no file.
MayBreak == ACall("break", 0, "")
\* commit(true) for the transactions of some tables, commit() for the others
CommitReading(tables) == [ACall("commit", 0, "") EXCEPT !.readOnly = tables]
Commit == CommitReading({})

ForEach(F(_), s) == [i \in DOMAIN s |-> F(s[i])]
OpenAll(s) == ForEach(OpenIgnored, s)
NeedAll(s) == ForEach(Need, s)
ReadAll(s) == ForEach(ReadNamed, s)
Repeat(n, calls) == FlattenSeq([i \in 1..n |-> calls])

-----------------------------------------------------------------------------
\* TPC-C with one transaction (levels 1 or 2)
StockLevel ==
  <<Begin("district"), Read(0, "district"), Open("order_line"), Open("stock"),
    Read(1, "order_line"), Read(2, "stock"), CommitReading({"district"})>>

OrderStatus ==
  <<Begin("customer"), Read(0, "customer"), Open("order"), Open("order_line"),
    Read(1, "order"), Read(2, "order_line"), CommitReading({"customer"})>>

\* The loop over the districts; sum is the read of their order lines.
Deliveries(sum) ==
  Repeat(Loops,
    <<Read(0, "new_order"), MayBreak, Change(0, "new_order"),
      Read(1, "order"), MayBreak, Change(1, "order"),
      Read(2, "order_line"), Change(2, "order_line"), sum,
      Read(3, "customer"), Change(3, "customer")>>)

Delivery ==
  <<Begin("new_order"), Open("order"), Open("order_line"), Open("customer")>>
  \o Deliveries(Read(2, "order_line")) \o <<Commit>>

Payment ==
  <<Begin("warehouse"), Read(0, "warehouse"), Change(0, "warehouse"),
    Open("district"), Read(1, "district"), Change(1, "district"),
    Open("customer"), Read(2, "customer"), Change(2, "customer"),
    Open("history"), Change(3, "history"), Commit>>

NewOrderSwapped ==  \* mutant: two tables are opened in the other order
  <<Begin("customer"), Open("district"), Open("warehouse"), Change(2, "district"), Commit>>
NewOrder ==
  <<Begin("customer"), Open("warehouse"), Read(0, "customer"), Read(1, "warehouse"),
    Open("district"), Read(2, "district"), Change(2, "district"),
    Open("order"), Change(3, "order"), Open("new_order"), Change(4, "new_order"),
    Open("item"), Open("stock"), Open("order_line")>>
  \o Repeat(Loops, <<Read(5, "item"), Read(6, "stock"), Change(6, "stock"),
                     Change(7, "order_line")>>)
  \o <<Commit>>

TpccMulti == {StockLevel, OrderStatus, Delivery, Payment, NewOrder}

\* TPC-C with one transaction per table: the same calls, each on the first
\* table of a manager of its own, and a commit of each
OnePerTable(calls, readOnly) ==
  LET Alone(c) ==
        CASE c.call = "open" -> Begin(c.table)
          [] c.call = "commit" -> CommitReading(readOnly)
          [] OTHER -> [c EXCEPT !.id = 0]
  IN ForEach(Alone, calls)

StockLevelSingle == OnePerTable(StockLevel, {"district", "order_line", "stock"})
OrderStatusSingle == OnePerTable(OrderStatus, {"customer", "order", "order_line"})
\* The sum of the order lines is read from the manager of the orders.
DeliverySingle ==
  OnePerTable(<<Begin("new_order"), Begin("order"), Begin("order_line"), Begin("customer")>>
              \o Deliveries([Read(0, "order_line") EXCEPT !.of = "order"]) \o <<Commit>>, {})
PaymentSingle == OnePerTable(Payment, {})
NewOrderSingle == OnePerTable(NewOrder, {"customer", "warehouse", "item"})

TpccSingle ==
  {StockLevelSingle, OrderStatusSingle, DeliverySingle, PaymentSingle, NewOrderSingle}

-----------------------------------------------------------------------------
\* CAB: the queries.  Of their calls only begin is checked; commit(true) always
\* succeeds, so that their loop is never repeated.
CabQuery(t, calls) == <<BeginChecked(t)>> \o calls \o <<CommitReading({t})>>

q1 == CabQuery("lineitem", ReadAll(<<"lineitem">>))
q2 == CabQuery("partsupp",
  OpenAll(<<"supplier", "nation", "region">>)
  \o ReadAll(<<"partsupp", "supplier", "nation", "region">>) \o OpenAll(<<"part">>)
  \o ReadAll(<<"part", "partsupp", "supplier", "nation", "region">>))
q3 == CabQuery("customer",
  OpenAll(<<"orders", "lineitem">>) \o ReadAll(<<"customer", "orders", "lineitem">>))
q4 == CabQuery("lineitem",
  ReadAll(<<"lineitem">>) \o OpenAll(<<"orders">>) \o ReadAll(<<"orders">>))
q5 == CabQuery("customer",
  OpenAll(<<"orders", "lineitem", "supplier", "nation", "region">>)
  \o ReadAll(<<"customer", "orders", "lineitem", "supplier", "nation", "region">>))
q6 == CabQuery("lineitem", ReadAll(<<"lineitem">>))
q7 == CabQuery("supplier",
  OpenAll(<<"lineitem", "orders", "customer", "nation">>)
  \o ReadAll(<<"customer", "orders", "lineitem", "supplier", "nation", "nation">>))
q8 == CabQuery("part",
  OpenAll(<<"supplier", "lineitem", "orders", "customer", "nation", "region">>)
  \o ReadAll(<<"part", "customer", "orders", "lineitem", "supplier", "nation", "nation",
              "region">>))
q9 == CabQuery("part",
  OpenAll(<<"supplier", "lineitem", "orders", "partsupp", "nation">>)
  \o ReadAll(<<"part", "partsupp", "orders", "lineitem", "supplier", "nation">>))
q10 == CabQuery("customer",
  OpenAll(<<"orders", "lineitem", "nation">>)
  \o ReadAll(<<"customer", "orders", "lineitem", "nation">>))
q11 == CabQuery("partsupp",
  OpenAll(<<"supplier", "nation">>)
  \o Repeat(2, ReadAll(<<"partsupp", "supplier", "nation">>)))
q12 == CabQuery("orders", OpenAll(<<"lineitem">>) \o ReadAll(<<"orders", "lineitem">>))
q13 == CabQuery("customer", OpenAll(<<"orders">>) \o ReadAll(<<"customer", "orders">>))
q14 == CabQuery("lineitem", OpenAll(<<"part">>) \o ReadAll(<<"lineitem", "part">>))
q15 == CabQuery("lineitem",
  ReadAll(<<"lineitem">>) \o OpenAll(<<"supplier">>) \o ReadAll(<<"supplier">>))
q16 == CabQuery("supplier",
  ReadAll(<<"supplier">>) \o OpenAll(<<"part", "partsupp">>) \o ReadAll(<<"part", "partsupp">>))
q17 == CabQuery("lineitem",
  ReadAll(<<"lineitem">>) \o OpenAll(<<"part">>) \o ReadAll(<<"part", "lineitem">>))
q18 == CabQuery("lineitem",
  ReadAll(<<"lineitem">>) \o OpenAll(<<"customer", "orders">>)
  \o ReadAll(<<"customer", "orders", "lineitem">>))
q19 == CabQuery("lineitem", OpenAll(<<"part">>) \o ReadAll(<<"part", "lineitem">>))
q20 == CabQuery("lineitem",
  ReadAll(<<"lineitem">>) \o OpenAll(<<"part">>) \o ReadAll(<<"part">>)
  \o OpenAll(<<"partsupp">>) \o ReadAll(<<"partsupp">>)
  \o OpenAll(<<"supplier", "nation">>) \o ReadAll(<<"supplier", "nation">>))
q21 == CabQuery("lineitem",
  ReadAll(<<"lineitem", "lineitem">>) \o OpenAll(<<"supplier", "orders", "nation">>)
  \o ReadAll(<<"lineitem", "supplier", "orders", "nation">>))
q22 == CabQuery("orders",
  ReadAll(<<"orders">>) \o OpenAll(<<"customer">>) \o ReadAll(<<"customer", "customer">>))
\* q23 changes a row of the orders.
q23 ==
  <<BeginChecked("lineitem")>> \o OpenAll(<<"part">>) \o ReadAll(<<"lineitem", "part">>)
  \o OpenAll(<<"orders">>) \o ReadAll(<<"orders">>) \o <<TriedChange("orders"), Commit>>

CabQueries ==
  {q1, q2, q3, q4, q5, q6, q7, q8, q9, q10, q11, q12, q13, q14, q15, q16, q17, q18,
   q19, q20, q21, q22, q23}

-----------------------------------------------------------------------------
\* CAB: the inserts, the update, and the transaction with all tables that
\* ends a run
InsertRow(t) == <<BeginChecked(t), ChangeNamed(t), Commit>>
iCustomer == InsertRow("customer")
iLineitem == InsertRow("lineitem")
iNation == InsertRow("nation")
iOrders == InsertRow("orders")
iPart == InsertRow("part")
iPartsupp == InsertRow("partsupp")
iRegion == InsertRow("region")
iSupplier == InsertRow("supplier")
uTable(t) == <<BeginChecked(t), MayBreak, ChangeNamed(t), Commit>>
cleanup ==
  <<BeginChecked("partsupp")>>
  \o OpenAll(<<"customer", "lineitem", "nation", "orders", "part", "region", "supplier">>)
  \o <<Commit>>
IngestionEnd ==
  <<BeginChecked("customer")>>
  \o OpenAll(<<"lineitem", "nation", "orders", "part", "partsupp", "region", "supplier">>)
  \o <<Commit>>
\* The table-scaling benchmark
MultiTable(s) ==
  <<BeginChecked(Head(s)), ChangeNamed(Head(s))>>
  \o FlattenSeq(ForEach(LAMBDA t : <<OpenIgnored(t), ChangeNamed(t)>>, Tail(s))) \o <<Commit>>

CabWrites ==
  {iCustomer, iLineitem, iNation, iOrders, iPart, iPartsupp, iRegion, iSupplier,
   uTable("orders"), cleanup, IngestionEnd, MultiTable(ScaleTables)}

-----------------------------------------------------------------------------
\* LST-Bench: iRow, rTable and uTable open the table if they must.
LoadRow(t) == <<Need(t), ChangeNamed(t)>>
MixedRow(t) == <<Need(t), ChangeNamed(t)>>
MixedRead(t) == <<Need(t), ReadNamed(t)>>
MixedUpdate(t) == <<Need(t), ReadNamed(t), MayBreak, ChangeNamed(t)>>
Load(s) == <<BeginNamed(Head(s))>> \o FlattenSeq(ForEach(LoadRow, s)) \o <<Commit>>
Mixed(t) == <<BeginNamed(t)>> \o MixedRead(t) \o MixedRow(t) \o <<Commit>>
MixedSingle(t) ==
  <<BeginNamed(t)>> \o Repeat(Loops, MixedRead(t) \o MixedRow(t) \o MixedUpdate(t)) \o <<Commit>>
Optimize(s) == <<BeginChecked(Head(s))>> \o OpenAll(Tail(s)) \o <<Commit>>

\* The queries of SingleUser (need) and of the TPC-DS client (open)
DsQuery(t, calls) == <<BeginNamed(t)>> \o calls \o <<CommitReading({t})>>
Dimensions68 == <<"date_dim", "store", "household_demographics", "customer_address">>
Reads68 ==
  ReadAll(<<"store_sales", "date_dim", "store">>) \o Repeat(Loops, ReadAll(<<"store_sales">>))
  \o ReadAll(<<"household_demographics", "customer_address">>)
Dimensions90 == <<"time_dim", "web_page", "household_demographics">>

SuQ9 == DsQuery("store_sales",
  NeedAll(<<"store_sales", "reason">>)
  \o ReadAll(<<"store_sales", "reason">>))
SuQ67 == DsQuery("store_sales",
  NeedAll(<<"store_sales", "date_dim", "store", "item">>)
  \o ReadAll(<<"store_sales", "date_dim", "store", "item">>))
SuQ68 == DsQuery("store_sales", NeedAll(<<"store_sales">> \o Dimensions68) \o Reads68)
SuQ90 == DsQuery("web_sales", NeedAll(<<"web_sales">> \o Dimensions90) \o ReadAll(Dimensions90))
DsQ9 == DsQuery("store_sales", OpenAll(<<"reason">>) \o ReadAll(<<"store_sales", "reason">>))
DsQ67 == DsQuery("store_sales",
  OpenAll(<<"date_dim", "store", "item">>)
  \o ReadAll(<<"store_sales", "date_dim", "store", "item">>))
DsQ68 == DsQuery("store_sales", OpenAll(Dimensions68) \o Reads68)
DsQ90 == DsQuery("web_sales", OpenAll(Dimensions90) \o ReadAll(Dimensions90))

DsPrograms ==
  {Load(LoadOrder), Mixed("item"), MixedSingle("item"), Optimize(LoadOrder),
   SuQ9, SuQ67, SuQ68, SuQ90, DsQ9, DsQ67, DsQ68, DsQ90}
=============================================================================
