------------------------------ MODULE Banking ------------------------------
(***************************************************************************)
(* The banking workload of the YCSB driver: two accounts, and clients that *)
(* check a balance, withdraw money or transfer it.  Each client keeps books *)
(* of what its operations changed (changes0, changes1) and prints them at   *)
(* the end, to be compared with the tables.                                *)
(*                                                                         *)
(* A transaction reads a snapshot of each table it opens.  A commit() that *)
(* succeeds has committed all its changes, and no table it opened has      *)
(* changed: what MarkerCommit and GlobalLog promise of an explicitly       *)
(* logged transaction.  One that fails may have committed the first of its *)
(* tables, or all of them in a write that was not answered.                *)
(***************************************************************************)
EXTENDS Integers, Sequences, FiniteSetsExt

CONSTANTS
  Bankers,       \* the clients, one per thread
  BankLayouts,   \* subset of {"Query", "MultiTable", "SeparateTables"}
  Amounts, Opening,
  WriteFaults,   \* which calls of write_balance may fail: "remove", "add"
  MaxBankOps     \* bound on the operations of each client

ASSUME BankAssumption ==
  /\ IsFiniteSet(Bankers)
  /\ Amounts \subseteq Int /\ Opening \in Int /\ MaxBankOps \in Nat
  /\ BankLayouts \subseteq {"Query", "MultiTable", "SeparateTables"}

Accounts == {0, 1}
Other(a) == 1 - a

VARIABLES
  layout,
  rows,     \* rows[a]: the balances in the committed rows of account a
  changed,  \* changed[x]: number of commits that changed table x
  banker,   \* banker[c]: the operation client c executes
  books,    \* books[c][a]: changes0 and changes1 of client c
  torn,     \* history: accounts whose row was removed without a new one
  unbooked  \* history: what commits that reported a failure changed in account a

bankVars == <<layout, rows, changed, banker, books, torn, unbooked>>

Operations == {"read", "withdraw", "transfer"}
Steps == {"idle", "open", "sender", "receiver", "commit", "deposit", "ended"}
NoSnapshot == [a \in Accounts |-> <<>>]
NewBanker == [at |-> "idle", op |-> "read", sender |-> 1, amount |-> 0, ops |-> 0,
              view |-> NoSnapshot, seen |-> [x \in Accounts |-> -1],
              dirty |-> {}, written |-> FALSE]

\* The table of an account; with layout Query both are rows of one table.
TableOf(a) == IF layout = "Query" THEN 0 ELSE a
Become(c, r) == banker' = [banker EXCEPT ![c] = r]
Leave(c) == Become(c, [NewBanker EXCEPT !.sender = banker[c].sender, !.ops = banker[c].ops + 1])

\* The transaction b opens the table of account a and sees its rows.
Opened(b, a) ==
  [b EXCEPT !.seen[TableOf(a)] = changed[TableOf(a)],
            !.view = [x \in Accounts |-> IF TableOf(x) = TableOf(a) THEN rows[x] ELSE @[x]]]

-----------------------------------------------------------------------------
\* An operation starts: the next actor is the sender; begin may fail.
StartOperation(c) ==
  /\ banker[c].at = "idle" /\ banker[c].ops < MaxBankOps
  /\ \E op \in Operations, d \in Amounts :
       LET b == [banker[c] EXCEPT !.op = op, !.amount = d, !.sender = Other(@)]
       IN \/ Become(c, [Opened(b, b.sender) EXCEPT !.at =
               CASE op = "read" -> "commit"
                 [] op = "transfer" /\ layout = "MultiTable" -> "open"
                 [] OTHER -> "sender"])
          \/ Become(c, [b EXCEPT !.ops = @ + 1])
  /\ UNCHANGED <<layout, rows, changed, books, torn, unbooked>>

\* open_new_table of the receiver's table; when it fails, nothing is committed.
OpenReceiver(c) ==
  /\ banker[c].at = "open"
  /\ \/ Become(c, [Opened(banker[c], Other(banker[c].sender)) EXCEPT !.at = "sender"])
     \/ Leave(c)
  /\ UNCHANGED <<layout, rows, changed, books, torn, unbooked>>

\* read_balance and write_balance of account a: the rows of the account are
\* removed (the result is ignored) and a row with the new balance is added.
Written(b, a, d) ==
  IF b.view[a] = <<>> THEN {[b EXCEPT !.written = FALSE]}
  ELSE {[b EXCEPT !.written = "add" \notin failed,
                  !.dirty = IF failed = {"remove", "add"} THEN @ ELSE @ \cup {a},
                  !.view[a] = (IF "remove" \in failed THEN @ ELSE <<>>)
                              \o (IF "add" \in failed THEN <<>> ELSE <<@[1] + d>>)]
          : failed \in SUBSET WriteFaults}

\* The sender's account; a transfer goes on with the receiver's if its
\* layout has one transaction for both and the sender's row was written.
ChangeSender(c) ==
  /\ banker[c].at = "sender"
  /\ \E b \in Written(banker[c], banker[c].sender, -banker[c].amount)
              \cup {[banker[c] EXCEPT !.written = FALSE]} :
       Become(c, [b EXCEPT !.at =
         IF b.op = "transfer" /\ layout # "SeparateTables" /\ b.written
         THEN "receiver" ELSE "commit"])
  /\ UNCHANGED <<layout, rows, changed, books, torn, unbooked>>

ChangeReceiver(c) ==
  /\ banker[c].at = "receiver"
  /\ \E b \in Written(banker[c], Other(banker[c].sender), banker[c].amount)
              \cup {[banker[c] EXCEPT !.written = FALSE]} :
       Become(c, [b EXCEPT !.at = "commit"])
  /\ UNCHANGED <<layout, rows, changed, books, torn, unbooked>>

CommitsHalves(b) == FALSE  \* mutant
\* A transfer in one transaction never commits half of it.
Aborts(b) == b.op = "transfer" /\ layout # "SeparateTables" /\ ~b.written

Stale(b, x) == b.seen[x] >= 0 /\ b.seen[x] # changed[x]
Conflicts(b) == \E x \in Accounts : Stale(b, x)

\* The tables are written one after the other, the sender's first: the accounts
\* whose changes are in the log when a commit fails, or was not answered.
LeftByFailure(b) ==
  {D \in SUBSET b.dirty :
     /\ D # {} => ~Aborts(b)
     /\ \A a \in D : /\ ~Stale(b, TableOf(a))
                     /\ \A e \in b.dirty : TableOf(e) = TableOf(a) \/ e = b.sender => e \in D}

\* What the books record of a committed operation
Recorded(b) ==
  IF ~b.written THEN [a \in Accounts |-> 0]
  ELSE [a \in Accounts |->
         IF a = b.sender /\ b.op # "deposit" THEN -b.amount
         ELSE IF b.op = "deposit" \/ (b.op = "transfer" /\ layout # "SeparateTables")
         THEN (IF a = b.sender THEN 0 ELSE b.amount) ELSE 0]

\* The changes of the accounts D are in the log.
Writes(b, D) ==
  /\ rows' = [a \in Accounts |-> IF a \in D THEN b.view[a] ELSE rows[a]]
  /\ changed' = [x \in Accounts |-> IF \E a \in D : TableOf(a) = x THEN changed[x] + 1 ELSE changed[x]]
  /\ torn' = torn \cup {a \in D : b.view[a] = <<>>}

\* commit() succeeded: the changes are in the tables and in the books.  The
\* transfer of layout SeparateTables goes on with the deposit.
CommitSucceeds(c) ==
  LET b == banker[c]
  IN /\ b.at = "commit" /\ ~Aborts(b) /\ ~Conflicts(b)
     /\ Writes(b, b.dirty)
     /\ books' = [books EXCEPT ![c] = [a \in Accounts |-> @[a] + Recorded(b)[a]]]
     /\ IF b.op = "transfer" /\ layout = "SeparateTables" /\ b.written
        THEN Become(c, [NewBanker EXCEPT !.at = "deposit", !.op = "deposit",
                          !.sender = b.sender, !.amount = b.amount, !.ops = b.ops])
        ELSE Leave(c)
     /\ UNCHANGED <<layout, unbooked>>

\* abort(), a conflict, or a commit() that fails: the operation returns 1 and
\* books nothing, whatever the commit has left in the log.
CommitFails(c) ==
  LET b == banker[c]
  IN /\ b.at = "commit"
     /\ \E D \in LeftByFailure(b) :
          /\ Writes(b, D)
          /\ unbooked' = [a \in Accounts |-> IF a \in D THEN unbooked[a] + Recorded(b)[a] ELSE unbooked[a]]
     /\ Leave(c)
     /\ UNCHANGED <<layout, books>>

\* The second transaction of a transfer between separate tables; if it does
\* not commit, the money left the sender and did not arrive.
BeginDeposit(c) ==
  /\ banker[c].at = "deposit"
  /\ \/ Become(c, [Opened(banker[c], Other(banker[c].sender)) EXCEPT !.at = "receiver"])
     \/ Leave(c)
  /\ UNCHANGED <<layout, rows, changed, books, torn, unbooked>>

BankInit ==
  /\ layout \in BankLayouts
  /\ rows = [a \in Accounts |-> <<Opening>>]
  /\ changed = [x \in Accounts |-> 0]
  /\ banker = [c \in Bankers |-> NewBanker]
  /\ books = [c \in Bankers |-> [a \in Accounts |-> 0]]
  /\ torn = {}
  /\ unbooked = [a \in Accounts |-> 0]

BankNext ==
  \E c \in Bankers :
    \/ StartOperation(c) \/ OpenReceiver(c) \/ ChangeSender(c) \/ ChangeReceiver(c)
    \/ CommitSucceeds(c) \/ CommitFails(c) \/ BeginDeposit(c)

BankSpec == BankInit /\ [][BankNext]_bankVars

-----------------------------------------------------------------------------
\* The types of the variables.
BankTypeOK ==
  /\ layout \in BankLayouts
  /\ \A a \in Accounts : rows[a] \in Seq(Int)
  /\ changed \in [Accounts -> Nat]
  /\ \A c \in Bankers : banker[c].at \in Steps /\ banker[c].sender \in Accounts
                        /\ banker[c].ops \in 0..MaxBankOps
  /\ books \in [Bankers -> [Accounts -> Int]]
  /\ torn \subseteq Accounts
  /\ unbooked \in [Accounts -> Int]

BookedOf(a) == MapThenSumSet(LAMBDA c : books[c][a], Bankers)

\* In every layout and whatever operations run at the same time, fail or
\* abort between, an account holds one row, and its balance is the opening
\* balance, plus what the books of all clients say, plus what commits changed
\* that reported a failure: no update is lost or made twice, and no operation
\* that succeeds leaves half of a transfer (lhtransactionsBanking.cpp).  Known
\* exceptions: commit() may report a failure when the first table of a transfer
\* or an unanswered write is in the log (unbooked), and a withdrawal whose new
\* row could not be written still commits the removal of the old one (torn).
BooksMatchTheBalances ==
  \A a \in Accounts \ torn : rows[a] = <<Opening + BookedOf(a) + unbooked[a]>>

=============================================================================
