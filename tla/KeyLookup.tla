----------------------------- MODULE KeyLookup -----------------------------
(***************************************************************************)
(* How an operation on a key finds the rows of the key in a data file:     *)
(* from the statistics of the file, which Delta lets every writer truncate *)
(* or leave out, and, where they do not prove anything, from its rows.     *)
(*                                                                         *)
(* A character of a string is its code point; UTF-8 keeps their order.     *)
(* Dates are numbers.  A value that may be missing is a set of at most one *)
(* element.                                                                *)
(***************************************************************************)
EXTENDS Integers, Sequences, FiniteSets

CONSTANTS
  Chars,         \* the characters of the strings
  Tie,           \* the character that ends a truncated maximum
  MaxLength,     \* bound on the length of strings
  Numbers,       \* the numbers the column's type can hold
  OtherNumbers,  \* numbers in a key that it cannot hold
  Prefix,        \* STRING_STATS_PREFIX: where the statistics may be truncated
  WriterPrefixes,\* where the writers of the files truncate
  MaxRows,       \* bound on the rows of a chunk of the file
  NullStats      \* the statistics may contain an explicit null

ASSUME KeyLookupAssumption ==
  /\ {Prefix, MaxLength, MaxRows} \subseteq Nat
  /\ Chars \subseteq Nat /\ Tie \in Nat
  /\ Numbers \subseteq Int /\ OtherNumbers \subseteq Int
  /\ WriterPrefixes \subseteq Nat
  /\ \A w \in WriterPrefixes : w >= Prefix

VARIABLES
  kind,    \* the type of the first column: a string, a number, another type
  chunks,  \* the data file: its rows in two chunks, of each row the first column
  stats,   \* its statistics as the log has them
  key,     \* the key that is looked for
  exact,   \* read_exact: files that are proved to be the key's are read as well
  look,    \* the step of the lookup
  found,   \* the rows it finds
  rest     \* the rows that remain when they are removed

klVars == <<kind, chunks, stats, key, exact, look, found, rest>>

Strings == UNION {[1..n -> Chars] : n \in 0..MaxLength}
ValuesOf(k) == IF k = "string" THEN Strings ELSE Numbers
Optional(S) == {{}} \cup {{v} : v \in S}
Rows == chunks[1] \o chunks[2]

-----------------------------------------------------------------------------
(* Order *)

\* s < t: in the first place where they differ, or as a shorter beginning
IsBelow(s, t) ==
  \/ Len(s) < Len(t) /\ \A i \in 1..Len(s) : s[i] = t[i]
  \/ \E i \in 1..Len(s) : /\ i <= Len(t) /\ s[i] < t[i]
                          /\ \A j \in 1..(i - 1) : s[j] = t[j]
StartsWith(s, p) == Len(p) <= Len(s) /\ \A i \in 1..Len(p) : s[i] = p[i]

\* first_code_points
FirstChars(s, n) == IF Len(s) <= n THEN s ELSE SubSeq(s, 1, n)

-----------------------------------------------------------------------------
(* What a writer may say of a file whose smallest and largest value are lo *)
(* and hi: string_min_max and integer_min_max write them as they are, other *)
(* engines truncate strings after w characters.                            *)

TruncatedMaxima(hi, w) ==
  IF Len(hi) <= w THEN {hi}
  ELSE {SubSeq(hi, 1, w)} \cup
       {Append(SubSeq(hi, 1, n), Tie) :
          n \in {n \in w..Len(hi) : /\ \A j \in w+1..n : hi[j] >= Tie
                                    /\ n < Len(hi) => hi[n + 1] < Tie}}

NotAbove(k, v, x) == IF k = "string" THEN ~IsBelow(x, v) ELSE v <= x
Present(rows) == UNION {rows[i] : i \in DOMAIN rows}
Lowest(k, S) == CHOOSE v \in S : \A x \in S : NotAbove(k, v, x)
Highest(k, S) == CHOOSE v \in S : \A x \in S : NotAbove(k, x, v)

\* The column's statistics, under its name, in other case, or without an entry
Names == {"same", "other case", "missing"}
StatsOf(k, rows) ==
  LET S == Present(rows)
      minima(w) == IF k = "string" THEN {FirstChars(Lowest(k, S), w)} ELSE {Lowest(k, S)}
      maxima(w) == IF k = "string" THEN TruncatedMaxima(Highest(k, S), w) ELSE {Highest(k, S)}
  IN {[name |-> n, min |-> {}, max |-> {}, records |-> r] :
        n \in Names, r \in {-1, Len(rows)}}
     \cup (IF S = {} THEN IF NullStats /\ k = "string"
                          THEN {[name |-> "same", min |-> {<<>>}, max |-> {<<>>},
                                 records |-> Len(rows)]}
                          ELSE {}
           ELSE UNION {{[name |-> n, min |-> {a}, max |-> {b}, records |-> r] :
                          n \in Names \ {"missing"}, a \in minima(w), b \in maxima(w),
                          r \in {-1, Len(rows)}} : w \in WriterPrefixes})

-----------------------------------------------------------------------------
(* KeyMatcher *)

\* Mutant: a truncated maximum is compared as it is.
MatchShort(min, max, records) ==
  IF IsBelow(key, min) \/ IsBelow(max, key) THEN "None"
  ELSE IF records = 1 /\ min = key /\ max = key /\ Len(key) < Prefix
       THEN "Exact" ELSE "Possible"

\* A truncated minimum is a beginning of the real one; a truncated maximum
\* shares its first characters with the real one.
MatchString(min, max, records) ==
  IF IsBelow(key, min) THEN "None"
  ELSE IF IsBelow(max, key) /\ (Len(max) < Prefix \/ ~StartsWith(key, FirstChars(max, Prefix)))
  THEN "None"
  ELSE IF records = 1 /\ min = key /\ max = key /\ Len(key) < Prefix
       THEN "Exact" ELSE "Possible"

MatchNumber(min, max, records) ==
  IF key < min \/ key > max THEN "None"
  ELSE IF records = 1 /\ min = key /\ max = key THEN "Exact" ELSE "Possible"

\* The key is a value of the column's type.
Valid == key \in ValuesOf(kind)

Classify ==
  IF ~Valid \/ stats.records = 0 THEN "None"
  ELSE IF stats.min = {} \/ stats.max = {} \/ stats.name = "missing" \/ kind = "other"
  THEN "Possible"
  ELSE LET min == CHOOSE v \in stats.min : TRUE
           max == CHOOSE v \in stats.max : TRUE
       IN IF kind = "string" THEN MatchString(min, max, stats.records)
          ELSE MatchNumber(min, max, stats.records)

-----------------------------------------------------------------------------
(* find_key_files, and the rows that remove_key_rows leaves *)

\* rows_of: chunk by chunk, counted from the beginning of the column
Matches(chunk) == {i \in DOMAIN chunk : chunk[i] = {key}}
RowsOf == Matches(chunks[1]) \cup {Len(chunks[1]) + i : i \in Matches(chunks[2])}

LookAtStats ==
  /\ look = "stats"
  /\ CASE Classify = "None" -> look' = "found" /\ UNCHANGED found
       [] Classify = "Exact" /\ ~exact -> look' = "found" /\ found' = 1..Len(Rows)
       [] OTHER -> look' = "read" /\ UNCHANGED found
  /\ UNCHANGED <<kind, chunks, stats, key, exact, rest>>

\* The file is read, or cannot be read.
ReadFile ==
  /\ look = "read"
  /\ \/ look' = "found" /\ found' = RowsOf
     \/ look' = "failed" /\ UNCHANGED found
  /\ UNCHANGED <<kind, chunks, stats, key, exact, rest>>

\* select_rows of other_rows: the indices that were not found, ascending
OtherRows ==
  LET others == (1..Len(Rows)) \ found
  IN CHOOSE f \in [1..Cardinality(others) -> others] :
       \A i, j \in DOMAIN f : i < j => f[i] < f[j]
\* remove_key_rows: the file is replaced by one with its other rows.
ReplaceFile ==
  /\ look = "found"
  /\ look' = "removed"
  /\ rest' = [i \in DOMAIN OtherRows |-> Rows[OtherRows[i]]]
  /\ UNCHANGED <<kind, chunks, stats, key, exact, found>>

Chunks(k) == UNION {[1..n -> Optional(ValuesOf(k))] : n \in 0..MaxRows}

KlInit ==
  /\ kind \in {"string", "number", "other"}
  /\ \E first, second \in Chunks(kind) : chunks = <<first, second>>
  /\ stats \in StatsOf(kind, Rows)
  /\ key \in ValuesOf(kind) \cup (IF kind = "string" THEN {} ELSE OtherNumbers)
  /\ exact \in BOOLEAN
  /\ look = "stats"
  /\ found = {}
  /\ rest = <<>>

KlNext == LookAtStats \/ ReadFile \/ ReplaceFile

KlSpec == KlInit /\ [][KlNext]_klVars

-----------------------------------------------------------------------------
(* Properties *)

KlTypeOK ==
  /\ look \in {"stats", "read", "found", "removed", "failed"}
  /\ found \in SUBSET (1..Len(Rows))

\* The rows that remain are the rows of the file but for those of the key, in
\* their order.
OtherRowsRemain ==
  \E from \in [DOMAIN rest -> 1..Len(Rows)] :
    /\ \A i, j \in DOMAIN rest : i < j => from[i] < from[j]
    /\ {from[i] : i \in DOMAIN rest} = {i \in 1..Len(Rows) : Rows[i] # {key}}
    /\ \A i \in DOMAIN rest : rest[i] = Rows[from[i]]

\* Whatever a legal writer says of a file, an operation on a key finds all
\* rows of the key and no other row: statistics never hide a row and never
\* prove more than the file holds.  The file that replaces it when they are
\* removed keeps all its other rows, in their order.
KeyRowsAreFound ==
  /\ look = "found" => found = {i \in 1..Len(Rows) : Rows[i] = {key}}
  /\ look = "removed" => OtherRowsRemain
=============================================================================
