------------------------------ MODULE Schemas ------------------------------
(***************************************************************************)
(* The schema of a table: what create_table makes of an Arrow schema, how  *)
(* it is read back, how rows are converted to it before they are written   *)
(* and data files when they are read, while another engine adds and        *)
(* renames columns and writes files itself.                                *)
(*                                                                         *)
(* A value that may be null is a set: {} or {v}.  A result that may be an  *)
(* error is a set as well: {} or {result}.                                 *)
(***************************************************************************)
EXTENDS Conversions, Sequences, FiniteSets, SequencesExt

CONSTANTS GivenSchemas,  \* the Arrow schemas that create_table is called with
          Atoms,         \* the values of integers, strings and timestamps
  MappedPartitions  \* tables with column mapping may have partition columns

VARIABLES
  given,    \* the Arrow schema of create_table
  table,    \* the columns in the metaData action, in Delta types
  features, \* the features of the protocol action
  mapping,  \* the table has column mapping (by another engine)
  file,     \* the columns of a data file
  parts,    \* its values of partition columns, which are in the log only
  values,   \* history: values[id]: what was written into column id
  readRow,   \* what a read returns
  scStep

scVars == <<given, table, features, mapping, file, parts, values, readRow, scStep>>

-----------------------------------------------------------------------------
(* Types.  Arrow: [kind, ...]; Delta: the same with the kinds of Delta.    *)

Leaf(k) == [kind |-> k]
Stamp(unit, tz) == [kind |-> "timestamp", unit |-> unit, tz |-> tz]
Dictionary(of) == [kind |-> "dictionary", of |-> of]
ListOf(k, of, null) == [kind |-> k, of |-> of, null |-> null]
MapOf(key, of, null) == [kind |-> "map", key |-> key, of |-> of, null |-> null]
Struct(fields) == [kind |-> "struct", fields |-> fields]
Field(name, type, null) == [name |-> name, type |-> type, null |-> null]

\* Names that differ in case only are one column.
Lower(name) == CASE name = "A" -> "a" [] name = "B" -> "b" [] OTHER -> name
ValidNames == {"a", "b", "A", "B"}

DeltaOf == [string |-> "string", large_string |-> "string", int32 |-> "integer",
            int64 |-> "long", null |-> "void"]
Kinds == DOMAIN DeltaOf \ {"null"}

\* Converter::type and Converter::fields: Arrow to Delta
RECURSIVE ToDelta(_)
FieldsToDelta(fields) ==
  LET types == [i \in DOMAIN fields |-> ToDelta(fields[i].type)] IN
  IF \/ fields = <<>>
     \/ \E i \in DOMAIN fields : types[i] = {} \/ fields[i].name \notin ValidNames
     \/ \E i, j \in DOMAIN fields : i # j /\ Lower(fields[i].name) = Lower(fields[j].name)
  THEN {}
  ELSE {[i \in DOMAIN fields |->
           [fields[i] EXCEPT !.type = CHOOSE t \in types[i] : TRUE]]}
ToDelta(t) ==
  CASE t.kind \in Kinds -> {Leaf(DeltaOf[t.kind])}
    [] t.kind = "timestamp" -> {Leaf(IF t.tz THEN "timestamp" ELSE "timestamp_ntz")}
    [] t.kind = "dictionary" -> ToDelta(t.of)
    [] t.kind \in {"list", "large_list"} -> {ListOf("array", of, t.null) : of \in ToDelta(t.of)}
    [] t.kind = "map" ->
         UNION {{MapOf(key, of, t.null) : of \in ToDelta(t.of)} : key \in ToDelta(t.key)}
    [] t.kind = "struct" -> {Struct(fields) : fields \in FieldsToDelta(t.fields)}
    [] OTHER -> {}   \* no Delta equivalent

\* Mutant: the types in lists, maps and structs need no features.
TopLevelOnly(t) == IF t.kind = "timestamp" /\ ~t.tz THEN {"timestampNtz"} ELSE {}
\* The features that the types of an Arrow type need
RECURSIVE FeaturesOf(_)
FeaturesOf(t) ==
  CASE t.kind = "timestamp" -> IF t.tz THEN {} ELSE {"timestampNtz"}
    [] t.kind \in {"dictionary", "list", "large_list"} -> FeaturesOf(t.of)
    [] t.kind = "map" -> FeaturesOf(t.key) \cup FeaturesOf(t.of)
    [] t.kind = "struct" -> UNION {FeaturesOf(t.fields[i].type) : i \in DOMAIN t.fields}
    [] OTHER -> {}

\* containsNull, valueContainsNull
ContainsNull(t) == t.null

\* Parser::type and Parser::fields: Delta to Arrow
RECURSIVE FromDelta(_)
FieldsFromDelta(fields) ==
  [i \in DOMAIN fields |-> [fields[i] EXCEPT !.type = FromDelta(@)]]
FromDelta(d) ==
  CASE d.kind = "string" -> Leaf("string")
    [] d.kind = "integer" -> Leaf("int32")
    [] d.kind = "long" -> Leaf("int64")
    [] d.kind = "timestamp" -> Stamp("us", TRUE)
    [] d.kind = "timestamp_ntz" -> Stamp("us", FALSE)
    [] d.kind = "array" -> ListOf("list", FromDelta(d.of), ContainsNull(d))
    [] d.kind = "map" -> MapOf(FromDelta(d.key), FromDelta(d.of), ContainsNull(d))
    [] d.kind = "struct" -> Struct(FieldsFromDelta(d.fields))

-----------------------------------------------------------------------------
(* conform_array: one value of an Arrow type to another one                *)

\* find_field: the exact name first, then without case; 0: there is none
FindField(fields, name) ==
  LET same == {i \in DOMAIN fields : fields[i].name = name}
      alike == {i \in DOMAIN fields : Lower(fields[i].name) = Lower(name)}
      first(S) == CHOOSE i \in S : \A j \in S : i <= j
  IN IF same # {} THEN first(same) ELSE IF alike # {} THEN first(alike) ELSE 0

\* Arrow's safe casts: an integer must fit, strings are strings.
SafeCast(v, from, to) ==
  CASE {from.kind, to.kind} \subseteq {"string", "large_string"} -> {{v}}
    [] from.kind = "dictionary" /\ to.kind = "string" -> {{v}}
    [] {from.kind, to.kind} \subseteq {"int32", "int64"} ->
         IF to.kind = "int64" \/ v \in MinInt..MaxInt THEN {{v}} ELSE {}
    [] OTHER -> {}

AllOf(results) ==
  IF \E i \in DOMAIN results : results[i] = {} THEN {}
  ELSE {[i \in DOMAIN results |-> CHOOSE r \in results[i] : TRUE]}

RECURSIVE Conform(_, _, _)
Conform(null, from, to) ==
  LET v == CHOOSE v \in null : TRUE IN
  IF from = to THEN {null}
  ELSE IF null = {} \/ from.kind = "null" THEN {{}}
  ELSE IF from.kind = "timestamp" /\ to.kind = "timestamp"
  THEN {{w} : w \in ConvertTimestamp(v, from.unit, to.unit)}
  ELSE IF from.kind = "struct" /\ to.kind = "struct"
  THEN LET fieldOf(i) == FindField(from.fields, to.fields[i].name) IN
       {{s} : s \in AllOf([i \in DOMAIN to.fields |->
          IF fieldOf(i) = 0 THEN {{}}
          ELSE Conform(v[fieldOf(i)], from.fields[fieldOf(i)].type, to.fields[i].type)])}
  ELSE IF from.kind \in {"list", "large_list"} /\ to.kind = "list"
  THEN {{s} : s \in AllOf([i \in DOMAIN v |-> Conform(v[i], from.of, to.of)])}
  ELSE IF from.kind = "map" /\ to.kind = "map"
  THEN \* entries by position: the first is the key whatever its name
       {{s} : s \in AllOf([i \in DOMAIN v |->
          AllOf(<<Conform(v[i][1], from.key, to.key), Conform(v[i][2], from.of, to.of)>>)])}
  ELSE SafeCast(v, from, to)

\* file_name: with column mapping the data files have physical names.
FileName(column) == IF mapping THEN column.phys ELSE column.name

\* conform_to_schema: for every column of the table its partition value, or its
\* value in the file's row; a missing one is null.
ConformRow(columns, partitions) ==
  AllOf([i \in DOMAIN table |->
    LET part == {p \in DOMAIN partitions : Lower(partitions[p].name) = Lower(table[i].name)}
        at == FindField(columns, FileName(table[i]))
        got == IF part # {} THEN {partitions[CHOOSE p \in part : TRUE].val}
               ELSE IF at = 0 THEN {{}}
               ELSE Conform(columns[at].val, columns[at].type, FromDelta(table[i].type))
    IN IF ~table[i].null THEN got \ {{}} ELSE got])

Used(columns) == {FindField(columns, FileName(table[i])) : i \in DOMAIN table}

-----------------------------------------------------------------------------
(* What is written and read *)

\* Values of a type, of those of a type that may be null
RECURSIVE TypeValues(_)
OrNull(S) == {{}} \cup {{v} : v \in S}
TypeValues(t) ==
  CASE t.kind \in {"int32", "string", "large_string"} -> Atoms \cap MinInt..MaxInt
    [] t.kind \in {"int64", "timestamp"} -> Atoms
    [] t.kind = "dictionary" -> TypeValues(t.of)
    [] t.kind \in {"list", "large_list"} -> {<<>>} \cup {<<{v}, {}>> : v \in TypeValues(t.of)}
    [] t.kind = "map" -> {<<>>} \cup {<< <<{k}, w>> >> :
                                        k \in TypeValues(t.key), w \in OrNull(TypeValues(t.of))}
    [] t.kind = "struct" ->
         LET fieldValues(i) == OrNull(TypeValues(t.fields[i].type)) IN
         {s \in [DOMAIN t.fields -> UNION {fieldValues(i) : i \in DOMAIN t.fields}] :
            \A i \in DOMAIN t.fields : s[i] \in fieldValues(i)}
    [] OTHER -> {}

Cell(id, name, type, val) == [id |-> id, name |-> name, type |-> type, val |-> val]
NoCell == Cell(0, "", Leaf("null"), {})
CellOf(columns, id) ==
  LET at == {i \in DOMAIN columns : columns[i].id = id} IN
  IF at = {} THEN NoCell ELSE columns[CHOOSE i \in at : TRUE]

OtherCase(name) == CASE name = "a" -> "A" [] name = "b" -> "B" [] OTHER -> name

\* The columns of a row as a client may give them: of the schema it created
\* the table with, in any order, in other case, without some, with another one
GivenRows(schema) ==
  LET order == {o \in UNION {[1..n -> DOMAIN schema] : n \in 1..Len(schema)} : IsInjective(o)}
      cells(i, name) == {Cell(i, name, schema[i].type, v) : v \in OrNull(TypeValues(schema[i].type))}
      rows(o) == LET named(i) == UNION {cells(o[i], n) : n \in {schema[o[i]].name,
                                                             OtherCase(schema[o[i]].name)}}
                 IN {r \in [DOMAIN o -> UNION {named(i) : i \in DOMAIN o}] :
                       \A i \in DOMAIN o : r[i] \in named(i)}
  IN UNION {rows(o) \cup {Append(r, Cell(9, "x", Leaf("int32"), {0})) : r \in rows(o)} : o \in order}

-----------------------------------------------------------------------------
Stop(step) == scStep' = step /\ UNCHANGED readRow

\* create_table: to_delta_schema
CreateTable ==
  /\ scStep = "create"
  /\ LET delta == FieldsToDelta(given) IN
     IF delta = {} THEN Stop("refused") /\ UNCHANGED <<table, features>>
     ELSE LET columns == CHOOSE d \in delta : TRUE IN
          /\ table' = [i \in DOMAIN columns |->
               [id |-> i, name |-> columns[i].name, phys |-> columns[i].name,
                type |-> columns[i].type, null |-> columns[i].null]]
          /\ features' = UNION {FeaturesOf(given[i].type) : i \in DOMAIN given}
          /\ Stop("open")
  /\ UNCHANGED <<given, mapping, file, parts, values>>

\* conform_for_write and the data file: no other columns, none with mapping
WriteRow ==
  /\ scStep = "open" /\ ~mapping
  /\ \E row \in GivenRows(given) :
       LET conformed == IF Used(row) \cup {0} = (DOMAIN row) \cup {0} THEN ConformRow(row, <<>>) ELSE {}
       IN /\ values' = row
          /\ IF conformed = {} THEN Stop("rejected") /\ UNCHANGED file
             ELSE /\ file' = [i \in DOMAIN table |->
                       Cell(table[i].id, table[i].name, FromDelta(table[i].type),
                            (CHOOSE c \in conformed : TRUE)[i])]
                  /\ Stop("written")
  /\ UNCHANGED <<given, table, features, mapping, parts>>

\* Another engine writes a file: with its own types, under the names of files;
\* it may keep the first column, if it is a string, as a partition column.
ForeignType(d) ==
  CASE d.kind = "string" -> {Leaf("string"), Dictionary(Leaf("string"))}
    [] d.kind \in {"timestamp", "timestamp_ntz"} ->
         {Stamp("us", FALSE), Stamp("ns", FALSE), Stamp("s", TRUE)}
    [] OTHER -> {FromDelta(d)}
ForeignFile ==
  /\ scStep = "open"
  /\ \E row \in [DOMAIN table ->
         UNION {UNION {{Cell(table[i].id, FileName(table[i]), t, {v}) : v \in TypeValues(t)} :
                         t \in ForeignType(table[i].type)} : i \in DOMAIN table}] :
       /\ \A i \in DOMAIN table : row[i].id = table[i].id
       /\ values' = row
       /\ \/ file' = row /\ parts' = <<>>
          \/ /\ mapping => MappedPartitions
             /\ table[1].type.kind = "string"
             /\ parts' = <<row[1]>>
             /\ file' = Tail(row)
  /\ Stop("written")
  /\ UNCHANGED <<given, table, features, mapping>>

\* Another engine adds a column, or renames one (with column mapping: the data
\* files keep their names).
AddColumn ==
  /\ scStep \in {"open", "written"} /\ \A i \in DOMAIN table : table[i].id # 3
  /\ \E name \in {"a", "b"} :
       /\ \A i \in DOMAIN table : Lower(table[i].name) # name
       /\ mapping \/ \A i \in DOMAIN table : Lower(table[i].phys) # name
       /\ table' = Append(table, [id |-> 3, name |-> name,
                                  phys |-> IF mapping THEN "col" ELSE name,
                                  type |-> Leaf("integer"), null |-> TRUE])
  /\ UNCHANGED <<given, features, mapping, file, parts, values, readRow, scStep>>
RenameColumn ==
  /\ scStep \in {"open", "written"} /\ ~mapping
  /\ parts = <<>> \/ MappedPartitions
  /\ mapping' = TRUE
  /\ \E i \in DOMAIN table : \E name \in {"a", "b"} :
       /\ \A j \in DOMAIN table : Lower(table[j].name) # name
       /\ table' = [table EXCEPT ![i].name = name]
  /\ UNCHANGED <<given, features, file, parts, values, readRow, scStep>>

\* read_data_file: the file is converted, or does not match.
ReadRow ==
  /\ scStep = "written"
  /\ LET conformed == ConformRow(file, parts) IN
     IF conformed = {} THEN Stop("mismatch")
     ELSE scStep' = "read" /\ readRow' \in conformed
  /\ UNCHANGED <<given, table, features, mapping, file, parts, values>>

ScInit ==
  /\ given \in GivenSchemas
  /\ table = <<>> /\ features = {} /\ mapping = FALSE
  /\ file = <<>> /\ parts = <<>> /\ values = <<>> /\ readRow = <<>>
  /\ scStep = "create"

ScNext == CreateTable \/ WriteRow \/ ForeignFile \/ AddColumn \/ RenameColumn \/ ReadRow

ScSpec == ScInit /\ [][ScNext]_scVars

-----------------------------------------------------------------------------
(* Properties *)

ScTypeOK ==
  /\ features \subseteq {"timestampNtz"}
  /\ mapping \in BOOLEAN
  /\ scStep \in {"create", "refused", "open", "rejected", "written", "mismatch", "read"}
  /\ scStep = "read" => DOMAIN readRow = DOMAIN table

\* The same value: timestamps in another unit, fields of structs by name
RECURSIVE SameValue(_, _, _, _)
SameValue(null, from, got, to) ==
  LET v == CHOOSE v \in null : TRUE
      w == CHOOSE w \in got : TRUE
  IN IF null = {} \/ got = {} THEN null = got
     ELSE CASE to.kind = "timestamp" -> IsSameTime(w, v, from.unit, to.unit)
            [] to.kind = "list" ->
                 /\ Len(v) = Len(w)
                 /\ \A i \in DOMAIN v : SameValue(v[i], from.of, w[i], to.of)
            [] to.kind = "map" ->
                 /\ Len(v) = Len(w)
                 /\ \A i \in DOMAIN v : /\ SameValue(v[i][1], from.key, w[i][1], to.key)
                                        /\ SameValue(v[i][2], from.of, w[i][2], to.of)
            [] to.kind = "struct" ->
                 \A i \in DOMAIN to.fields : \E j \in DOMAIN from.fields :
                   /\ from.fields[j].name = to.fields[i].name
                   /\ SameValue(v[j], from.fields[j].type, w[i], to.fields[i].type)
            [] OTHER -> v = w

\* Whatever names, order and types the columns of a file have, and whatever was
\* renamed or added meanwhile, a read returns for every column of the table
\* what was written into this column, and null for one that the file is older
\* than.
ReadsWhatWasWritten ==
  scStep = "read" =>
    \A i \in DOMAIN table :
      LET cell == CellOf(values, table[i].id) IN
      SameValue(cell.val, cell.type, readRow[i], FromDelta(table[i].type))

\* "partition columns take the file's partitionValues": so also in a table with
\* column mapping, whose partitionValues use the physical names.
PartitionColumnsTakeTheirValues ==
  scStep = "read" =>
    \A p \in DOMAIN parts : \A i \in DOMAIN table :
      table[i].id = parts[p].id => readRow[i] = parts[p].val

\* The metaData action says what create_table was given: reading it and writing
\* it again changes nothing, and the protocol names the feature that its types
\* need wherever they are nested.
RECURSIVE Mentions(_, _)
Mentions(d, kind) ==
  CASE d.kind = "array" -> Mentions(d.of, kind)
    [] d.kind = "map" -> Mentions(d.key, kind) \/ Mentions(d.of, kind)
    [] d.kind = "struct" -> \E i \in DOMAIN d.fields : Mentions(d.fields[i].type, kind)
    [] OTHER -> d.kind = kind
SchemaIsReadAsWritten ==
  scStep = "open" =>
    /\ \A i \in DOMAIN table : ToDelta(FromDelta(table[i].type)) = {table[i].type}
    /\ ("timestampNtz" \in features)
         = (\E i \in DOMAIN table : Mentions(table[i].type, "timestamp_ntz"))

\* A row of the schema that the table was created with is taken, unless it has
\* a null where there must be none, lacks such a column, has another column, or
\* a timestamp is out of range; and a file is readable when its values are.
OutOfRange(cell) ==
  \E v \in cell.val :
    cell.type.kind = "timestamp" /\ ~\E w \in Longs : IsSameTime(w, v, cell.type.unit, "us")
RowsAreRefusedForAReason ==
  scStep \in {"rejected", "mismatch"} =>
    \/ CellOf(values, 9) # NoCell
    \/ \E i \in DOMAIN table : ~table[i].null /\ CellOf(values, table[i].id).val = {}
    \/ \E i \in DOMAIN values : OutOfRange(values[i])
=============================================================================
