---------------------------- MODULE SubLogProofs ----------------------------
(***************************************************************************)
(* Proofs about the log of a transaction and its redo, for all keys,       *)
(* layouts of the table and numbers of operations: the commit, redone on   *)
(* whatever version it meets, keeps the rows of the keys that the          *)
(* transaction does not name, and adds none.  A delete by key that is only *)
(* noted in the log takes its file with it, so the theorem is about        *)
(* transactions whose deletes are executed at once (DeletesAtOnce).        *)
(***************************************************************************)
EXTENDS SubLog, FiniteSetTheorems, TLAPS

\* The records of the model
TableRows == [key : Keys, val : Seq(Nat)]
DataFiles == [rows : SUBSET TableRows, update : Nat]
OpRecords ==
  [kind : {"none", "update", "updateInThreads", "delete"}, key : Keys, id : Nat,
   read : SUBSET TableRows]
Performed == [kind : {"update", "updateInThreads", "insert", "delete"}, key : Keys, id : Nat]
SubSteps ==
  [command : {"missing", "r", "s", "a", "d", "d found", "e found"}, key : Keys,
   file : Nat, index : Nat]
\* What is left to a thread of an operation; ToLog: its first step is the one
\* that only notes the removal
Remaining ==
  {<<>>, <<"find", "remove", "add">>, <<"remove", "add">>, <<"logRemove", "add">>,
   <<"find", "remove">>, <<"remove">>, <<"logRemove">>, <<"add">>}
ToLog == {<<"logRemove", "add">>, <<"logRemove">>}

\* Types: the files, the log, and the running operation
FileTypes ==
  /\ files \in Seq(DataFiles)
  /\ base \subseteq DOMAIN files /\ live \subseteq DOMAIN files
  /\ DOMAIN created \subseteq DOMAIN files
  /\ created \in [DOMAIN created -> {"valid", "invalid"}]
  /\ DOMAIN deleted \subseteq DOMAIN files
  /\ deleted \in [DOMAIN deleted -> {"valid", "invalid"}]
  /\ targets \subseteq DOMAIN files /\ foundFiles \subseteq DOMAIN files
  /\ retired \subseteq DOMAIN files

LogTypes ==
  /\ performed \in Seq(Performed) /\ executed \subseteq DOMAIN performed
  /\ updateVals \in Seq(Nat) /\ updateOps \in Seq(Nat)
  /\ Len(updateOps) <= Len(updateVals) /\ Len(updateVals) <= Len(performed)
  /\ Len(updateVals) <= MaxOps
  /\ sublog \in Seq(SubSteps) /\ at \in 0..(Len(sublog) + 1)

OpTypes ==
  /\ explicitLog \in BOOLEAN
  /\ op \in OpRecords /\ todo \in [remover : Remaining, adder : Remaining]
  /\ foundKey \in Keys
  /\ phase \in {"work", "wait", "redo", "write", "committed"}

\* The keys that operations name
NamedKeys == {performed[i].key : i \in DOMAIN performed}
\* Every delete was executed when it was called.
DeletesAtOnce == \A i \in DOMAIN performed : performed[i].kind = "delete" => i \in executed

\* What the running operation may be
Operation ==
  /\ op = NoOp => todo.remover = <<>> /\ todo.adder = <<>>
  /\ op # NoOp =>
       /\ phase = "work" /\ op.key \in NamedKeys
       /\ \A r \in op.read : r.key = op.key
       /\ op.id \in DOMAIN performed /\ performed[op.id].kind = op.kind
       /\ op.id \in executed => explicitLog
  /\ explicitLog => todo.remover \notin ToLog /\ todo.adder \notin ToLog
  /\ phase = "redo" => at >= 1

\* What the steps of the sublog refer to
StepsRefer ==
  /\ \A i \in DOMAIN sublog :
       /\ sublog[i].command = "a" => sublog[i].file \in DOMAIN created
       /\ sublog[i].command = "d" => sublog[i].file \in DOMAIN files
       /\ sublog[i].command = "s" => sublog[i].key \in NamedKeys
  /\ foundFiles = {} \/ foundKey \in NamedKeys

\* The files of others that this transaction has removed
Gone == DOMAIN deleted \ DOMAIN created
\* Its own files that are valid and stay so
NotedFiles == {sublog[i].file : i \in {j \in DOMAIN sublog : sublog[j].command = "d"}}
Lasting == {f \in DOMAIN created : created[f] = "valid" /\ f \notin NotedFiles}
\* Row r is in a file of S.
Holds(S, r) == \E f \in S : r \in files[f].rows

\* A row that no operation names is in the files of this transaction if and
\* only if it is in a file that was removed for them.
RowsMove ==
  /\ \A f \in Gone : deleted[f] = "valid"
  /\ \A f \in DOMAIN created : \A r \in files[f].rows :
       r.key \notin NamedKeys => Holds(Gone, r)
  /\ DeletesAtOnce =>
       \A f \in Gone : \A r \in files[f].rows : r.key \notin NamedKeys => Holds(Lasting, r)
  /\ phase # "committed" => base \cap DOMAIN created = {}

\* The inductive invariant
SubInv ==
  /\ FileTypes /\ LogTypes /\ OpTypes /\ Operation /\ StepsRefer /\ RowsMove
  /\ OtherRowsStay

-----------------------------------------------------------------------------
(* Sets of rows and files *)

\* SetToSeq lists every element of a finite set.
LEMMA ListsAll ==
  ASSUME NEW S, IsFiniteSet(S)
  PROVE  /\ SetToSeq(S) \in [1..Cardinality(S) -> S] /\ Cardinality(S) \in Nat
         /\ \A x \in S : \E i \in 1..Cardinality(S) : SetToSeq(S)[i] = x
<1> DEFINE n == Cardinality(S)
           l == SetToSeq(S)
<1>1. n \in Nat /\ ExistsBijection(1..n, S)
  BY FS_CardinalityType
<1>2. \E f \in [1..n -> S] : IsInjective(f)
  BY <1>1 DEF ExistsBijection, Bijection, Injection
<1>3. l \in [1..n -> S] /\ IsInjective(l)
  BY <1>2 DEF SetToSeq
<1> HIDE DEF l
<1>4. l \in Injection(1..n, S)
  BY <1>3 DEF Injection
<1>5. IsFiniteSet(1..n) /\ Cardinality(1..n) = n
  BY <1>1, FS_Interval
<1>6. l \in Surjection(1..n, S)
  BY <1>4, <1>5, FS_Injection
<1> QED BY <1>1, <1>3, <1>6 DEF Surjection, l

\* Two sequences, one after the other
LEMMA Appended ==
  ASSUME NEW X, NEW s \in Seq(X), NEW t \in Seq(X)
  PROVE  /\ s \o t \in Seq(X) /\ Len(s \o t) = Len(s) + Len(t)
         /\ Len(s) \in Nat /\ Len(t) \in Nat
         /\ DOMAIN s = 1..Len(s) /\ DOMAIN t = 1..Len(t) /\ DOMAIN (s \o t) = 1..(Len(s) + Len(t))
         /\ \A i \in 1..Len(s) : (s \o t)[i] = s[i]
         /\ \A j \in 1..Len(t) : (s \o t)[Len(s) + j] = t[j]
OBVIOUS

\* What is appended to the sublog
LEMMA LogStepsDoes ==
  ASSUME sublog \in Seq(SubSteps), NEW steps \in Seq(SubSteps), LogSteps(steps)
  PROVE  /\ sublog' \in Seq(SubSteps) /\ Len(sublog') = Len(sublog) + Len(steps)
         /\ \A i \in DOMAIN sublog : i \in DOMAIN sublog' /\ sublog'[i] = sublog[i]
         /\ \A i \in DOMAIN sublog' \ DOMAIN sublog :
              sublog'[i].command # "missing" => \E j \in DOMAIN steps : sublog'[i] = steps[j]
<1>1. NoStep \in SubSteps /\ NoStep.command = "missing"
  <2>1. NoOp.key \in Keys
    BY SubLogAssumption DEF NoOp
  <2> QED BY <2>1 DEF NoStep, Step, SubSteps
<1>2. PICK s \in Seq(SubSteps) :
        /\ sublog' = sublog \o s /\ Len(s) = Len(steps)
        /\ \A j \in DOMAIN s : s[j] = steps[j] \/ s[j] = NoStep
  <2>1. CASE sublog' = sublog \o steps
    BY <2>1
  <2>2. CASE sublog' # sublog \o steps
    <3>1. PICK i \in DOMAIN steps : sublog' = sublog \o [steps EXCEPT ![i] = NoStep]
      BY <2>2 DEF LogSteps
    <3> DEFINE s == [steps EXCEPT ![i] = NoStep]
    <3>2. s \in Seq(SubSteps) /\ Len(s) = Len(steps) /\ DOMAIN s = DOMAIN steps
      BY <1>1
    <3>3. \A j \in DOMAIN s : s[j] = steps[j] \/ s[j] = NoStep
      BY <3>2
    <3> QED BY <3>1, <3>2, <3>3
  <2> QED BY <2>1, <2>2
<1>3. /\ sublog' \in Seq(SubSteps) /\ Len(sublog') = Len(sublog) + Len(steps)
      /\ DOMAIN sublog = 1..Len(sublog) /\ DOMAIN sublog' = 1..(Len(sublog) + Len(s))
      /\ DOMAIN s = 1..Len(s) /\ DOMAIN steps = 1..Len(steps)
  <2> DEFINE g == sublog \o s
  <2>1. s \in Seq(SubSteps) /\ sublog \in Seq(SubSteps)
    BY <1>2
  <2>2. /\ g \in Seq(SubSteps) /\ Len(g) = Len(sublog) + Len(s)
        /\ DOMAIN sublog = 1..Len(sublog) /\ DOMAIN g = 1..(Len(sublog) + Len(s))
        /\ DOMAIN s = 1..Len(s)
    BY ONLY <2>1, Appended
  <2> QED BY <1>2, <2>2
<1>4. \A i \in DOMAIN sublog : i \in DOMAIN sublog' /\ sublog'[i] = sublog[i]
  BY <1>2, <1>3
<1>5. ASSUME NEW i \in DOMAIN sublog' \ DOMAIN sublog, sublog'[i].command # "missing"
      PROVE  \E j \in DOMAIN steps : sublog'[i] = steps[j]
  <2>1. i - Len(sublog) \in DOMAIN s /\ sublog'[i] = s[i - Len(sublog)]
    BY <1>2, <1>3
  <2> QED BY <1>1, <1>2, <1>3, <1>5, <2>1
<1> QED BY <1>3, <1>4, <1>5

\* The files that are written when rows are replaced hold the other rows of
\* the old files, and the new ones.
LEMMA RestIs ==
  ASSUME files \in Seq(DataFiles), NEW S \in SUBSET DOMAIN files, NEW k \in Keys
  PROVE  /\ RestFiles(S, k) \in Seq(DataFiles)
         /\ \A i \in DOMAIN RestFiles(S, k) : \A r \in RestFiles(S, k)[i].rows :
              r.key # k /\ Holds(S, r)
         /\ \A r : r.key # k /\ Holds(S, r) =>
              \E i \in DOMAIN RestFiles(S, k) : r \in RestFiles(S, k)[i].rows
<1> DEFINE M == {f \in S : \E r \in files[f].rows : r.key # k}
           m == SetToSeq(M)
           R == [i \in DOMAIN m |-> DataFile({r \in files[m[i]].rows : r.key # k}, NoUpdate)]
<1>1. IsFiniteSet(M)
  <2>1. IsFiniteSet(1..Len(files)) /\ M \in SUBSET (1..Len(files))
    BY FS_Interval
  <2> QED BY <2>1, FS_Subset
<1>2. /\ m \in [1..Cardinality(M) -> M] /\ Cardinality(M) \in Nat
      /\ \A x \in M : \E i \in 1..Cardinality(M) : m[i] = x
  BY <1>1, ListsAll
<1>3. RestFiles(S, k) = R
  BY DEF RestFiles
<1> HIDE DEF m
<1>4. \A i \in DOMAIN m : m[i] \in M /\ files[m[i]] \in DataFiles
  BY <1>2
<1>5. ASSUME NEW i \in DOMAIN m PROVE R[i] \in DataFiles /\ R[i].rows = {r \in files[m[i]].rows : r.key # k}
  BY <1>4 DEF DataFile, DataFiles, NoUpdate
<1>6. DOMAIN R = 1..Cardinality(M) /\ DOMAIN m = 1..Cardinality(M)
  BY <1>2
<1> HIDE DEF R
<1>7. R \in Seq(DataFiles)
  <2>1. R = [i \in 1..Cardinality(M) |-> R[i]]
    BY <1>6 DEF R
  <2>2. \A i \in 1..Cardinality(M) : R[i] \in DataFiles
    BY <1>5, <1>6
  <2> HIDE DEF M
  <2> QED BY <1>2, <2>1, <2>2
<1>8. \A i \in DOMAIN R : \A r \in R[i].rows : r.key # k /\ Holds(S, r)
  BY <1>4, <1>5, <1>6 DEF Holds
<1>9. ASSUME NEW r, r.key # k, Holds(S, r)
      PROVE  \E i \in DOMAIN R : r \in R[i].rows
  <2>1. PICK f \in S : r \in files[f].rows
    BY <1>9 DEF Holds
  <2>2. f \in M
    BY <1>9, <2>1
  <2>3. PICK i \in 1..Cardinality(M) : m[i] = f
    BY <1>2, <2>2
  <2> QED BY <1>5, <1>6, <1>9, <2>1, <2>3
<1> QED BY <1>3, <1>7, <1>8, <1>9

\* What replacing the rows of k in S does to the files
Replaced(S, k, new) ==
  /\ files' \in Seq(DataFiles) /\ Len(files') = Len(files) + Len(RestFiles(S, k)) + Len(new)
  /\ Len(RestFiles(S, k)) \in Nat
  /\ \A f \in DOMAIN files : f \in DOMAIN files' /\ files'[f] = files[f]
  /\ live' \subseteq DOMAIN files'
  /\ DOMAIN created' = DOMAIN created \cup (DOMAIN files' \ DOMAIN files)
  /\ created' \in [DOMAIN created' -> {"valid", "invalid"}]
  /\ \A f \in DOMAIN created \ S : created'[f] = created[f]
  /\ \A f \in DOMAIN files' \ DOMAIN files : created'[f] = "valid"
  /\ DOMAIN deleted' = DOMAIN deleted \cup S
  /\ deleted' \in [DOMAIN deleted' -> {"valid", "invalid"}]
  /\ \A f \in DOMAIN deleted' : deleted'[f] = IF f \in S THEN "valid" ELSE deleted[f]
  /\ \A f \in DOMAIN files' \ DOMAIN files : \A r \in files'[f].rows :
       \/ r.key # k /\ Holds(S, r)
       \/ \E j \in DOMAIN new : r \in new[j].rows
  /\ \A r : r.key # k /\ Holds(S, r) =>
       \E f \in DOMAIN files' \ DOMAIN files : r \in files'[f].rows

\* What ReplaceRows does to the files
LEMMA ReplaceRowsDoes ==
  ASSUME FileTypes, NEW S \in SUBSET DOMAIN files, NEW k \in Keys, NEW new \in Seq(DataFiles),
         ReplaceRows(S, k, new)
  PROVE  Replaced(S, k, new)
<1> DEFINE R == RestFiles(S, k)
           w == R \o new
           ids == NewFileIds(Len(w))
<1>0. files \in Seq(DataFiles)
  BY DEF FileTypes
<1>1. /\ R \in Seq(DataFiles)
      /\ \A i \in DOMAIN R : \A r \in R[i].rows : r.key # k /\ Holds(S, r)
      /\ \A r : r.key # k /\ Holds(S, r) => \E i \in DOMAIN R : r \in R[i].rows
  BY <1>0, RestIs
<1>2. /\ files' = files \o w
      /\ live' = (live \ S) \cup ids
      /\ created' = WithEntries(Invalidated(created, S), ids, "valid")
      /\ deleted' = WithEntries(deleted, S, "valid")
  BY DEF ReplaceRows
<1> HIDE DEF R
<1>3. /\ w \in Seq(DataFiles) /\ Len(w) = Len(R) + Len(new) /\ Len(R) \in Nat /\ Len(new) \in Nat
      /\ DOMAIN R = 1..Len(R) /\ DOMAIN new = 1..Len(new) /\ DOMAIN w = 1..Len(w)
      /\ \A j \in 1..Len(R) : w[j] = R[j]
      /\ \A j \in 1..Len(new) : w[Len(R) + j] = new[j]
  BY <1>1, Appended
<1> HIDE DEF w
<1>4. /\ files' \in Seq(DataFiles) /\ Len(files') = Len(files) + Len(w)
      /\ DOMAIN files = 1..Len(files) /\ DOMAIN files' = 1..(Len(files) + Len(w)) /\ Len(files) \in Nat
      /\ \A f \in 1..Len(files) : files'[f] = files[f]
      /\ \A j \in 1..Len(w) : files'[Len(files) + j] = w[j]
  <2> DEFINE g == files \o w
  <2>1. w \in Seq(DataFiles)
    BY <1>3
  <2>2. /\ g \in Seq(DataFiles) /\ Len(g) = Len(files) + Len(w) /\ Len(files) \in Nat
        /\ DOMAIN files = 1..Len(files) /\ DOMAIN g = 1..(Len(files) + Len(w))
        /\ \A f \in 1..Len(files) : g[f] = files[f]
        /\ \A j \in 1..Len(w) : g[Len(files) + j] = w[j]
    BY ONLY <1>0, <2>1, Appended
  <2> QED BY <1>2, <2>2
<1>5. ids = DOMAIN files' \ DOMAIN files
  BY <1>3, <1>4 DEF NewFileIds
<1> HIDE DEF ids
<1>6. \A f \in DOMAIN files : f \in DOMAIN files' /\ files'[f] = files[f]
  BY <1>4
<1>7. live' \subseteq DOMAIN files'
  BY <1>2, <1>5, <1>6 DEF FileTypes
<1>8. /\ DOMAIN created' = DOMAIN created \cup ids
      /\ \A f \in DOMAIN created' : created'[f] = IF f \in ids THEN "valid"
                                                  ELSE IF f \in S THEN "invalid" ELSE created[f]
      /\ created' = [f \in DOMAIN created' |-> created'[f]]
  BY <1>2 DEF WithEntries, Invalidated
<1>9. /\ DOMAIN deleted' = DOMAIN deleted \cup S
      /\ \A f \in DOMAIN deleted' : deleted'[f] = IF f \in S THEN "valid" ELSE deleted[f]
      /\ deleted' = [f \in DOMAIN deleted' |-> deleted'[f]]
  BY <1>2 DEF WithEntries
<1>10. created' \in [DOMAIN created' -> {"valid", "invalid"}]
  <2>1. \A f \in DOMAIN created' : created'[f] \in {"valid", "invalid"}
    BY <1>8 DEF FileTypes
  <2> QED BY <1>8, <2>1
<1>11. deleted' \in [DOMAIN deleted' -> {"valid", "invalid"}]
  <2>1. \A f \in DOMAIN deleted' : deleted'[f] \in {"valid", "invalid"}
    BY <1>9 DEF FileTypes
  <2> QED BY <1>9, <2>1
<1>12. \A f \in DOMAIN created \ S : f \notin ids
  BY <1>5 DEF FileTypes
<1>13. ASSUME NEW f \in ids, NEW r \in files'[f].rows
       PROVE  (r.key # k /\ Holds(S, r)) \/ \E j \in DOMAIN new : r \in new[j].rows
  <2>1. f - Len(files) \in 1..Len(w) /\ files'[f] = w[f - Len(files)]
    BY <1>3, <1>4, <1>5
  <2>2. CASE f - Len(files) \in 1..Len(R)
    BY <1>1, <1>3, <1>13, <2>1, <2>2
  <2>3. CASE f - Len(files) \notin 1..Len(R)
    <3> DEFINE j == (f - Len(files)) - Len(R)
    <3>1. j \in 1..Len(new) /\ f - Len(files) = Len(R) + j
      BY <1>3, <1>4, <2>1, <2>3
    <3> HIDE DEF j
    <3>2. files'[f] = new[j]
      <4>1. files'[f] = w[Len(R) + j]
        BY <2>1, <3>1
      <4>2. \A i \in 1..Len(new) : w[Len(R) + i] = new[i]
        BY <1>3
      <4>3. w[Len(R) + j] = new[j]
        BY ONLY <3>1, <4>2
      <4> QED BY <4>1, <4>3
    <3> QED BY <1>3, <1>13, <3>1, <3>2
  <2> QED BY <2>2, <2>3
<1>14. ASSUME NEW r, r.key # k, Holds(S, r) PROVE \E f \in ids : r \in files'[f].rows
  <2>1. PICK i \in DOMAIN R : r \in R[i].rows
    BY <1>1, <1>14
  <2>2. i \in 1..Len(w) /\ w[i] = R[i]
    BY <1>3
  <2>3. Len(files) + i \in ids /\ files'[Len(files) + i] = R[i]
    BY <1>3, <1>4, <1>5, <2>2
  <2> QED BY <2>1, <2>3
<1>15. Len(files') = Len(files) + Len(R) + Len(new)
  BY <1>3, <1>4
<1> QED BY <1>3, <1>4, <1>5, <1>6, <1>7, <1>8, <1>9, <1>10, <1>11, <1>12, <1>13, <1>14, <1>15 DEF R, Replaced

-----------------------------------------------------------------------------
(* Steps that replace rows, and steps that keep them *)

\* Files are never changed: what old files hold, they go on to hold.
FilesGrow ==
  /\ files' \in Seq(DataFiles)
  /\ \A f \in DOMAIN files : f \in DOMAIN files' /\ files'[f] = files[f]

\* The client performs another operation.
Performs(o) == performed' = Append(performed, o)

\* Another operation leaves the earlier ones what they are.
LEMMA PerformsAnother ==
  ASSUME LogTypes, NEW o \in Performed, Performs(o), executed' \subseteq executed \cup {Len(performed) + 1}
  PROVE  /\ performed' \in Seq(Performed) /\ Len(performed') = Len(performed) + 1
         /\ DOMAIN performed' = 1..(Len(performed) + 1) /\ DOMAIN performed = 1..Len(performed)
         /\ performed'[Len(performed) + 1] = o
         /\ \A i \in DOMAIN performed : i \in DOMAIN performed' /\ performed'[i] = performed[i]
         /\ executed' \subseteq DOMAIN performed'
         /\ o.key \in NamedKeys' /\ NamedKeys \subseteq NamedKeys'
         /\ DeletesAtOnce' => DeletesAtOnce
<1>1. /\ performed' \in Seq(Performed) /\ Len(performed') = Len(performed) + 1 /\ Len(performed) \in Nat
      /\ DOMAIN performed' = 1..(Len(performed) + 1) /\ DOMAIN performed = 1..Len(performed)
      /\ performed'[Len(performed) + 1] = o
      /\ \A i \in DOMAIN performed : i \in DOMAIN performed' /\ performed'[i] = performed[i]
  BY DEF LogTypes, Performs
<1>2. executed' \subseteq DOMAIN performed'
  <2>1. executed \subseteq DOMAIN performed
    BY DEF LogTypes
  <2>2. Len(performed) + 1 \in DOMAIN performed'
    BY <1>1
  <2> QED BY <1>1, <2>1, <2>2
<1>3. o.key \in NamedKeys' /\ NamedKeys \subseteq NamedKeys'
  <2>1. Len(performed) + 1 \in DOMAIN performed'
    BY <1>1
  <2> QED BY <1>1, <2>1 DEF NamedKeys
<1>4. DeletesAtOnce' => DeletesAtOnce
  <2> SUFFICES ASSUME DeletesAtOnce', NEW i \in DOMAIN performed, performed[i].kind = "delete"
               PROVE  i \in executed
    BY DEF DeletesAtOnce
  <2>1. i \in executed'
    BY <1>1 DEF DeletesAtOnce
  <2>2. i # Len(performed) + 1
    BY <1>1
  <2> QED BY <2>1, <2>2
<1> QED BY <1>1, <1>2, <1>3, <1>4

\* The same operations are performed.
LEMMA SameOperations ==
  ASSUME UNCHANGED <<performed, executed>>
  PROVE  NamedKeys' = NamedKeys /\ (DeletesAtOnce' <=> DeletesAtOnce)
BY DEF NamedKeys, DeletesAtOnce

\* Steps that are appended refer to what they may.
LEMMA StepsReferOn ==
  ASSUME StepsRefer, DOMAIN created \subseteq DOMAIN created', DOMAIN files \subseteq DOMAIN files',
         NamedKeys \subseteq NamedKeys',
         \A i \in DOMAIN sublog' :
           \/ i \in DOMAIN sublog /\ sublog'[i] = sublog[i]
           \/ /\ sublog'[i].command = "a" => sublog'[i].file \in DOMAIN created'
              /\ sublog'[i].command = "d" => sublog'[i].file \in DOMAIN files'
              /\ sublog'[i].command = "s" => sublog'[i].key \in NamedKeys',
         foundFiles' = {} \/ foundKey' \in NamedKeys'
  PROVE  StepsRefer'
<1>1. ASSUME NEW i \in DOMAIN sublog'
      PROVE  /\ sublog'[i].command = "a" => sublog'[i].file \in DOMAIN created'
             /\ sublog'[i].command = "d" => sublog'[i].file \in DOMAIN files'
             /\ sublog'[i].command = "s" => sublog'[i].key \in NamedKeys'
  BY DEF StepsRefer
<1> QED BY <1>1 DEF StepsRefer

\* Files to be deleted by their path
LEMMA NotedOn ==
  ASSUME \A i \in DOMAIN sublog : i \in DOMAIN sublog' /\ sublog'[i] = sublog[i],
         NEW S, \A i \in DOMAIN sublog' \ DOMAIN sublog : sublog'[i].command = "d" => sublog'[i].file \in S
  PROVE  NotedFiles' \subseteq NotedFiles \cup S
<1> SUFFICES ASSUME NEW i \in DOMAIN sublog', sublog'[i].command = "d"
             PROVE  sublog'[i].file \in NotedFiles \cup S
  BY DEF NotedFiles
<1>1. CASE i \in DOMAIN sublog
  BY <1>1 DEF NotedFiles
<1>2. CASE i \notin DOMAIN sublog
  BY <1>2
<1> QED BY <1>1, <1>2

\* Rows are moved to new files, new rows are written.
LEMMA ReplacedRowsMove ==
  ASSUME FileTypes, StepsRefer, RowsMove,
         NEW S \in SUBSET DOMAIN files, NEW k \in Keys, NEW new \in Seq(DataFiles),
         ReplaceRows(S, k, new), UNCHANGED base, phase \in {"work", "redo"},
         S = {} \/ k \in NamedKeys',
         \A j \in DOMAIN new : \A r \in new[j].rows : r.key \in NamedKeys',
         NamedKeys \subseteq NamedKeys', DeletesAtOnce' => DeletesAtOnce,
         NotedFiles' \subseteq NotedFiles \cup S
  PROVE  RowsMove'
<1>0. /\ \A f \in DOMAIN files : f \in DOMAIN files' /\ files'[f] = files[f]
      /\ DOMAIN created' = DOMAIN created \cup (DOMAIN files' \ DOMAIN files)
      /\ \A f \in DOMAIN created \ S : created'[f] = created[f]
      /\ \A f \in DOMAIN files' \ DOMAIN files : created'[f] = "valid"
      /\ DOMAIN deleted' = DOMAIN deleted \cup S
      /\ \A f \in DOMAIN deleted' : deleted'[f] = IF f \in S THEN "valid" ELSE deleted[f]
      /\ \A f \in DOMAIN files' \ DOMAIN files : \A r \in files'[f].rows :
              \/ r.key # k /\ Holds(S, r)
              \/ \E j \in DOMAIN new : r \in new[j].rows
      /\ \A r : r.key # k /\ Holds(S, r) =>
              \E f \in DOMAIN files' \ DOMAIN files : r \in files'[f].rows
  <2>1. Replaced(S, k, new)
    BY ReplaceRowsDoes
  <2> QED BY ONLY <2>1 DEF Replaced
<1> DEFINE ids == DOMAIN files' \ DOMAIN files
<1>1. /\ \A f \in DOMAIN files : f \in DOMAIN files' /\ files'[f] = files[f]
      /\ DOMAIN created' = DOMAIN created \cup ids
      /\ \A f \in DOMAIN created \ S : created'[f] = created[f]
      /\ \A f \in ids : created'[f] = "valid"
      /\ DOMAIN deleted' = DOMAIN deleted \cup S
      /\ \A f \in DOMAIN deleted' : deleted'[f] = IF f \in S THEN "valid" ELSE deleted[f]
      /\ \A f \in ids : \A r \in files'[f].rows :
              \/ r.key # k /\ Holds(S, r)
              \/ \E j \in DOMAIN new : r \in new[j].rows
      /\ \A r : r.key # k /\ Holds(S, r) => \E f \in ids : r \in files'[f].rows
  BY ONLY <1>0
<1> HIDE DEF ids
<1>2. /\ DOMAIN created \subseteq DOMAIN files /\ DOMAIN deleted \subseteq DOMAIN files
      /\ base \subseteq DOMAIN files /\ \A f \in ids : f \notin DOMAIN files
  BY DEF FileTypes, ids
<1>3. NotedFiles \subseteq DOMAIN files
  BY DEF NotedFiles, StepsRefer
<1>4. \A f \in ids : f \notin NotedFiles'
  BY <1>2, <1>3
<1>5. Gone' = Gone \cup (S \ DOMAIN created)
  BY <1>1, <1>2 DEF Gone
<1>6. \A f \in Gone' : deleted'[f] = "valid"
  BY <1>1, <1>5 DEF RowsMove, Gone
<1>7. \A r : Holds(Gone, r) => Holds(Gone, r)'
  <2>1. Gone \subseteq DOMAIN files
    BY <1>2 DEF Gone
  <2> QED BY <1>1, <1>5, <2>1 DEF Holds
<1>8. ASSUME NEW f \in DOMAIN created', NEW r \in files'[f].rows, r.key \notin NamedKeys'
      PROVE  Holds(Gone, r)'
  <2>1. CASE f \in DOMAIN created
    <3>1. r \in files[f].rows /\ r.key \notin NamedKeys
      BY <1>1, <1>2, <1>8, <2>1
    <3> QED BY <1>7, <2>1, <3>1 DEF RowsMove
  <2>2. CASE f \in ids
    <3>1. Holds(S, r)
      BY <1>1, <1>8, <2>2
    <3>2. PICK g \in S : r \in files[g].rows
      BY <3>1 DEF Holds
    <3>3. CASE g \in DOMAIN created
      BY <1>7, <1>8, <3>2, <3>3 DEF RowsMove
    <3>4. CASE g \notin DOMAIN created
      <4>1. g \in Gone' /\ files'[g] = files[g]
        BY <1>1, <1>5, <3>4
      <4> QED BY <3>2, <4>1 DEF Holds
    <3> QED BY <3>3, <3>4
  <2> QED BY <1>1, <2>1, <2>2
<1>9. ASSUME DeletesAtOnce', NEW g \in Gone', NEW r \in files'[g].rows, r.key \notin NamedKeys'
      PROVE  Holds(Lasting, r)'
  <2>1. g \in DOMAIN files /\ r \in files[g].rows
    BY <1>1, <1>2, <1>5, <1>9 DEF Gone
  <2>2. ASSUME Holds(S, r) PROVE Holds(Lasting, r)'
    <3>1. r.key # k
      BY <1>9, <2>2 DEF Holds
    <3>2. PICK f \in ids : r \in files'[f].rows
      BY <1>1, <2>2, <3>1
    <3>3. f \in Lasting'
      BY <1>1, <1>4 DEF Lasting
    <3> QED BY <3>2, <3>3 DEF Holds
  <2>3. CASE g \in S
    BY <2>1, <2>2, <2>3 DEF Holds
  <2>4. CASE g \notin S
    <3>1. Holds(Lasting, r)
      BY <1>5, <1>9, <2>1, <2>4 DEF RowsMove
    <3>2. PICK f \in Lasting : r \in files[f].rows
      BY <3>1 DEF Holds
    <3>3. CASE f \in S
      BY <2>2, <3>2, <3>3 DEF Holds
    <3>4. CASE f \notin S
      <4>1. f \in Lasting' /\ files'[f] = files[f]
        BY <1>1, <1>2, <3>4 DEF Lasting
      <4> QED BY <3>2, <4>1 DEF Holds
    <3> QED BY <3>3, <3>4
  <2> QED BY <2>3, <2>4
<1>10. base' \cap DOMAIN created' = {}
  BY <1>1, <1>2 DEF RowsMove
<1> QED BY <1>6, <1>8, <1>9, <1>10 DEF RowsMove

\* No file is replaced.
LEMMA SameRowsMove ==
  ASSUME FileTypes, RowsMove, FilesGrow, UNCHANGED <<created, deleted>>,
         base' \cap DOMAIN created = {} \/ phase' = "committed",
         NamedKeys \subseteq NamedKeys', DeletesAtOnce' => DeletesAtOnce,
         DeletesAtOnce' => NotedFiles' \subseteq NotedFiles
  PROVE  RowsMove'
<1>1. Gone' = Gone /\ Gone \subseteq DOMAIN files /\ DOMAIN created \subseteq DOMAIN files
  BY DEF Gone, FileTypes
<1>2. DeletesAtOnce' => Lasting \subseteq Lasting'
  BY DEF Lasting
<1>3. Lasting \subseteq DOMAIN files
  BY <1>1 DEF Lasting
<1>4. \A r : Holds(Gone, r) => Holds(Gone, r)'
  BY <1>1 DEF Holds, FilesGrow
<1>5. DeletesAtOnce' => \A r : Holds(Lasting, r) => Holds(Lasting, r)'
  BY <1>2, <1>3 DEF Holds, FilesGrow
<1>6. \A f \in DOMAIN created' : \A r \in files'[f].rows :
        r.key \notin NamedKeys' => Holds(Gone, r)'
  <2> SUFFICES ASSUME NEW f \in DOMAIN created, NEW r \in files'[f].rows, r.key \notin NamedKeys'
               PROVE  Holds(Gone, r)'
    OBVIOUS
  <2>1. r \in files[f].rows /\ r.key \notin NamedKeys
    BY <1>1 DEF FilesGrow
  <2> QED BY <1>4, <2>1 DEF RowsMove
<1>7. ASSUME DeletesAtOnce', NEW f \in Gone', NEW r \in files'[f].rows, r.key \notin NamedKeys'
      PROVE  Holds(Lasting, r)'
  <2>1. f \in Gone /\ r \in files[f].rows /\ r.key \notin NamedKeys
    BY <1>1, <1>7 DEF FilesGrow
  <2> QED BY <1>5, <1>7, <2>1 DEF RowsMove
<1>8. (\A f \in Gone' : deleted'[f] = "valid") /\ (phase' # "committed" => base' \cap DOMAIN created' = {})
  BY <1>1 DEF RowsMove
<1> QED BY <1>6, <1>7, <1>8 DEF RowsMove

\* The files after rows were replaced
LEMMA ReplacedFileTypes ==
  ASSUME FileTypes, NEW S \in SUBSET DOMAIN files, NEW k \in Keys, NEW new \in Seq(DataFiles),
         ReplaceRows(S, k, new), UNCHANGED base,
         targets' \subseteq DOMAIN files, foundFiles' \subseteq DOMAIN files,
         retired' \subseteq DOMAIN files
  PROVE  FileTypes' /\ DOMAIN files \subseteq DOMAIN files' /\ DOMAIN created \subseteq DOMAIN created'
<1>1. /\ files' \in Seq(DataFiles)
      /\ DOMAIN files \subseteq DOMAIN files'
      /\ live' \subseteq DOMAIN files'
      /\ DOMAIN created' = DOMAIN created \cup (DOMAIN files' \ DOMAIN files)
      /\ created' \in [DOMAIN created' -> {"valid", "invalid"}]
      /\ DOMAIN deleted' = DOMAIN deleted \cup S
      /\ deleted' \in [DOMAIN deleted' -> {"valid", "invalid"}]
  BY ReplaceRowsDoes DEF Replaced
<1>2. /\ base \subseteq DOMAIN files /\ DOMAIN created \subseteq DOMAIN files
      /\ DOMAIN deleted \subseteq DOMAIN files
  BY DEF FileTypes
<1> QED BY <1>1, <1>2 DEF FileTypes

\* A step that keeps the files
LEMMA SameFileTypes ==
  ASSUME FileTypes, UNCHANGED fileVars, targets' \subseteq DOMAIN files,
         foundFiles' \subseteq DOMAIN files, retired' \subseteq DOMAIN files
  PROVE  FileTypes' /\ FilesGrow
BY DEF FileTypes, FilesGrow, fileVars

\* An update keeps the keys of the rows.
LEMMA UpdatedIs ==
  ASSUME NEW rows \in SUBSET TableRows, NEW v \in Nat, NEW o \in Nat, NEW u \in Nat,
         NEW k, \A r \in rows : r.key = k
  PROVE  /\ <<DataFile(Updated(rows, v, o), u)>> \in Seq(DataFiles)
         /\ \A r \in DataFile(Updated(rows, v, o), u).rows : r.key = k
<1> DEFINE n == IF v = o THEN v ELSE 0
<1>1. \A r \in rows : Row(r.key, Append(r.val, n)) \in TableRows /\ Row(r.key, Append(r.val, n)).key = k
  BY DEF Row, TableRows
<1>2. Updated(rows, v, o) = {Row(r.key, Append(r.val, n)) : r \in rows}
  BY DEF Updated
<1>3. Updated(rows, v, o) \in SUBSET TableRows /\ \A r \in Updated(rows, v, o) : r.key = k
  BY <1>1, <1>2
<1>4. DataFile(Updated(rows, v, o), u) \in DataFiles
      /\ DataFile(Updated(rows, v, o), u).rows = Updated(rows, v, o)
  BY <1>3 DEF DataFile, DataFiles
<1> QED BY <1>3, <1>4

\* The rows of a key
LEMMA KeyRowsIs ==
  ASSUME files \in Seq(DataFiles), NEW S \in SUBSET DOMAIN files, NEW k
  PROVE  /\ KeyRows(S, k) \in SUBSET TableRows /\ \A r \in KeyRows(S, k) : r.key = k
         /\ \A r : r \in KeyRows(S, k) <=> r.key = k /\ Holds(S, r)
<1>1. \A f \in S : files[f].rows \subseteq TableRows
  <2>1. \A f \in DOMAIN files : files[f] \in DataFiles
    OBVIOUS
  <2>2. \A d \in DataFiles : d.rows \subseteq TableRows
    BY DEF DataFiles
  <2> QED BY <2>1, <2>2
<1> QED BY <1>1 DEF KeyRows, Holds

\* A step that does not end the transaction leaves no promise to keep.
LEMMA NotYet ==
  ASSUME phase' # "committed"
  PROVE  OtherRowsStay'
BY DEF OtherRowsStay, OtherRowsAreKept, Committed

-----------------------------------------------------------------------------
(* The operations of the client *)

\* The threads of an operation, and a step that is no new operation
Threads == {"remover", "adder"}
SameOps == UNCHANGED <<performed, executed>>

\* A thread goes on to what it may.
LEMMA TailOf == \A s \in Remaining : s # <<>> => Tail(s) \in Remaining \ ToLog
<1>1. /\ Tail(<<"find", "remove", "add">>) = <<"remove", "add">>
      /\ Tail(<<"remove", "add">>) = <<"add">> /\ Tail(<<"logRemove", "add">>) = <<"add">>
      /\ Tail(<<"find", "remove">>) = <<"remove">>
      /\ Tail(<<"remove">>) = <<>> /\ Tail(<<"logRemove">>) = <<>> /\ Tail(<<"add">>) = <<>>
  OBVIOUS
<1>2. /\ <<"remove", "add">> \notin ToLog /\ <<"add">> \notin ToLog /\ <<"remove">> \notin ToLog
      /\ <<>> \notin ToLog
  BY DEF ToLog
<1> QED BY <1>1, <1>2 DEF Remaining

\* A removal that is next may be left to the log.
LEMMA LogOf ==
  \A s \in Remaining : s # <<>> /\ Head(s) = "remove" => [s EXCEPT ![1] = "logRemove"] \in Remaining
<1>1. Tail(<<"remove", "add">>) = <<"add">> /\ Tail(<<"remove">>) = <<>>
  OBVIOUS
<1>3. [<<"remove", "add">> EXCEPT ![1] = "logRemove"] = <<"logRemove", "add">>
  OBVIOUS
<1>4. [<<"remove">> EXCEPT ![1] = "logRemove"] = <<"logRemove">>
  OBVIOUS
<1>2. /\ Head(<<"find", "remove", "add">>) = "find" /\ Head(<<"logRemove", "add">>) = "logRemove"
      /\ Head(<<"find", "remove">>) = "find" /\ Head(<<"logRemove">>) = "logRemove"
      /\ Head(<<"add">>) = "add"
  OBVIOUS
<1> QED BY <1>1, <1>2, <1>3, <1>4 DEF Remaining

\* It is then one of ToLog.
LEMMA ToLogIs ==
  \A s \in Remaining : s # <<>> /\ Head(s) = "logRemove" => s \in ToLog
<1>1. /\ Head(<<"find", "remove", "add">>) = "find" /\ Head(<<"remove", "add">>) = "remove"
      /\ Head(<<"find", "remove">>) = "find" /\ Head(<<"remove">>) = "remove"
      /\ Head(<<"add">>) = "add"
  OBVIOUS
<1> QED BY <1>1 DEF Remaining, ToLog

\* A thread does the next thing it has to do.
LEMMA DoesNext ==
  ASSUME OpTypes, Operation, NEW thread \in Threads, NEW what, Does(thread, what)
  PROVE  /\ op # NoOp /\ phase = "work"
         /\ todo' \in [remover : Remaining, adder : Remaining]
         /\ explicitLog => todo'.remover \notin ToLog /\ todo'.adder \notin ToLog
<1>1. /\ phase = "work" /\ todo[thread] # <<>> /\ todo' = [todo EXCEPT ![thread] = Tail(@)]
      /\ todo \in [remover : Remaining, adder : Remaining]
  BY DEF Does, OpTypes
<1>2. op # NoOp
  BY <1>1 DEF Operation, Threads
<1>3. Tail(todo[thread]) \in Remaining \ ToLog
  <2>1. todo[thread] \in Remaining
    BY <1>1 DEF Threads
  <2> QED BY <1>1, <2>1, TailOf
<1>4. /\ todo' \in [remover : Remaining, adder : Remaining]
      /\ \A t \in Threads : todo'[t] = todo[t] \/ todo'[t] \notin ToLog
  BY <1>1, <1>3 DEF Threads
<1> QED BY <1>1, <1>2, <1>4 DEF Operation, Threads

\* The operation goes on.
LEMMA OperationOn ==
  ASSUME OpTypes, Operation, op # NoOp, UNCHANGED <<op, explicitLog, foundKey, phase>>, SameOps,
         todo' \in [remover : Remaining, adder : Remaining],
         explicitLog => todo'.remover \notin ToLog /\ todo'.adder \notin ToLog
  PROVE  OpTypes' /\ Operation'
<1>1. NamedKeys' = NamedKeys
  BY SameOperations DEF SameOps
<1> QED BY <1>1 DEF OpTypes, Operation, SameOps

\* So do the types of the log.
LEMMA LogTypesOn ==
  ASSUME LogTypes, sublog' \in Seq(SubSteps), Len(sublog) <= Len(sublog'), SameOps,
         UNCHANGED <<updateVals, updateOps, at>>
  PROVE  LogTypes'
<1>1. Len(sublog) \in Nat /\ Len(sublog') \in Nat
  BY DEF LogTypes
<1> QED BY <1>1 DEF LogTypes, SameOps

\* The client begins an operation.
LEMMA Starts ==
  ASSUME SubInv, Ready, NEW k \in Keys, NEW kind \in {"update", "updateInThreads", "delete"},
         NEW read \in SUBSET TableRows, \A r \in read : r.key = k, Start(kind, k, read),
         UNCHANGED <<explicitLog, foundKey, phase>>,
         todo' \in [remover : Remaining \ ToLog, adder : Remaining \ ToLog]
  PROVE  /\ performed' \in Seq(Performed) /\ Len(performed') = Len(performed) + 1
         /\ executed' \subseteq DOMAIN performed'
         /\ k \in NamedKeys' /\ NamedKeys \subseteq NamedKeys' /\ (DeletesAtOnce' => DeletesAtOnce)
         /\ OpTypes' /\ Operation'
<1> DEFINE o == [kind |-> kind, key |-> k, id |-> NextId]
<1>1. /\ op' = [kind |-> kind, key |-> k, id |-> NextId, read |-> read]
      /\ performed' = Append(performed, o)
      /\ executed' = IF explicitLog /\ kind # "insert" THEN executed \cup {NextId} ELSE executed
      /\ phase = "work" /\ phase' = "work"
  BY DEF Start, Ready
<1>2. NextId = Len(performed) + 1 /\ Len(performed) \in Nat /\ NextId \in Nat /\ o \in Performed
  <2>1. Len(performed) \in Nat
    BY DEF SubInv, LogTypes
  <2> QED BY <2>1 DEF NextId, Performed
<1>3. /\ performed' \in Seq(Performed) /\ Len(performed') = Len(performed) + 1
      /\ DOMAIN performed' = 1..(Len(performed) + 1) /\ DOMAIN performed = 1..Len(performed)
      /\ performed'[Len(performed) + 1] = o
      /\ executed' \subseteq DOMAIN performed'
      /\ o.key \in NamedKeys' /\ NamedKeys \subseteq NamedKeys'
      /\ DeletesAtOnce' => DeletesAtOnce
  <2>1. LogTypes
    BY DEF SubInv
  <2>2. executed' \subseteq executed \cup {Len(performed) + 1}
    BY <1>1, <1>2
  <2>3. Performs(o)
    BY <1>1 DEF Performs
  <2> HIDE DEF o
  <2> QED BY <1>2, <2>1, <2>2, <2>3, PerformsAnother
<1>4. OpTypes'
  BY <1>1, <1>2 DEF SubInv, OpTypes, OpRecords
<1>5. Operation'
  <2>1. op'.key = k /\ op'.kind = kind /\ op'.id = NextId /\ op'.read = read
    BY <1>1
  <2>2. op' # NoOp
    BY <2>1 DEF NoOp
  <2>3. op'.id \in DOMAIN performed' /\ performed'[op'.id].kind = op'.kind
    BY <1>2, <1>3, <2>1
  <2>4. op'.id \in executed' => explicitLog'
    <3>1. executed \subseteq DOMAIN performed
      BY DEF SubInv, LogTypes
    <3>2. NextId \notin executed
      BY <1>2, <1>3, <3>1
    <3> QED BY <1>1, <2>1, <3>2
  <2>5. todo'.remover \notin ToLog /\ todo'.adder \notin ToLog
    OBVIOUS
  <2>6. op'.key \in NamedKeys' /\ \A r \in op'.read : r.key = op'.key
    BY <1>3, <2>1
  <2> QED BY <1>1, <2>2, <2>3, <2>4, <2>5, <2>6 DEF Operation
<1> QED BY <1>3, <1>4, <1>5

\* The files that the remover has found
LEMMA FoundAre ==
  ASSUME FileTypes, NEW k, NEW u
  PROVE  FindKeyFiles(k, u) \subseteq DOMAIN files /\ DOMAIN files \subseteq Nat
BY DEF FindKeyFiles, FileTypes

\* An update starts.
LEMMA UpdateBegins ==
  ASSUME SubInv, NEW k \in Keys, NEW kind \in {"update", "updateInThreads"}, BeginUpdate(kind, k)
  PROVE  SubInv'
<1> DEFINE found == FindKeyFiles(k, NoUpdate)
<1>0. /\ Ready /\ NextId <= MaxOps /\ Start(kind, k, KeyRows(found, k))
      /\ UNCHANGED <<fileVars, explicitLog, redoVars, phase>>
      /\ phase = "work"
  BY DEF BeginUpdate, Ready
<1>1. found \subseteq DOMAIN files /\ DOMAIN files \subseteq Nat /\ files \in Seq(DataFiles)
  BY FoundAre DEF SubInv, FileTypes
<1>2. PICK f \in found : LogSteps(<<ReadStep(k, f)>>)
  BY DEF BeginUpdate
<1> HIDE DEF found
<1>3. /\ ReadStep(k, f) \in SubSteps /\ ReadStep(k, f).command \in {"r", "s"}
      /\ ReadStep(k, f).key = k
  BY <1>1 DEF ReadStep, Step, SubSteps
<1> DEFINE steps == <<ReadStep(k, f)>>
<1>4. /\ steps \in Seq(SubSteps) /\ Len(steps) = 1
      /\ \A j \in DOMAIN steps : steps[j] = ReadStep(k, f)
  BY <1>3
<1>5. /\ sublog' \in Seq(SubSteps) /\ Len(sublog') = Len(sublog) + Len(steps)
      /\ \A i \in DOMAIN sublog : i \in DOMAIN sublog' /\ sublog'[i] = sublog[i]
      /\ \A i \in DOMAIN sublog' \ DOMAIN sublog :
           sublog'[i].command # "missing" => \E j \in DOMAIN steps : sublog'[i] = steps[j]
  BY <1>2, <1>4, LogStepsDoes DEF SubInv, LogTypes
<1> HIDE DEF steps
<1>6. \A i \in DOMAIN sublog' \ DOMAIN sublog :
        sublog'[i].command \in {"missing", "r", "s"}
        /\ (sublog'[i].command # "missing" => sublog'[i].key = k)
  BY <1>3, <1>4, <1>5
<1>7. KeyRows(found, k) \in SUBSET TableRows /\ \A r \in KeyRows(found, k) : r.key = k
  BY <1>1, KeyRowsIs
<1>8. todo' \in [remover : Remaining \ ToLog, adder : Remaining \ ToLog]
  <2>1. /\ <<"find", "remove", "add">> \in Remaining \ ToLog /\ <<"find", "remove">> \in Remaining \ ToLog
        /\ <<>> \in Remaining \ ToLog /\ <<"add">> \in Remaining \ ToLog
    BY DEF Remaining, ToLog
  <2> QED BY <2>1 DEF BeginUpdate
<1>9. /\ performed' \in Seq(Performed) /\ Len(performed') = Len(performed) + 1
      /\ executed' \subseteq DOMAIN performed'
      /\ k \in NamedKeys' /\ NamedKeys \subseteq NamedKeys' /\ (DeletesAtOnce' => DeletesAtOnce)
      /\ OpTypes' /\ Operation'
  <2>1. kind \in {"update", "updateInThreads", "delete"}
    OBVIOUS
  <2> QED BY <1>0, <1>7, <1>8, <2>1, Starts DEF redoVars
<1>10. FileTypes' /\ FilesGrow
  <2>1. targets' = {}
    BY <1>0 DEF Start
  <2> QED BY <1>0, <2>1, SameFileTypes DEF SubInv, FileTypes, redoVars
<1>11. LogTypes'
  <2>1. /\ updateVals' = Append(updateVals, NextId) /\ at' = at
        /\ updateOps' = IF explicitLog THEN updateOps ELSE Append(updateOps, NextId)
    BY <1>0 DEF BeginUpdate, redoVars
  <2>2. /\ NextId = Len(performed) + 1 /\ Len(performed) \in Nat /\ NextId \in Nat
        /\ updateVals \in Seq(Nat) /\ updateOps \in Seq(Nat)
        /\ Len(updateOps) <= Len(updateVals) /\ Len(updateVals) <= Len(performed)
        /\ at \in 0..(Len(sublog) + 1) /\ Len(sublog) \in Nat
    BY DEF SubInv, LogTypes, NextId
  <2>3. /\ updateVals' \in Seq(Nat) /\ updateOps' \in Seq(Nat)
        /\ Len(updateOps') <= Len(updateVals') /\ Len(updateVals') = Len(updateVals) + 1
    BY <2>1, <2>2
  <2>4. Len(updateVals') <= MaxOps
    <3>1. MaxOps \in Nat /\ Len(updateVals) \in Nat
      BY <2>2, SubLogAssumption
    <3> QED BY <1>0, <2>2, <2>3, <3>1
  <2>5. at' \in 0..(Len(sublog') + 1)
    BY <1>4, <1>5, <2>1, <2>2
  <2>6. Len(updateVals') <= Len(performed')
    BY <1>9, <2>2, <2>3
  <2> QED BY <1>5, <1>9, <2>3, <2>4, <2>5, <2>6 DEF LogTypes
<1>12. StepsRefer'
  <2>1. foundFiles' = foundFiles /\ foundKey' = foundKey /\ files' = files /\ created' = created
    BY <1>0 DEF redoVars, fileVars
  <2>2. \A i \in DOMAIN sublog' :
           \/ i \in DOMAIN sublog /\ sublog'[i] = sublog[i]
           \/ /\ sublog'[i].command = "a" => sublog'[i].file \in DOMAIN created'
              /\ sublog'[i].command = "d" => sublog'[i].file \in DOMAIN files'
              /\ sublog'[i].command = "s" => sublog'[i].key \in NamedKeys'
    BY <1>5, <1>6, <1>9
  <2>3. foundFiles' = {} \/ foundKey' \in NamedKeys'
    BY <1>9, <2>1 DEF SubInv, StepsRefer
  <2> QED BY <1>9, <2>1, <2>2, <2>3, StepsReferOn DEF SubInv
<1>13. RowsMove'
  <2>1. NotedFiles' \subseteq NotedFiles
    <3>1. \A i \in DOMAIN sublog' \ DOMAIN sublog : sublog'[i].command = "d" => sublog'[i].file \in {}
      BY <1>6
    <3> QED BY <1>5, <3>1, NotedOn
  <2>2. base' \cap DOMAIN created = {} /\ UNCHANGED <<created, deleted>>
    BY <1>0 DEF SubInv, RowsMove, fileVars
  <2> QED BY <1>9, <1>10, <2>1, <2>2, SameRowsMove DEF SubInv
<1> QED BY <1>0, <1>9, <1>10, <1>11, <1>12, <1>13, NotYet DEF SubInv

\* A delete starts.
LEMMA DeleteBegins ==
  ASSUME SubInv, NEW k \in Keys, BeginDelete(k)
  PROVE  SubInv'
<1>0. /\ Ready /\ Start("delete", k, {}) /\ phase = "work"
      /\ UNCHANGED <<fileVars, explicitLog, logVars, redoVars, phase>>
  BY DEF BeginDelete, Ready
<1>8. todo' \in [remover : Remaining \ ToLog, adder : Remaining \ ToLog]
  <2>1. <<"find", "remove">> \in Remaining \ ToLog /\ <<>> \in Remaining \ ToLog
    BY DEF Remaining, ToLog
  <2> QED BY <2>1 DEF BeginDelete
<1>9. /\ performed' \in Seq(Performed) /\ Len(performed') = Len(performed) + 1
      /\ executed' \subseteq DOMAIN performed'
      /\ k \in NamedKeys' /\ NamedKeys \subseteq NamedKeys' /\ (DeletesAtOnce' => DeletesAtOnce)
      /\ OpTypes' /\ Operation'
  <2>1. {} \in SUBSET TableRows /\ \A r \in {} : r.key = k
    OBVIOUS
  <2>2. "delete" \in {"update", "updateInThreads", "delete"}
    OBVIOUS
  <2> QED BY <1>0, <1>8, <2>1, <2>2, Starts DEF redoVars
<1>10. FileTypes' /\ FilesGrow
  <2>1. targets' = {}
    BY <1>0 DEF Start
  <2> QED BY <1>0, <2>1, SameFileTypes DEF SubInv, FileTypes, redoVars
<1>11. LogTypes'
  <2>1. UNCHANGED <<updateVals, updateOps, sublog, at>>
    BY <1>0 DEF logVars, redoVars
  <2>2. Len(performed) \in Nat /\ Len(updateVals) \in Nat
    BY DEF SubInv, LogTypes
  <2> QED BY <1>9, <2>1, <2>2 DEF SubInv, LogTypes
<1>12. StepsRefer'
  BY <1>0, <1>9 DEF SubInv, StepsRefer, redoVars, fileVars, logVars
<1>13. RowsMove'
  <2>1. NotedFiles' \subseteq NotedFiles
    BY <1>0 DEF NotedFiles, logVars
  <2>2. base' \cap DOMAIN created = {} /\ UNCHANGED <<created, deleted>>
    BY <1>0 DEF SubInv, RowsMove, fileVars
  <2> QED BY <1>9, <1>10, <2>1, <2>2, SameRowsMove DEF SubInv
<1> QED BY <1>0, <1>9, <1>10, <1>11, <1>12, <1>13, NotYet DEF SubInv

\* A step of the running operation that writes no file.
LEMMA StepOfOperation ==
  ASSUME SubInv, op # NoOp, SameOps, UNCHANGED <<fileVars, explicitLog, updateVals, updateOps, op, redoVars, phase>>,
         todo' \in [remover : Remaining, adder : Remaining],
         explicitLog => todo'.remover \notin ToLog /\ todo'.adder \notin ToLog,
         targets' \subseteq DOMAIN files,
         NEW steps \in Seq(SubSteps), LogSteps(steps),
         \A j \in DOMAIN steps :
           /\ steps[j].command # "a"
           /\ steps[j].command = "d" => ~DeletesAtOnce /\ steps[j].file \in DOMAIN files
           /\ steps[j].command = "s" => steps[j].key = op.key
  PROVE  SubInv'
<1>1. /\ sublog' \in Seq(SubSteps) /\ Len(sublog') = Len(sublog) + Len(steps)
      /\ \A i \in DOMAIN sublog : i \in DOMAIN sublog' /\ sublog'[i] = sublog[i]
      /\ \A i \in DOMAIN sublog' \ DOMAIN sublog :
           sublog'[i].command # "missing" => \E j \in DOMAIN steps : sublog'[i] = steps[j]
  BY LogStepsDoes DEF SubInv, LogTypes
<1>2. NamedKeys' = NamedKeys /\ (DeletesAtOnce' <=> DeletesAtOnce)
  BY SameOperations DEF SameOps
<1>3. op.key \in NamedKeys /\ phase = "work"
  BY DEF SubInv, Operation
<1>4. \A i \in DOMAIN sublog' \ DOMAIN sublog :
        /\ sublog'[i].command # "a"
        /\ sublog'[i].command = "d" => ~DeletesAtOnce /\ sublog'[i].file \in DOMAIN files
        /\ sublog'[i].command = "s" => sublog'[i].key \in NamedKeys
  BY <1>1, <1>3
<1>5. OpTypes' /\ Operation'
  BY OperationOn DEF SubInv, redoVars
<1>6. LogTypes'
  <2>1. Len(sublog) \in Nat /\ Len(steps) \in Nat
    BY DEF SubInv, LogTypes
  <2> QED BY <1>1, <2>1, LogTypesOn DEF SubInv, redoVars
<1>7. FileTypes' /\ FilesGrow
  BY SameFileTypes DEF SubInv, FileTypes, redoVars
<1>8. StepsRefer'
  <2>1. foundFiles' = foundFiles /\ foundKey' = foundKey /\ files' = files /\ created' = created
    BY DEF redoVars, fileVars
  <2>2. \A i \in DOMAIN sublog' :
           \/ i \in DOMAIN sublog /\ sublog'[i] = sublog[i]
           \/ /\ sublog'[i].command = "a" => sublog'[i].file \in DOMAIN created'
              /\ sublog'[i].command = "d" => sublog'[i].file \in DOMAIN files'
              /\ sublog'[i].command = "s" => sublog'[i].key \in NamedKeys'
    BY <1>1, <1>2, <1>4, <2>1
  <2>3. foundFiles' = {} \/ foundKey' \in NamedKeys'
    BY <1>2, <2>1 DEF SubInv, StepsRefer
  <2> QED BY <1>2, <2>1, <2>2, <2>3, StepsReferOn DEF SubInv
<1>9. RowsMove'
  <2>1. DeletesAtOnce' => NotedFiles' \subseteq NotedFiles
    <3> SUFFICES ASSUME DeletesAtOnce PROVE NotedFiles' \subseteq NotedFiles
      BY <1>2
    <3>1. \A i \in DOMAIN sublog' \ DOMAIN sublog : sublog'[i].command = "d" => sublog'[i].file \in {}
      BY <1>4
    <3> QED BY <1>1, <3>1, NotedOn
  <2>2. base' \cap DOMAIN created = {} /\ UNCHANGED <<created, deleted>>
    BY <1>3 DEF SubInv, RowsMove, fileVars
  <2> QED BY <1>2, <1>7, <2>1, <2>2, SameRowsMove DEF SubInv
<1> QED BY <1>3, <1>5, <1>6, <1>7, <1>8, <1>9, NotYet DEF SubInv

\* A step of the client that replaces the rows of key k and logs the paths.
LEMMA StepWithFiles ==
  ASSUME SubInv, phase = "work", UNCHANGED <<base, explicitLog, updateVals, updateOps, redoVars, phase>>,
         OpTypes', Operation',
         performed' \in Seq(Performed), executed' \subseteq DOMAIN performed', Len(performed) <= Len(performed'),
         NamedKeys \subseteq NamedKeys', DeletesAtOnce' => DeletesAtOnce,
         NEW S \in SUBSET DOMAIN files, NEW k \in Keys, NEW new \in Seq(DataFiles), ReplaceRows(S, k, new),
         k \in NamedKeys', \A j \in DOMAIN new : \A r \in new[j].rows : r.key \in NamedKeys',
         targets' \subseteq DOMAIN files,
         NEW steps \in Seq(SubSteps), LogSteps(steps),
         \A j \in DOMAIN steps :
           \/ /\ steps[j].command = "a"
              /\ steps[j].file \in DOMAIN files' \ DOMAIN files
           \/ steps[j].command = "d" /\ steps[j].file \in S
  PROVE  SubInv'
<1>1. /\ sublog' \in Seq(SubSteps) /\ Len(sublog') = Len(sublog) + Len(steps)
      /\ \A i \in DOMAIN sublog : i \in DOMAIN sublog' /\ sublog'[i] = sublog[i]
      /\ \A i \in DOMAIN sublog' \ DOMAIN sublog :
           sublog'[i].command # "missing" => \E j \in DOMAIN steps : sublog'[i] = steps[j]
  BY LogStepsDoes DEF SubInv, LogTypes
<1>2. FileTypes' /\ DOMAIN files \subseteq DOMAIN files' /\ DOMAIN created \subseteq DOMAIN created'
  BY ReplacedFileTypes DEF SubInv, FileTypes, redoVars
<1>3. DOMAIN created' = DOMAIN created \cup (DOMAIN files' \ DOMAIN files)
  <2>1. Replaced(S, k, new)
    BY ReplaceRowsDoes DEF SubInv
  <2> QED BY ONLY <2>1 DEF Replaced
<1>4. \A i \in DOMAIN sublog' \ DOMAIN sublog :
        /\ sublog'[i].command = "a" => sublog'[i].file \in DOMAIN created'
        /\ sublog'[i].command = "d" => sublog'[i].file \in S
        /\ sublog'[i].command # "s"
  BY <1>1, <1>3
<1>5. LogTypes'
  <2>1. /\ Len(sublog) \in Nat /\ Len(steps) \in Nat /\ Len(performed) \in Nat /\ Len(performed') \in Nat
        /\ Len(updateVals) \in Nat
    BY DEF SubInv, LogTypes
  <2>2. at' = at
    BY DEF redoVars
  <2>3. at' \in 0..(Len(sublog') + 1) /\ Len(updateVals') <= Len(performed')
    BY <1>1, <2>1, <2>2 DEF SubInv, LogTypes
  <2> QED BY <1>1, <2>3 DEF SubInv, LogTypes
<1>6. StepsRefer'
  <2>1. foundFiles' = foundFiles /\ foundKey' = foundKey
    BY DEF redoVars
  <2>2. \A i \in DOMAIN sublog' :
           \/ i \in DOMAIN sublog /\ sublog'[i] = sublog[i]
           \/ /\ sublog'[i].command = "a" => sublog'[i].file \in DOMAIN created'
              /\ sublog'[i].command = "d" => sublog'[i].file \in DOMAIN files'
              /\ sublog'[i].command = "s" => sublog'[i].key \in NamedKeys'
    BY <1>1, <1>2, <1>4
  <2>3. foundFiles' = {} \/ foundKey' \in NamedKeys'
    BY <2>1 DEF SubInv, StepsRefer
  <2> QED BY <1>2, <2>2, <2>3, StepsReferOn DEF SubInv
<1>7. RowsMove'
  <2>1. NotedFiles' \subseteq NotedFiles \cup S
    <3>1. \A i \in DOMAIN sublog' \ DOMAIN sublog : sublog'[i].command = "d" => sublog'[i].file \in S
      BY <1>4
    <3> QED BY <1>1, <3>1, NotedOn
  <2>2. phase \in {"work", "redo"}
    OBVIOUS
  <2> QED BY <2>1, <2>2, ReplacedRowsMove DEF SubInv
<1> QED BY <1>2, <1>5, <1>6, <1>7, NotYet DEF SubInv

\* A file that was written is the last one, with its rows.
LEMMA NewFileIsThere ==
  ASSUME FileTypes, NEW S \in SUBSET DOMAIN files, NEW k \in Keys, NEW new \in Seq(DataFiles),
         ReplaceRows(S, k, new), NEW i \in Nat, 1 <= i, i <= Len(RestFiles(S, k)) + Len(new)
  PROVE  Len(files) + i \in DOMAIN files' \ DOMAIN files /\ Len(files) + i \in Nat
<1>1. Replaced(S, k, new)
  BY ReplaceRowsDoes
<1>2. /\ files' \in Seq(DataFiles) /\ Len(files') = Len(files) + Len(RestFiles(S, k)) + Len(new)
      /\ Len(RestFiles(S, k)) \in Nat
  BY ONLY <1>1 DEF Replaced
<1>3. files \in Seq(DataFiles) /\ Len(new) \in Nat
  BY DEF FileTypes
<1>4. DOMAIN files = 1..Len(files) /\ DOMAIN files' = 1..Len(files') /\ Len(files) \in Nat
  BY <1>2, <1>3
<1> QED BY <1>2, <1>3, <1>4

\* The row of an insert
LEMMA NewRowIs ==
  ASSUME NEW k \in Keys, NEW n \in Nat
  PROVE  /\ <<DataFile({Row(k, <<n>>)}, NoUpdate)>> \in Seq(DataFiles)
         /\ \A r \in DataFile({Row(k, <<n>>)}, NoUpdate).rows : r.key = k
<1>1. Row(k, <<n>>) \in TableRows /\ Row(k, <<n>>).key = k
  BY DEF Row, TableRows
<1>2. DataFile({Row(k, <<n>>)}, NoUpdate) \in DataFiles
      /\ DataFile({Row(k, <<n>>)}, NoUpdate).rows = {Row(k, <<n>>)}
  BY <1>1 DEF DataFile, DataFiles, NoUpdate
<1> QED BY <1>1, <1>2

\* Insert
LEMMA RowIsInserted ==
  ASSUME SubInv, NEW k \in Keys, Insert(k)
  PROVE  SubInv'
<1> DEFINE new == <<DataFile({Row(k, <<NextId>>)}, NoUpdate)>>
           steps == <<Step("a", k, Len(files) + 1, 0)>>
           o == [kind |-> "insert", key |-> k, id |-> NextId]
<1>0. /\ Ready /\ phase = "work" /\ ReplaceRows({}, k, new) /\ LogSteps(steps)
      /\ performed' = Append(performed, o)
      /\ UNCHANGED <<base, explicitLog, updateVals, updateOps, opVars, redoVars, phase, executed>>
  BY DEF Insert, Ready
<1>1. NextId = Len(performed) + 1 /\ Len(performed) \in Nat /\ NextId \in Nat
  BY DEF NextId, SubInv, LogTypes
<1>2. new \in Seq(DataFiles) /\ Len(new) = 1 /\ \A j \in DOMAIN new : \A r \in new[j].rows : r.key = k
  BY <1>1, NewRowIs
<1> HIDE DEF new
<1>3. {} \in SUBSET DOMAIN files /\ FileTypes
  BY DEF SubInv
<1>4. Len(files) + 1 \in DOMAIN files' \ DOMAIN files /\ Len(files) + 1 \in Nat
  <2>1. 1 <= Len(RestFiles({}, k)) + Len(new)
    <3>1. Replaced({}, k, new)
      BY <1>0, <1>2, <1>3, ReplaceRowsDoes
    <3>2. Len(RestFiles({}, k)) \in Nat
      BY ONLY <3>1 DEF Replaced
    <3> QED BY <1>2, <3>2
  <2>2. \A i \in Nat : 1 <= i /\ i <= Len(RestFiles({}, k)) + Len(new) =>
          Len(files) + i \in DOMAIN files' \ DOMAIN files /\ Len(files) + i \in Nat
    BY <1>0, <1>2, <1>3, NewFileIsThere
  <2>3. 1 \in Nat /\ 1 <= 1
    OBVIOUS
  <2> QED BY ONLY <2>1, <2>2, <2>3
<1>5. /\ steps \in Seq(SubSteps)
      /\ \A j \in DOMAIN steps : steps[j].command = "a" /\ steps[j].file \in DOMAIN files' \ DOMAIN files
  BY <1>4 DEF Step, SubSteps
<1> HIDE DEF steps
<1>6. /\ performed' \in Seq(Performed) /\ Len(performed') = Len(performed) + 1
      /\ executed' \subseteq DOMAIN performed'
      /\ k \in NamedKeys' /\ NamedKeys \subseteq NamedKeys' /\ (DeletesAtOnce' => DeletesAtOnce)
  <2>1. LogTypes
    BY DEF SubInv
  <2>2. executed' \subseteq executed \cup {Len(performed) + 1}
    BY <1>0
  <2>3. Performs(o) /\ o \in Performed /\ o.key = k
    BY <1>0, <1>1 DEF Performs, Performed
  <2> HIDE DEF o
  <2> QED BY <2>1, <2>2, <2>3, PerformsAnother
<1>7. OpTypes' /\ Operation'
  <2>1. op = NoOp /\ op' = NoOp
    BY <1>0 DEF Ready, opVars
  <2>2. UNCHANGED <<todo, explicitLog, foundKey, phase>>
    BY <1>0 DEF opVars, redoVars
  <2> QED BY <1>0, <2>1, <2>2 DEF SubInv, OpTypes, Operation
<1>8. targets' \subseteq DOMAIN files
  BY <1>0 DEF SubInv, FileTypes, opVars
<1>9. \A j \in DOMAIN new : \A r \in new[j].rows : r.key \in NamedKeys'
  BY <1>2, <1>6
<1>10. Len(performed) <= Len(performed')
  BY <1>1, <1>6
<1> QED BY <1>0, <1>2, <1>3, <1>5, <1>6, <1>7, <1>8, <1>9, <1>10, StepWithFiles

\* The remover finds the files of the key, and removes the rows.
LEMMA RowsAreFound ==
  ASSUME SubInv, NEW thread \in Threads, FindRows(thread)
  PROVE  SubInv'
<1>0. /\ Does(thread, "find") /\ targets' = FindKeyFiles(op.key, UpdateId)
      /\ UNCHANGED <<fileVars, explicitLog, logVars, op, redoVars, phase, historyVars>>
  BY DEF FindRows
<1>1. /\ op # NoOp /\ phase = "work"
      /\ todo' \in [remover : Remaining, adder : Remaining]
      /\ explicitLog => todo'.remover \notin ToLog /\ todo'.adder \notin ToLog
  BY <1>0, DoesNext DEF SubInv
<1>2. targets' \subseteq DOMAIN files
  BY <1>0, FoundAre DEF SubInv
<1>3. OpTypes' /\ Operation'
  BY <1>0, <1>1, OperationOn DEF SubInv, SameOps, historyVars, redoVars
<1>4. LogTypes'
  BY <1>0 DEF SubInv, LogTypes, historyVars, redoVars, logVars
<1>5. FileTypes' /\ FilesGrow
  BY <1>0, <1>2, SameFileTypes DEF SubInv, FileTypes, redoVars
<1>6. NamedKeys' = NamedKeys /\ (DeletesAtOnce' <=> DeletesAtOnce) /\ NotedFiles' = NotedFiles
  BY <1>0, SameOperations DEF historyVars, NotedFiles, logVars
<1>7. StepsRefer'
  BY <1>0, <1>6 DEF SubInv, StepsRefer, logVars, redoVars, fileVars
<1>8. RowsMove'
  <2>1. base' \cap DOMAIN created = {} /\ UNCHANGED <<created, deleted>>
    BY <1>0, <1>1 DEF SubInv, RowsMove, fileVars
  <2> QED BY <1>5, <1>6, <2>1, SameRowsMove DEF SubInv
<1> QED BY <1>0, <1>1, <1>3, <1>4, <1>5, <1>7, <1>8, NotYet DEF SubInv

LEMMA RowsAreRemoved ==
  ASSUME SubInv, NEW thread \in Threads, RemoveRows(thread)
  PROVE  SubInv'
<1> DEFINE rest == Len(RestFiles(targets, op.key))
           n == Cardinality(targets)
           adds == [i \in 1..rest |-> Step("a", op.key, Len(files) + i, 0)]
           removes == [i \in 1..n |-> Step("d", op.key, SetToSeq(targets)[i], 0)]
           steps == adds \o removes
<1>0. /\ Does(thread, "remove") /\ ReplaceRows(targets, op.key, <<>>) /\ LogSteps(steps)
      /\ UNCHANGED <<base, explicitLog, updateVals, updateOps, op, targets, redoVars, phase, historyVars>>
  BY DEF RemoveRows
<1>1. /\ op # NoOp /\ phase = "work"
      /\ todo' \in [remover : Remaining, adder : Remaining]
      /\ explicitLog => todo'.remover \notin ToLog /\ todo'.adder \notin ToLog
  BY <1>0, DoesNext DEF SubInv
<1>2. OpTypes' /\ Operation'
  BY <1>0, <1>1, OperationOn DEF SubInv, SameOps, historyVars, redoVars
<1>3. FileTypes /\ targets \in SUBSET DOMAIN files /\ op.key \in Keys /\ <<>> \in Seq(DataFiles) /\ Len(<<>>) = 0
  BY DEF SubInv, FileTypes, OpTypes, OpRecords
<1>4. rest \in Nat
  <2>1. Replaced(targets, op.key, <<>>)
    BY <1>0, <1>3, ReplaceRowsDoes
  <2> QED BY ONLY <2>1 DEF Replaced
<1> HIDE DEF rest
<1>5. \A i \in 1..rest : Len(files) + i \in DOMAIN files' \ DOMAIN files /\ Len(files) + i \in Nat
  <2> TAKE i \in 1..rest
  <2>1. i \in Nat /\ 1 <= i /\ i <= Len(RestFiles(targets, op.key)) + Len(<<>>)
    BY <1>3, <1>4 DEF rest
  <2> HIDE DEF rest
  <2> QED BY <1>0, <1>3, <2>1, NewFileIsThere
<1>6. /\ SetToSeq(targets) \in [1..n -> targets] /\ n \in Nat
      /\ DOMAIN files \subseteq Nat
  <2>1. IsFiniteSet(targets)
    <3>2. DOMAIN files = 1..Len(files) /\ Len(files) \in Nat
      BY <1>3 DEF FileTypes
    <3>1. IsFiniteSet(1..Len(files)) /\ targets \in SUBSET (1..Len(files))
      BY <1>3, <3>2, FS_Interval
    <3> QED BY <3>1, FS_Subset
  <2> QED BY <1>3, <2>1, ListsAll DEF FileTypes
<1> HIDE DEF n
<1>7. adds \in Seq(SubSteps) /\ Len(adds) = rest
      /\ \A j \in 1..rest : adds[j].command = "a" /\ adds[j].file \in DOMAIN files' \ DOMAIN files
  <2>1. \A i \in 1..rest : Step("a", op.key, Len(files) + i, 0) \in SubSteps
    BY <1>3, <1>5 DEF Step, SubSteps
  <2>2. \A i \in 1..rest : /\ Step("a", op.key, Len(files) + i, 0).command = "a"
                           /\ Step("a", op.key, Len(files) + i, 0).file = Len(files) + i
    BY DEF Step
  <2>3. adds \in Seq(SubSteps) /\ Len(adds) = rest
    BY <1>4, <2>1
  <2>4. \A i \in 1..rest : adds[i] = Step("a", op.key, Len(files) + i, 0)
    OBVIOUS
  <2> HIDE DEF adds
  <2> QED BY <1>5, <2>2, <2>3, <2>4
<1>8. removes \in Seq(SubSteps) /\ Len(removes) = n
      /\ \A j \in 1..n : removes[j].command = "d" /\ removes[j].file \in targets
  <2>1. \A i \in 1..n : SetToSeq(targets)[i] \in targets
    BY <1>6
  <2>2. \A i \in 1..n : Step("d", op.key, SetToSeq(targets)[i], 0) \in SubSteps
    BY <1>3, <1>6, <2>1 DEF Step, SubSteps
  <2>3. \A i \in 1..n : /\ Step("d", op.key, SetToSeq(targets)[i], 0).command = "d"
                        /\ Step("d", op.key, SetToSeq(targets)[i], 0).file = SetToSeq(targets)[i]
    BY DEF Step
  <2> QED BY <1>6, <2>1, <2>2, <2>3
<1> HIDE DEF adds, removes
<1>9. /\ steps \in Seq(SubSteps) /\ DOMAIN steps = 1..(rest + n)
      /\ \A i \in 1..rest : steps[i] = adds[i]
      /\ \A j \in 1..n : steps[rest + j] = removes[j]
  <2>1. adds \in Seq(SubSteps) /\ removes \in Seq(SubSteps) /\ Len(adds) = rest /\ Len(removes) = n
    BY <1>7, <1>8
  <2>3. adds \in Seq(SubSteps) /\ removes \in Seq(SubSteps)
    BY <2>1
  <2>2. /\ steps \in Seq(SubSteps)
        /\ DOMAIN steps = 1..(Len(adds) + Len(removes))
        /\ \A i \in 1..Len(adds) : steps[i] = adds[i]
        /\ \A j \in 1..Len(removes) : steps[Len(adds) + j] = removes[j]
    BY ONLY <2>3, Appended
  <2> QED BY <2>1, <2>2
<1> HIDE DEF steps
<1>10. \A j \in DOMAIN steps :
           \/ steps[j].command = "a" /\ steps[j].file \in DOMAIN files' \ DOMAIN files
           \/ steps[j].command = "d" /\ steps[j].file \in targets
  <2> TAKE j \in DOMAIN steps
  <2>1. CASE j \in 1..rest
    BY <1>7, <1>9, <2>1
  <2>2. CASE j \notin 1..rest
    <3>1. j - rest \in 1..n /\ rest + (j - rest) = j
      BY <1>4, <1>6, <1>9, <2>2
    <3>2. steps[j] = removes[j - rest]
      BY <1>9, <3>1
    <3> QED BY <1>8, <3>1, <3>2
  <2> QED BY <2>1, <2>2
<1>11. /\ performed' = performed /\ executed' = executed /\ NamedKeys' = NamedKeys
       /\ DeletesAtOnce' <=> DeletesAtOnce
       /\ performed' \in Seq(Performed) /\ executed' \subseteq DOMAIN performed'
       /\ Len(performed) <= Len(performed')
  <2>1. performed' = performed /\ executed' = executed
    BY <1>0 DEF historyVars
  <2>2. performed \in Seq(Performed) /\ executed \subseteq DOMAIN performed /\ Len(performed) \in Nat
    BY DEF SubInv, LogTypes
  <2> QED BY <2>1, <2>2, SameOperations
<1>12. op.key \in NamedKeys' /\ \A j \in DOMAIN <<>> : \A r \in <<>>[j].rows : r.key \in NamedKeys'
  BY <1>1, <1>11 DEF SubInv, Operation
<1>13. targets' \subseteq DOMAIN files
  BY <1>0, <1>3
<1> QED BY <1>0, <1>1, <1>2, <1>3, <1>9, <1>10, <1>11, <1>12, <1>13, StepWithFiles

\* A log of one step
LEMMA OneStep ==
  ASSUME NEW s \in SubSteps
  PROVE  <<s>> \in Seq(SubSteps) /\ \A j \in DOMAIN <<s>> : <<s>>[j] = s
OBVIOUS

\* A removal is noted: the search for the key, and the files.
LEMMA SearchIsLogged ==
  ASSUME SubInv, NEW thread \in Threads, LogSearch(thread)
  PROVE  SubInv'
<1> DEFINE s == Step("s", op.key, 0, 0)
<1>0. /\ ~explicitLog /\ todo[thread] # <<>> /\ Head(todo[thread]) = "remove" /\ phase = "work"
      /\ todo' = [todo EXCEPT ![thread][1] = "logRemove"]
      /\ LogSteps(<<s>>)
      /\ UNCHANGED <<fileVars, explicitLog, updateVals, updateOps, op, targets, redoVars, phase, historyVars>>
  BY DEF LogSearch
<1>1. todo \in [remover : Remaining, adder : Remaining] /\ op.key \in Keys
  BY DEF SubInv, OpTypes, OpRecords
<1>2. op # NoOp
  BY <1>0 DEF SubInv, Operation, Threads
<1>3. todo' \in [remover : Remaining, adder : Remaining]
  <2>1. todo[thread] \in Remaining
    BY <1>1 DEF Threads
  <2>2. [todo[thread] EXCEPT ![1] = "logRemove"] \in Remaining
    BY <1>0, <2>1, LogOf
  <2>3. todo' = [todo EXCEPT ![thread] = [todo[thread] EXCEPT ![1] = "logRemove"]]
    BY <1>0
  <2> QED BY <1>1, <2>2, <2>3 DEF Threads
<1>4. s \in SubSteps /\ s.command = "s" /\ s.key = op.key
  BY <1>1 DEF Step, SubSteps
<1> HIDE DEF s
<1>5. <<s>> \in Seq(SubSteps) /\ \A j \in DOMAIN <<s>> : <<s>>[j] = s
  BY <1>4, OneStep
<1> DEFINE steps == <<s>>
<1>6. \A j \in DOMAIN steps :
           /\ steps[j].command # "a"
           /\ steps[j].command = "d" => ~DeletesAtOnce /\ steps[j].file \in DOMAIN files
           /\ steps[j].command = "s" => steps[j].key = op.key
  BY <1>4, <1>5
<1>7. steps \in Seq(SubSteps) /\ LogSteps(steps)
  BY <1>0, <1>5
<1> HIDE DEF steps
<1>8. targets' \subseteq DOMAIN files /\ SameOps
  BY <1>0 DEF SubInv, FileTypes, SameOps, historyVars
<1> QED BY <1>0, <1>2, <1>3, <1>6, <1>7, <1>8, StepOfOperation

LEMMA RemovalIsLogged ==
  ASSUME SubInv, NEW thread \in Threads, LogRemove(thread)
  PROVE  SubInv'
<1>0. /\ Does(thread, "logRemove")
      /\ UNCHANGED <<fileVars, explicitLog, updateVals, updateOps, op, targets, redoVars, phase, historyVars>>
  BY DEF LogRemove
<1>1. /\ op # NoOp /\ phase = "work"
      /\ todo' \in [remover : Remaining, adder : Remaining]
      /\ explicitLog => todo'.remover \notin ToLog /\ todo'.adder \notin ToLog
  BY <1>0, DoesNext DEF SubInv
<1>2. ~explicitLog
  <2>1. todo[thread] \in ToLog
    <3>1. todo[thread] \in Remaining /\ todo[thread] # <<>> /\ Head(todo[thread]) = "logRemove"
      BY <1>0 DEF SubInv, OpTypes, Does, Threads
    <3> QED BY <3>1, ToLogIs
  <2> QED BY <2>1 DEF SubInv, Operation, Threads
<1>3. op.key \in Keys /\ op.id \in DOMAIN performed /\ performed[op.id].kind = op.kind /\ op.id \notin executed
      /\ op.id # NoUpdate
  <2>1. DOMAIN performed = 1..Len(performed)
    BY DEF SubInv, LogTypes
  <2> QED BY <1>1, <1>2, <2>1 DEF SubInv, OpTypes, OpRecords, Operation, NoUpdate
<1>4. PICK s \in SubSteps :
        /\ LogSteps(<<s>>)
        /\ s.command = "d found" \/ (s.command = "d" /\ ~DeletesAtOnce /\ s.file \in DOMAIN files)
  <2>1. CASE UpdateId = NoUpdate
    <3>1. op.kind = "delete"
      BY <1>3, <2>1 DEF UpdateId
    <3>2. ~DeletesAtOnce
      BY <1>3, <3>1 DEF DeletesAtOnce
    <3>3. PICK f \in targets : LogSteps(<<Step("d", op.key, f, 0)>>)
      BY <2>1 DEF LogRemove
    <3>4. f \in DOMAIN files /\ f \in Nat
      BY DEF SubInv, FileTypes
    <3>5. /\ Step("d", op.key, f, 0) \in SubSteps
          /\ Step("d", op.key, f, 0).command = "d" /\ Step("d", op.key, f, 0).file = f
      BY <1>3, <3>4 DEF Step, SubSteps
    <3> QED BY <3>2, <3>3, <3>4, <3>5
  <2>2. CASE UpdateId # NoUpdate
    <3>1. LogSteps(<<Step("d found", op.key, 0, 0)>>)
      BY <2>2 DEF LogRemove
    <3>2. Step("d found", op.key, 0, 0) \in SubSteps /\ Step("d found", op.key, 0, 0).command = "d found"
      BY <1>3 DEF Step, SubSteps
    <3> QED BY <3>1, <3>2
  <2> QED BY <2>1, <2>2
<1> DEFINE steps == <<s>>
<1>5. steps \in Seq(SubSteps) /\ \A j \in DOMAIN steps : steps[j] = s
  BY <1>4, OneStep
<1>6. \A j \in DOMAIN steps :
           /\ steps[j].command # "a"
           /\ steps[j].command = "d" => ~DeletesAtOnce /\ steps[j].file \in DOMAIN files
           /\ steps[j].command = "s" => steps[j].key = op.key
  BY <1>4, <1>5
<1>7. LogSteps(steps)
  BY <1>4
<1> HIDE DEF steps
<1>8. targets' \subseteq DOMAIN files /\ SameOps
  BY <1>0 DEF SubInv, FileTypes, SameOps, historyVars
<1> QED BY <1>0, <1>1, <1>5, <1>6, <1>7, <1>8, StepOfOperation

\* The adder writes the new rows.
LEMMA RowsAreAdded ==
  ASSUME SubInv, NEW thread \in Threads, AddRows(thread)
  PROVE  SubInv'
<1>0. /\ Does(thread, "add")
      /\ UNCHANGED <<explicitLog, updateVals, updateOps, op, targets, redoVars, phase, historyVars>>
  BY DEF AddRows
<1>1. /\ op # NoOp /\ phase = "work"
      /\ todo' \in [remover : Remaining, adder : Remaining]
      /\ explicitLog => todo'.remover \notin ToLog /\ todo'.adder \notin ToLog
  BY <1>0, DoesNext DEF SubInv
<1>2. /\ op.key \in Keys /\ op.id \in Nat /\ op.read \in SUBSET TableRows
      /\ op.key \in NamedKeys /\ \A r \in op.read : r.key = op.key
  BY <1>1 DEF SubInv, OpTypes, OpRecords, Operation
<1>3. targets' \subseteq DOMAIN files /\ SameOps
  BY <1>0 DEF SubInv, FileTypes, SameOps, historyVars
<1>4. CASE ~explicitLog
  <2> DEFINE s == Step("e found", op.key, 0, LastUpdate)
             steps == <<s>>
  <2>1. LogSteps(steps) /\ UNCHANGED fileVars
    BY <1>4 DEF AddRows
  <2>2. s \in SubSteps /\ s.command = "e found"
    <3>1. LastUpdate \in Nat
      BY DEF SubInv, LogTypes, LastUpdate
    <3> QED BY <1>2, <3>1 DEF Step, SubSteps
  <2> HIDE DEF s
  <2>3. steps \in Seq(SubSteps) /\ \A j \in DOMAIN steps : steps[j] = s
    BY <2>2, OneStep
  <2>4. \A j \in DOMAIN steps :
           /\ steps[j].command # "a"
           /\ steps[j].command = "d" => ~DeletesAtOnce /\ steps[j].file \in DOMAIN files
           /\ steps[j].command = "s" => steps[j].key = op.key
    BY <2>2, <2>3
  <2> HIDE DEF steps
  <2> QED BY <1>0, <1>1, <1>3, <2>1, <2>3, <2>4, StepOfOperation
<1>5. CASE explicitLog
  <2> DEFINE new == <<DataFile(Updated(op.read, op.id, op.id), op.id)>>
             s == Step("a", op.key, Len(files) + 1, 0)
             steps == <<s>>
  <2>1. ReplaceRows({}, op.key, new) /\ LogSteps(steps) /\ UNCHANGED base
    BY <1>5 DEF AddRows
  <2>2. new \in Seq(DataFiles) /\ Len(new) = 1 /\ \A j \in DOMAIN new : \A r \in new[j].rows : r.key = op.key
    <3>1. /\ new \in Seq(DataFiles)
          /\ \A r \in DataFile(Updated(op.read, op.id, op.id), op.id).rows : r.key = op.key
      BY <1>2, UpdatedIs
    <3> QED BY <3>1
  <2> HIDE DEF new
  <2>3. {} \in SUBSET DOMAIN files /\ FileTypes
    BY DEF SubInv
  <2>4. Len(files) + 1 \in DOMAIN files' \ DOMAIN files /\ Len(files) + 1 \in Nat
    <3>1. 1 <= Len(RestFiles({}, op.key)) + Len(new)
      <4>1. Replaced({}, op.key, new)
        BY <1>2, <2>1, <2>2, <2>3, ReplaceRowsDoes
      <4>2. Len(RestFiles({}, op.key)) \in Nat
        BY ONLY <4>1 DEF Replaced
      <4> QED BY <2>2, <4>2
    <3>2. \A i \in Nat : 1 <= i /\ i <= Len(RestFiles({}, op.key)) + Len(new) =>
            Len(files) + i \in DOMAIN files' \ DOMAIN files /\ Len(files) + i \in Nat
      BY <1>2, <2>1, <2>2, <2>3, NewFileIsThere
    <3>3. 1 \in Nat /\ 1 <= 1
      OBVIOUS
    <3> QED BY ONLY <3>1, <3>2, <3>3
  <2>5. s \in SubSteps /\ s.command = "a" /\ s.file = Len(files) + 1
    BY <1>2, <2>4 DEF Step, SubSteps
  <2> HIDE DEF s
  <2>6. steps \in Seq(SubSteps) /\ \A j \in DOMAIN steps : steps[j] = s
    BY <2>5, OneStep
  <2>7. \A j \in DOMAIN steps :
           \/ steps[j].command = "a" /\ steps[j].file \in DOMAIN files' \ DOMAIN files
           \/ steps[j].command = "d" /\ steps[j].file \in {}
    BY <2>4, <2>5, <2>6
  <2> HIDE DEF steps
  <2>8. OpTypes' /\ Operation'
    BY <1>0, <1>1, OperationOn DEF SubInv, SameOps, historyVars, redoVars
  <2>9. /\ performed' = performed /\ executed' = executed /\ NamedKeys' = NamedKeys
        /\ DeletesAtOnce' <=> DeletesAtOnce
        /\ performed' \in Seq(Performed) /\ executed' \subseteq DOMAIN performed'
        /\ Len(performed) <= Len(performed')
    <3>1. performed' = performed /\ executed' = executed
      BY <1>0 DEF historyVars
    <3>2. performed \in Seq(Performed) /\ executed \subseteq DOMAIN performed /\ Len(performed) \in Nat
      BY DEF SubInv, LogTypes
    <3> QED BY <3>1, <3>2, SameOperations
  <2>10. op.key \in NamedKeys' /\ \A j \in DOMAIN new : \A r \in new[j].rows : r.key \in NamedKeys'
    BY <1>2, <2>2, <2>9
  <2> QED BY <1>0, <1>1, <1>2, <1>3, <2>1, <2>2, <2>3, <2>6, <2>7, <2>8, <2>9, <2>10, StepWithFiles
<1> QED BY <1>4, <1>5

\* A step after which files, steps and operations are the same
LEMMA NothingMoves ==
  ASSUME SubInv, SameOps, UNCHANGED <<fileVars, logVars, foundKey, foundFiles, retired>>,
         phase # "committed", phase' # "committed", targets' \subseteq DOMAIN files,
         at' \in 0..(Len(sublog) + 1), OpTypes', Operation'
  PROVE  SubInv'
<1>1. NamedKeys' = NamedKeys /\ (DeletesAtOnce' <=> DeletesAtOnce) /\ NotedFiles' = NotedFiles
  BY SameOperations DEF SameOps, NotedFiles, logVars
<1>2. FileTypes' /\ FilesGrow
  BY SameFileTypes DEF SubInv, FileTypes
<1>3. LogTypes'
  BY DEF SubInv, LogTypes, SameOps, logVars
<1>4. StepsRefer'
  BY <1>1 DEF SubInv, StepsRefer, logVars, fileVars
<1>5. RowsMove'
  <2>1. base' \cap DOMAIN created = {} /\ UNCHANGED <<created, deleted>>
    BY DEF SubInv, RowsMove, fileVars
  <2> QED BY <1>1, <1>2, <2>1, SameRowsMove DEF SubInv
<1> QED BY <1>2, <1>3, <1>4, <1>5, NotYet DEF SubInv

\* The steps between the operations and the redo
LEMMA OperationEnds ==
  ASSUME SubInv, EndOperation
  PROVE  SubInv'
<1>0. /\ phase = "work" /\ todo.remover = <<>> /\ todo.adder = <<>> /\ op' = NoOp /\ targets' = {}
      /\ UNCHANGED <<fileVars, explicitLog, logVars, todo, redoVars, phase, historyVars>>
  BY DEF EndOperation
<1>1. OpTypes'
  <2>1. NoOp \in OpRecords
    <3>1. Keys # {}
      BY SubLogAssumption
    <3> QED BY <3>1 DEF NoOp, OpRecords
  <2> QED BY <1>0, <2>1 DEF SubInv, OpTypes, redoVars
<1>2. Operation'
  BY <1>0 DEF SubInv, Operation
<1>3. SameOps /\ at' \in 0..(Len(sublog) + 1) /\ UNCHANGED <<foundKey, foundFiles, retired>>
  BY <1>0 DEF SubInv, LogTypes, redoVars, historyVars, SameOps
<1> QED BY <1>0, <1>1, <1>2, <1>3, NothingMoves

LEMMA MarkerIsSeen ==
  ASSUME SubInv, SeeMarker
  PROVE  SubInv'
<1>0. /\ phase = "work" /\ op = NoOp /\ explicitLog' = FALSE
      /\ UNCHANGED <<fileVars, logVars, opVars, redoVars, phase, performed, executed>>
  BY DEF SeeMarker, Ready
<1>1. OpTypes' /\ Operation'
  BY <1>0 DEF SubInv, OpTypes, Operation, opVars, redoVars
<1>2. /\ SameOps /\ at' \in 0..(Len(sublog) + 1) /\ UNCHANGED <<foundKey, foundFiles, retired>>
      /\ targets' \subseteq DOMAIN files
  BY <1>0 DEF SubInv, LogTypes, FileTypes, redoVars, SameOps, opVars
<1> QED BY <1>0, <1>1, <1>2, NothingMoves

LEMMA CommitBegins ==
  ASSUME SubInv, BeginCommit
  PROVE  SubInv'
<1>0. /\ phase = "work" /\ op = NoOp /\ phase' \in {"write", "wait"}
      /\ UNCHANGED <<fileVars, explicitLog, logVars, opVars, redoVars, historyVars>>
  BY DEF BeginCommit, Ready
<1>1. OpTypes' /\ Operation'
  BY <1>0 DEF SubInv, OpTypes, Operation, opVars, redoVars
<1>2. /\ SameOps /\ at' \in 0..(Len(sublog) + 1) /\ UNCHANGED <<foundKey, foundFiles, retired>>
      /\ targets' \subseteq DOMAIN files
  BY <1>0 DEF SubInv, LogTypes, FileTypes, redoVars, SameOps, opVars, historyVars
<1> QED BY <1>0, <1>1, <1>2, NothingMoves

LEMMA RedoBegins ==
  ASSUME SubInv, BeginRedo
  PROVE  SubInv'
<1>0. /\ phase = "wait" /\ phase' = "redo" /\ at' = 1
      /\ UNCHANGED <<fileVars, explicitLog, logVars, opVars, foundKey, foundFiles, retired, historyVars>>
  BY DEF BeginRedo
<1>1. op = NoOp
  BY <1>0 DEF SubInv, Operation
<1>2. OpTypes' /\ Operation'
  BY <1>0, <1>1 DEF SubInv, OpTypes, Operation, opVars
<1>3. /\ SameOps /\ at' \in 0..(Len(sublog) + 1) /\ targets' \subseteq DOMAIN files
  BY <1>0 DEF SubInv, LogTypes, FileTypes, SameOps, opVars, historyVars
<1> QED BY <1>0, <1>2, <1>3, NothingMoves

LEMMA RedoEnds ==
  ASSUME SubInv, EndRedo
  PROVE  SubInv'
<1>0. /\ phase = "redo" /\ phase' = "write"
      /\ UNCHANGED <<fileVars, explicitLog, logVars, opVars, redoVars, historyVars>>
  BY DEF EndRedo
<1>1. op = NoOp
  BY <1>0 DEF SubInv, Operation
<1>2. OpTypes' /\ Operation'
  BY <1>0, <1>1 DEF SubInv, OpTypes, Operation, opVars, redoVars
<1>3. /\ SameOps /\ at' \in 0..(Len(sublog) + 1) /\ targets' \subseteq DOMAIN files
      /\ UNCHANGED <<foundKey, foundFiles, retired>>
  BY <1>0 DEF SubInv, LogTypes, FileTypes, SameOps, opVars, historyVars, redoVars
<1> QED BY <1>0, <1>2, <1>3, NothingMoves

-----------------------------------------------------------------------------
(* The redo and the commit *)

\* Another transaction commits: its files are not those of this one.
LEMMA OthersCommit ==
  ASSUME SubInv, NEW k \in Keys, OtherCommits(k)
  PROVE  SubInv'
<1> DEFINE old == {f \in base : HasKey(f, k)}
           rest == RestFiles(old, k)
           theirs == DataFile({Row(r.key, Append(r.val, MaxOps + 1)) : r \in KeyRows(old, k)}, NoUpdate)
           new == Append(rest, theirs)
           ids == NewFileIds(Len(new))
<1>0. /\ phase = "wait" /\ files' = files \o new
      /\ base' = (base \ old) \cup ids /\ live' = (live \ old) \cup ids
      /\ UNCHANGED <<created, deleted, explicitLog, logVars, opVars, redoVars, phase, performed, executed>>
  BY DEF OtherCommits
<1>1. /\ files \in Seq(DataFiles) /\ old \in SUBSET DOMAIN files
      /\ base \subseteq DOMAIN files /\ live \subseteq DOMAIN files
  BY DEF SubInv, FileTypes
<1> HIDE DEF old
<1>2. rest \in Seq(DataFiles)
  BY <1>1, RestIs
<1>3. theirs \in DataFiles
  <2>1. KeyRows(old, k) \in SUBSET TableRows
    BY <1>1, KeyRowsIs
  <2>2. MaxOps + 1 \in Nat
    BY SubLogAssumption
  <2>3. \A r \in TableRows : Row(r.key, Append(r.val, MaxOps + 1)) \in TableRows
    BY <2>2 DEF Row, TableRows
  <2>4. {Row(r.key, Append(r.val, MaxOps + 1)) : r \in KeyRows(old, k)} \in SUBSET TableRows
    BY <2>1, <2>3
  <2> QED BY <2>4 DEF DataFile, DataFiles, NoUpdate
<1> HIDE DEF rest, theirs
<1>4. new \in Seq(DataFiles) /\ Len(new) \in Nat
  BY <1>2, <1>3
<1> HIDE DEF new
<1>5. /\ files' \in Seq(DataFiles) /\ Len(files) \in Nat
      /\ DOMAIN files = 1..Len(files) /\ DOMAIN files' = 1..(Len(files) + Len(new))
      /\ \A f \in 1..Len(files) : files'[f] = files[f]
  <2> DEFINE g == files \o new
  <2>1. files \in Seq(DataFiles) /\ new \in Seq(DataFiles)
    BY <1>1, <1>4
  <2>2. /\ g \in Seq(DataFiles) /\ Len(files) \in Nat
        /\ DOMAIN files = 1..Len(files) /\ DOMAIN g = 1..(Len(files) + Len(new))
        /\ \A f \in 1..Len(files) : g[f] = files[f]
    BY ONLY <2>1, Appended
  <2> QED BY <1>0, <2>2
<1>6. ids = DOMAIN files' \ DOMAIN files /\ DOMAIN files \subseteq DOMAIN files'
  BY <1>4, <1>5 DEF NewFileIds
<1> HIDE DEF ids
<1>7. FilesGrow
  BY <1>5, <1>6 DEF FilesGrow
<1>8. NamedKeys' = NamedKeys /\ (DeletesAtOnce' <=> DeletesAtOnce) /\ NotedFiles' = NotedFiles
  BY <1>0, SameOperations DEF NotedFiles, logVars
<1>9. FileTypes'
  <2>1. base' \subseteq DOMAIN files' /\ live' \subseteq DOMAIN files'
    BY <1>0, <1>1, <1>6
  <2> QED BY <1>0, <1>5, <1>6, <2>1 DEF SubInv, FileTypes, opVars, redoVars
<1>10. LogTypes'
  BY <1>0 DEF SubInv, LogTypes, logVars, redoVars
<1>11. OpTypes' /\ Operation'
  BY <1>0, <1>8 DEF SubInv, OpTypes, Operation, opVars, redoVars
<1>12. StepsRefer'
  BY <1>0, <1>6, <1>8 DEF SubInv, StepsRefer, logVars, redoVars
<1>13. RowsMove'
  <2>1. base' \cap DOMAIN created = {}
    <3>1. base \cap DOMAIN created = {} /\ DOMAIN created \subseteq DOMAIN files
      BY <1>0 DEF SubInv, RowsMove, FileTypes
    <3> QED BY <1>0, <1>6, <3>1
  <2>2. UNCHANGED <<created, deleted>>
    BY <1>0
  <2> QED BY <1>7, <1>8, <2>1, <2>2, SameRowsMove DEF SubInv
<1> QED BY <1>0, <1>9, <1>10, <1>11, <1>12, <1>13, NotYet DEF SubInv

\* A step of the redo: the position moves on.
LEMMA RedoMovesOn ==
  ASSUME SubInv, phase = "redo", at <= Len(sublog), at' = at + 1, UnchangedByRedo, foundKey' \in Keys,
         phase' \in {"redo", "write"}
  PROVE  /\ LogTypes' /\ OpTypes' /\ Operation' /\ phase' # "committed"
         /\ at \in DOMAIN sublog /\ sublog[at] \in SubSteps
         /\ NamedKeys' = NamedKeys /\ (DeletesAtOnce' <=> DeletesAtOnce) /\ NotedFiles' = NotedFiles
         /\ UNCHANGED <<base, sublog, targets>>
<1>1. UNCHANGED <<base, explicitLog, logVars, opVars, historyVars>>
  BY DEF UnchangedByRedo
<1>2. op = NoOp /\ at >= 1
  BY DEF SubInv, Operation
<1>3. sublog \in Seq(SubSteps) /\ Len(sublog) \in Nat /\ at \in 0..(Len(sublog) + 1)
  BY DEF SubInv, LogTypes
<1>4. at \in DOMAIN sublog /\ at' \in 0..(Len(sublog) + 1) /\ at' >= 1
  BY <1>2, <1>3
<1>5. LogTypes'
  BY <1>1, <1>4 DEF SubInv, LogTypes, logVars, historyVars
<1>6. OpTypes'
  BY <1>1 DEF SubInv, OpTypes, opVars
<1>7. Operation'
  BY <1>1, <1>2, <1>4 DEF SubInv, Operation, opVars
<1>8. NamedKeys' = NamedKeys /\ (DeletesAtOnce' <=> DeletesAtOnce) /\ NotedFiles' = NotedFiles
  BY <1>1, SameOperations DEF historyVars, NotedFiles, logVars
<1> QED BY <1>1, <1>3, <1>4, <1>5, <1>6, <1>7, <1>8 DEF logVars, opVars

\* A step of the redo that leaves the files alone
LEMMA RedoLeavesFiles ==
  ASSUME SubInv, phase = "redo", at <= Len(sublog), at' = at + 1, UnchangedByRedo, foundKey' \in Keys,
         phase' \in {"redo", "write"}, UNCHANGED <<files, live, created, deleted>>,
         foundFiles' \subseteq DOMAIN files, retired' \subseteq DOMAIN files,
         foundFiles' = {} \/ foundKey' \in NamedKeys
  PROVE  SubInv'
<1>1. /\ LogTypes' /\ OpTypes' /\ Operation' /\ phase' # "committed"
      /\ NamedKeys' = NamedKeys /\ (DeletesAtOnce' <=> DeletesAtOnce) /\ NotedFiles' = NotedFiles
      /\ UNCHANGED <<base, sublog, targets>>
  BY RedoMovesOn
<1>2. FileTypes' /\ FilesGrow
  BY <1>1, SameFileTypes DEF SubInv, FileTypes, fileVars
<1>3. StepsRefer'
  BY <1>1 DEF SubInv, StepsRefer
<1>4. RowsMove'
  <2>1. base' \cap DOMAIN created = {}
    BY <1>1 DEF SubInv, RowsMove
  <2> QED BY <1>1, <1>2, <2>1, SameRowsMove DEF SubInv
<1> QED BY <1>1, <1>2, <1>3, <1>4, NotYet DEF SubInv

\* The steps of the redo that leave the files alone
LEMMA NothingIsRedone ==
  ASSUME SubInv, RedoNothing
  PROVE  SubInv'
<1>1. phase = "redo" /\ at <= Len(sublog) /\ at' = at + 1 /\ UnchangedByRedo
  BY DEF RedoNothing, Redoing
<1>2. UNCHANGED <<files, live, created, deleted, foundKey, foundFiles, retired, phase>>
  BY DEF RedoNothing
<1>3. /\ foundKey' \in Keys /\ phase' \in {"redo", "write"}
      /\ foundFiles' \subseteq DOMAIN files /\ retired' \subseteq DOMAIN files
      /\ foundFiles' = {} \/ foundKey' \in NamedKeys
  BY <1>1, <1>2 DEF SubInv, OpTypes, FileTypes, StepsRefer
<1> QED BY <1>1, <1>2, <1>3, RedoLeavesFiles

LEMMA RedoEndsEarly ==
  ASSUME SubInv, RedoFails
  PROVE  SubInv'
<1>1. phase = "redo" /\ at <= Len(sublog) /\ at' = at + 1 /\ UnchangedByRedo
  BY DEF RedoFails, Redoing
<1>2. phase' = "write" /\ UNCHANGED <<files, live, created, deleted, foundKey, foundFiles, retired>>
  BY DEF RedoFails
<1>3. /\ foundKey' \in Keys /\ phase' \in {"redo", "write"}
      /\ foundFiles' \subseteq DOMAIN files /\ retired' \subseteq DOMAIN files
      /\ foundFiles' = {} \/ foundKey' \in NamedKeys
  BY <1>1, <1>2 DEF SubInv, OpTypes, FileTypes, StepsRefer
<1> QED BY <1>1, <1>2, <1>3, RedoLeavesFiles

\* The step that is redone
LEMMA RedoneStep ==
  ASSUME SubInv, NEW command, Redoing(command)
  PROVE  /\ phase = "redo" /\ at <= Len(sublog) /\ at' = at + 1
         /\ at \in DOMAIN sublog /\ sublog[at] \in SubSteps /\ sublog[at].command = command
<1>1. phase = "redo" /\ at <= Len(sublog) /\ at' = at + 1 /\ sublog[at].command = command
  BY DEF Redoing
<1>2. sublog \in Seq(SubSteps) /\ Len(sublog) \in Nat /\ at \in 0..(Len(sublog) + 1) /\ at >= 1
  BY <1>1 DEF SubInv, LogTypes, Operation
<1>3. at \in DOMAIN sublog
  BY <1>1, <1>2
<1> QED BY <1>1, <1>2, <1>3

\* The redo searches the key in the newest snapshot.
LEMMA SearchIsRedone ==
  ASSUME SubInv, RedoSearch
  PROVE  SubInv'
<1>1. /\ phase = "redo" /\ at <= Len(sublog) /\ at' = at + 1 /\ UnchangedByRedo
      /\ at \in DOMAIN sublog /\ sublog[at] \in SubSteps /\ sublog[at].command = "s"
  BY RedoneStep DEF RedoSearch
<1>2. /\ foundKey' = sublog[at].key /\ foundFiles' = FindKeyFiles(sublog[at].key, NoUpdate) /\ retired' = {}
      /\ UNCHANGED <<files, live, created, deleted, phase>>
  BY DEF RedoSearch
<1>3. foundKey' \in Keys /\ foundKey' \in NamedKeys
  BY <1>1, <1>2 DEF SubInv, StepsRefer, SubSteps
<1>4. phase' \in {"redo", "write"} /\ foundFiles' \subseteq DOMAIN files /\ retired' \subseteq DOMAIN files
  BY <1>1, <1>2, FoundAre DEF SubInv
<1> QED BY <1>1, <1>2, <1>3, <1>4, RedoLeavesFiles

\* The found rows are replaced.
LEMMA RedoReplaces ==
  ASSUME SubInv, phase = "redo", at <= Len(sublog), at' = at + 1, UnchangedByRedo,
         NEW new \in Seq(DataFiles), ReplaceRows(foundFiles \ retired, foundKey, new),
         \A j \in DOMAIN new : \A r \in new[j].rows : r.key = foundKey,
         foundFiles # {} \/ new = <<>>,
         retired' = retired \cup foundFiles, UNCHANGED <<foundKey, foundFiles, phase>>
  PROVE  SubInv'
<1> DEFINE S == foundFiles \ retired
<1>1. foundKey' \in Keys /\ phase' \in {"redo", "write"} /\ foundKey \in Keys /\ S \in SUBSET DOMAIN files
  BY DEF SubInv, OpTypes, FileTypes
<1>2. /\ LogTypes' /\ OpTypes' /\ Operation' /\ phase' # "committed"
      /\ NamedKeys' = NamedKeys /\ (DeletesAtOnce' <=> DeletesAtOnce) /\ NotedFiles' = NotedFiles
      /\ UNCHANGED <<base, sublog, targets>>
  BY <1>1, RedoMovesOn
<1>3. S = {} \/ foundKey \in NamedKeys'
  BY <1>2 DEF SubInv, StepsRefer
<1>4. \A j \in DOMAIN new : \A r \in new[j].rows : r.key \in NamedKeys'
  BY <1>2 DEF SubInv, StepsRefer
<1>5. ReplaceRows(S, foundKey, new)
  OBVIOUS
<1> HIDE DEF S
<1>6. /\ targets' \subseteq DOMAIN files /\ foundFiles' \subseteq DOMAIN files /\ retired' \subseteq DOMAIN files
  BY <1>2 DEF SubInv, FileTypes
<1>7. FileTypes' /\ DOMAIN files \subseteq DOMAIN files' /\ DOMAIN created \subseteq DOMAIN created'
  BY <1>1, <1>2, <1>5, <1>6, ReplacedFileTypes DEF SubInv
<1>8. StepsRefer'
  BY <1>2, <1>7 DEF SubInv, StepsRefer
<1>9. RowsMove'
  BY <1>1, <1>2, <1>3, <1>4, <1>5, ReplacedRowsMove DEF SubInv
<1> QED BY <1>2, <1>7, <1>8, <1>9, NotYet DEF SubInv

\* It removes the rows that it has found,
LEMMA RemovalIsRedone ==
  ASSUME SubInv, RedoRemove
  PROVE  SubInv'
<1>1. phase = "redo" /\ at <= Len(sublog) /\ at' = at + 1 /\ UnchangedByRedo
  BY DEF RedoRemove, Redoing
<1>2. /\ ReplaceRows(foundFiles \ retired, foundKey, <<>>)
      /\ retired' = retired \cup foundFiles /\ UNCHANGED <<foundKey, foundFiles, phase>>
  BY DEF RedoRemove
<1>3. <<>> \in Seq(DataFiles) /\ \A j \in DOMAIN <<>> : \A r \in <<>>[j].rows : r.key = foundKey
  OBVIOUS
<1> QED BY <1>1, <1>2, <1>3, RedoReplaces

\* or puts the updated ones in their place.
LEMMA UpdateIsRedone ==
  ASSUME SubInv, RedoUpdate
  PROVE  SubInv'
<1> DEFINE i == sublog[at].index
           rows == KeyRows(foundFiles, foundKey)
           new == <<DataFile(Updated(rows, updateVals[i], updateOps[i]), NoUpdate)>>
<1>1. phase = "redo" /\ at <= Len(sublog) /\ at' = at + 1 /\ UnchangedByRedo
  BY DEF RedoUpdate, Redoing
<1>2. /\ ReplaceRows(foundFiles \ retired, foundKey, new)
      /\ retired' = retired \cup foundFiles /\ UNCHANGED <<foundKey, foundFiles, phase>>
      /\ i \in 1..Len(updateOps) /\ foundFiles # {}
  BY DEF RedoUpdate, ValidReference
<1>3. updateVals[i] \in Nat /\ updateOps[i] \in Nat
  <2>1. /\ updateVals \in Seq(Nat) /\ updateOps \in Seq(Nat) /\ Len(updateOps) <= Len(updateVals)
    BY DEF SubInv, LogTypes
  <2> HIDE DEF i
  <2>2. i \in 1..Len(updateVals)
    BY <1>2, <2>1
  <2> QED BY <1>2, <2>1, <2>2
<1>4. rows \in SUBSET TableRows /\ \A r \in rows : r.key = foundKey
  <2>1. files \in Seq(DataFiles) /\ foundFiles \in SUBSET DOMAIN files
    BY DEF SubInv, FileTypes
  <2> QED BY <2>1, KeyRowsIs
<1> HIDE DEF i, rows
<1>5. new \in Seq(DataFiles) /\ \A j \in DOMAIN new : \A r \in new[j].rows : r.key = foundKey
  <2>1. /\ new \in Seq(DataFiles)
        /\ \A r \in DataFile(Updated(rows, updateVals[i], updateOps[i]), NoUpdate).rows : r.key = foundKey
    <3>1. NoUpdate \in Nat
      BY DEF NoUpdate
    <3> QED BY <1>3, <1>4, <3>1, UpdatedIs
  <2> QED BY <2>1
<1> HIDE DEF new
<1> QED BY <1>1, <1>2, <1>5, RedoReplaces

\* A step by path: entries of files that are registered change.
LEMMA RedoByPath ==
  ASSUME SubInv, phase = "redo", at <= Len(sublog), at' = at + 1, UnchangedByRedo,
         UNCHANGED <<files, foundKey, foundFiles, retired, phase>>,
         live' \subseteq DOMAIN files,
         DOMAIN created' = DOMAIN created, created' \in [DOMAIN created -> {"valid", "invalid"}],
         DOMAIN deleted' = DOMAIN deleted, deleted' \in [DOMAIN deleted -> {"valid", "invalid"}],
         \A f \in Gone : deleted'[f] = "valid", \A f \in Lasting : created'[f] = "valid"
  PROVE  SubInv'
<1>1. foundKey' \in Keys /\ phase' \in {"redo", "write"}
  BY DEF SubInv, OpTypes
<1>2. /\ LogTypes' /\ OpTypes' /\ Operation' /\ phase' # "committed"
      /\ NamedKeys' = NamedKeys /\ (DeletesAtOnce' <=> DeletesAtOnce) /\ NotedFiles' = NotedFiles
      /\ UNCHANGED <<base, sublog, targets>>
  BY <1>1, RedoMovesOn
<1>3. FileTypes'
  BY <1>2 DEF SubInv, FileTypes
<1>4. StepsRefer'
  BY <1>2 DEF SubInv, StepsRefer
<1>5. Gone' = Gone /\ Lasting \subseteq Lasting'
  BY <1>2 DEF Gone, Lasting
<1>6. /\ \A r : Holds(Gone, r) => Holds(Gone, r)'
      /\ \A r : Holds(Lasting, r) => Holds(Lasting, r)'
  BY <1>5 DEF Holds
<1>7. RowsMove'
  <2>1. \A f \in Gone' : deleted'[f] = "valid"
    BY <1>5
  <2>2. \A f \in DOMAIN created' : \A r \in files'[f].rows : r.key \notin NamedKeys' => Holds(Gone, r)'
    BY <1>2, <1>6 DEF SubInv, RowsMove
  <2>3. DeletesAtOnce' =>
       \A f \in Gone' : \A r \in files'[f].rows : r.key \notin NamedKeys' => Holds(Lasting, r)'
    BY <1>2, <1>5, <1>6 DEF SubInv, RowsMove
  <2>4. base' \cap DOMAIN created' = {}
    BY <1>2 DEF SubInv, RowsMove
  <2> QED BY <2>1, <2>2, <2>3, <2>4 DEF RowsMove
<1> QED BY <1>2, <1>3, <1>4, <1>7, NotYet DEF SubInv

\* It adds a file of this transaction, and deletes one by its path.
LEMMA PathIsAdded ==
  ASSUME SubInv, RedoAddPath
  PROVE  SubInv'
<1> DEFINE f == sublog[at].file
<1>1. /\ phase = "redo" /\ at <= Len(sublog) /\ at' = at + 1 /\ UnchangedByRedo
      /\ at \in DOMAIN sublog /\ sublog[at] \in SubSteps /\ sublog[at].command = "a"
  BY RedoneStep DEF RedoAddPath
<1>2. /\ live' = live \cup {f}
      /\ created' = IF EntryOf(created, f) = "none" THEN created ELSE [created EXCEPT ![f] = "valid"]
      /\ deleted' = Invalidated(deleted, {f})
      /\ UNCHANGED <<files, foundKey, foundFiles, retired, phase>>
  BY DEF RedoAddPath
<1>3. f \in DOMAIN created
  BY <1>1 DEF SubInv, StepsRefer
<1> HIDE DEF f
<1>4. /\ created \in [DOMAIN created -> {"valid", "invalid"}]
      /\ deleted \in [DOMAIN deleted -> {"valid", "invalid"}]
      /\ live \subseteq DOMAIN files /\ DOMAIN created \subseteq DOMAIN files
  BY DEF SubInv, FileTypes
<1>5. created' = [created EXCEPT ![f] = "valid"]
  <2>1. created[f] \in {"valid", "invalid"}
    BY <1>3, <1>4
  <2> QED BY <1>2, <1>3, <2>1 DEF EntryOf
<1>6. DOMAIN created' = DOMAIN created /\ created' \in [DOMAIN created -> {"valid", "invalid"}]
  BY <1>3, <1>4, <1>5
<1>7. /\ DOMAIN deleted' = DOMAIN deleted /\ deleted' \in [DOMAIN deleted -> {"valid", "invalid"}]
      /\ \A g \in DOMAIN deleted : g # f => deleted'[g] = deleted[g]
  BY <1>2, <1>4 DEF Invalidated
<1>8. live' \subseteq DOMAIN files
  BY <1>2, <1>3, <1>4
<1>9. \A g \in Gone : deleted'[g] = "valid"
  BY <1>3, <1>7 DEF Gone, SubInv, RowsMove
<1>10. \A g \in Lasting : created'[g] = "valid"
  BY <1>3, <1>4, <1>5 DEF Lasting
<1> QED BY <1>1, <1>2, <1>6, <1>7, <1>8, <1>9, <1>10, RedoByPath

LEMMA PathIsDeleted ==
  ASSUME SubInv, RedoDeletePath
  PROVE  SubInv'
<1> DEFINE f == sublog[at].file
<1>1. /\ phase = "redo" /\ at <= Len(sublog) /\ at' = at + 1 /\ UnchangedByRedo
      /\ at \in DOMAIN sublog /\ sublog[at] \in SubSteps /\ sublog[at].command = "d"
  BY RedoneStep DEF RedoDeletePath
<1>2. /\ live' = live \ {f}
      /\ created' = Invalidated(created, {f})
      /\ deleted' = IF EntryOf(deleted, f) = "none" THEN deleted ELSE [deleted EXCEPT ![f] = "valid"]
      /\ UNCHANGED <<files, foundKey, foundFiles, retired, phase>>
  BY DEF RedoDeletePath
<1>3. f \in NotedFiles
  BY <1>1 DEF NotedFiles
<1> HIDE DEF f
<1>4. /\ created \in [DOMAIN created -> {"valid", "invalid"}]
      /\ deleted \in [DOMAIN deleted -> {"valid", "invalid"}]
      /\ live \subseteq DOMAIN files
  BY DEF SubInv, FileTypes
<1>5. /\ DOMAIN created' = DOMAIN created /\ created' \in [DOMAIN created -> {"valid", "invalid"}]
      /\ \A g \in DOMAIN created : g # f => created'[g] = created[g]
  BY <1>2, <1>4 DEF Invalidated
<1>6. /\ DOMAIN deleted' = DOMAIN deleted /\ deleted' \in [DOMAIN deleted -> {"valid", "invalid"}]
      /\ \A g \in DOMAIN deleted : deleted[g] = "valid" => deleted'[g] = "valid"
  BY <1>2, <1>4
<1>7. live' \subseteq DOMAIN files
  BY <1>2, <1>4
<1>8. \A g \in Gone : deleted'[g] = "valid"
  BY <1>6 DEF Gone, SubInv, RowsMove
<1>9. \A g \in Lasting : created'[g] = "valid"
  BY <1>3, <1>5 DEF Lasting
<1> QED BY <1>1, <1>2, <1>5, <1>6, <1>7, <1>8, <1>9, RedoByPath

\* The commit leaves every row that no operation names where it was.
LEMMA FilesAreCommitted ==
  ASSUME SubInv, CommitFiles
  PROVE  SubInv'
<1> DEFINE Dv == {f \in DOMAIN deleted : deleted[f] = "valid"}
           Cv == {f \in DOMAIN created : created[f] = "valid"}
<1>0. /\ phase = "write" /\ phase' = "committed" /\ base' = (base \ Dv) \cup Cv
      /\ UNCHANGED <<files, live, created, deleted, explicitLog, logVars, opVars, redoVars, historyVars>>
  BY DEF CommitFiles
<1>1. op = NoOp
  BY <1>0 DEF SubInv, Operation
<1>2. NamedKeys' = NamedKeys /\ (DeletesAtOnce' <=> DeletesAtOnce) /\ NotedFiles' = NotedFiles
  BY <1>0, SameOperations DEF historyVars, NotedFiles, logVars
<1>3. /\ files \in Seq(DataFiles) /\ base \subseteq DOMAIN files
      /\ DOMAIN created \subseteq DOMAIN files /\ DOMAIN deleted \subseteq DOMAIN files
      /\ created \in [DOMAIN created -> {"valid", "invalid"}]
  BY DEF SubInv, FileTypes
<1>4. FileTypes' /\ FilesGrow
  <2>1. base' \subseteq DOMAIN files
    BY <1>0, <1>3
  <2> QED BY <1>0, <2>1 DEF SubInv, FileTypes, FilesGrow, opVars, redoVars
<1>5. LogTypes'
  BY <1>0 DEF SubInv, LogTypes, logVars, redoVars, historyVars
<1>6. OpTypes' /\ Operation'
  BY <1>0, <1>1 DEF SubInv, OpTypes, Operation, opVars, redoVars
<1>7. StepsRefer'
  BY <1>0, <1>2 DEF SubInv, StepsRefer, logVars, redoVars
<1>8. RowsMove'
  BY <1>0, <1>2, <1>4, SameRowsMove DEF SubInv
<1>9. ASSUME DeletesAtOnce, NEW k \in Keys, k \notin NamedKeys
      PROVE  KeyRows(base, k)' = NewestRows(k)'
  <2>1. NewestRows(k)' = KeyRows((base' \ DOMAIN created) \cup Gone, k)
    <3> DEFINE O == {f \in DOMAIN created : created[f] # "none"}
               V == {f \in DOMAIN deleted : deleted[f] = "valid"}
    <3>1. O = DOMAIN created
      BY <1>3
    <3>2. V \ DOMAIN created = Gone
      BY DEF SubInv, RowsMove, Gone
    <3>3. NewestRows(k)' = KeyRows((base' \ O) \cup (V \ O), k)
      BY <1>0 DEF NewestRows, KeyRows
    <3> HIDE DEF O, V
    <3> QED BY <3>1, <3>2, <3>3
  <2>2. base' \ DOMAIN created = base \ Dv
    <3>1. base \cap DOMAIN created = {}
      BY <1>0 DEF SubInv, RowsMove
    <3> QED BY <1>0, <3>1
  <2>3. Gone \subseteq DOMAIN files /\ Lasting \subseteq Cv
    BY <1>3 DEF Gone, Lasting
  <2>5. /\ KeyRows(base, k)' = KeyRows((base \ Dv) \cup Cv, k)
        /\ NewestRows(k)' = KeyRows((base \ Dv) \cup Gone, k)
    <3>1. KeyRows(base, k)' = KeyRows(base', k)
      BY <1>0 DEF KeyRows
    <3> HIDE DEF Dv, Cv
    <3> QED BY <1>0, <2>1, <2>2, <3>1
  <2>6. \A S \in SUBSET DOMAIN files : \A r : r \in KeyRows(S, k) <=> r.key = k /\ Holds(S, r)
    BY <1>3, KeyRowsIs
  <2>7. ASSUME NEW r, r.key = k
        PROVE  Holds((base \ Dv) \cup Cv, r) <=> Holds((base \ Dv) \cup Gone, r)
    <3>1. ASSUME NEW f \in Cv, r \in files[f].rows PROVE Holds(Gone, r)
      BY <1>9, <2>7, <3>1 DEF SubInv, RowsMove
    <3>2. ASSUME NEW f \in Gone, r \in files[f].rows PROVE Holds(Cv, r)
      <4>1. Holds(Lasting, r)
        BY <1>9, <2>7, <3>2 DEF SubInv, RowsMove
      <4> QED BY <2>3, <4>1 DEF Holds
    <3> HIDE DEF Dv, Cv
    <3> QED BY <3>1, <3>2 DEF Holds
  <2>8. (base \ Dv) \cup Cv \in SUBSET DOMAIN files /\ (base \ Dv) \cup Gone \in SUBSET DOMAIN files
    BY <1>3, <2>3
  <2> HIDE DEF Dv, Cv
  <2>9. \A r : r \in KeyRows((base \ Dv) \cup Cv, k) <=> r \in KeyRows((base \ Dv) \cup Gone, k)
    BY <2>6, <2>7, <2>8
  <2> QED BY <2>5, <2>9
<1>10. OtherRowsStay'
  <2>1. (\A i \in DOMAIN performed' : performed'[i].kind = "delete" => i \in executed') => DeletesAtOnce
    BY <1>2 DEF DeletesAtOnce
  <2>2. \A k : (\A i \in DOMAIN performed' : performed'[i].key # k) => k \notin NamedKeys
    BY <1>2 DEF NamedKeys
  <2>3. DeletesAtOnce => OtherRowsAreKept'
    BY <1>9, <2>2 DEF OtherRowsAreKept
  <2> QED BY <2>1, <2>3 DEF OtherRowsStay
<1> QED BY <1>4, <1>5, <1>6, <1>7, <1>8, <1>10 DEF SubInv

\* The invariant holds at the start.
LEMMA SubStarts == SubInit => SubInv
<1> SUFFICES ASSUME SubInit PROVE SubInv
  OBVIOUS
<1>1. PICK layout \in Layouts :
        /\ files = [i \in DOMAIN layout |-> DataFile({Row(k, <<>>) : k \in layout[i]}, NoUpdate)]
        /\ base = DOMAIN layout
  BY DEF SubInit
<1>2. layout \in Seq(SUBSET Keys)
  BY SubLogAssumption
<1>3. \A i \in DOMAIN layout : DataFile({Row(k, <<>>) : k \in layout[i]}, NoUpdate) \in DataFiles
  <2> TAKE i \in DOMAIN layout
  <2>1. layout[i] \in SUBSET Keys
    BY <1>2
  <2>2. \A k \in Keys : Row(k, <<>>) \in TableRows
    BY DEF Row, TableRows
  <2>3. {Row(k, <<>>) : k \in layout[i]} \in SUBSET TableRows
    BY <2>1, <2>2
  <2> QED BY <2>3 DEF DataFile, DataFiles, NoUpdate
<1>4. files \in Seq(DataFiles) /\ DOMAIN files = DOMAIN layout
  <2>1. DOMAIN layout = 1..Len(layout) /\ Len(layout) \in Nat
    BY <1>2
  <2>2. files = [i \in 1..Len(layout) |-> files[i]] /\ \A i \in 1..Len(layout) : files[i] \in DataFiles
    BY <1>1, <1>3, <2>1
  <2> QED BY <1>1, <2>1, <2>2
<1>5. DOMAIN <<>> = {}
  OBVIOUS
<1>6. FileTypes
  <2>1. /\ created = <<>> /\ deleted = <<>> /\ live = base
        /\ targets = {} /\ foundFiles = {} /\ retired = {}
    BY DEF SubInit
  <2>2. <<>> \in [{} -> {"valid", "invalid"}]
    OBVIOUS
  <2>3. /\ DOMAIN created = {} /\ DOMAIN deleted = {}
        /\ created \in [DOMAIN created -> {"valid", "invalid"}]
        /\ deleted \in [DOMAIN deleted -> {"valid", "invalid"}]
    BY <1>5, <2>1, <2>2
  <2> QED BY <1>1, <1>4, <2>1, <2>3 DEF FileTypes
<1>7. LogTypes
  <2>1. <<>> \in Seq(Performed) /\ <<>> \in Seq(Nat) /\ <<>> \in Seq(SubSteps) /\ Len(<<>>) = 0
    OBVIOUS
  <2>2. MaxOps \in Nat
    BY SubLogAssumption
  <2> QED BY <2>1, <2>2 DEF SubInit, LogTypes
<1>8. OpTypes
  <2>1. NoOp \in OpRecords /\ NoOp.key \in Keys
    <3>1. Keys # {}
      BY SubLogAssumption
    <3> QED BY <3>1 DEF NoOp, OpRecords
  <2>2. [remover |-> <<>>, adder |-> <<>>] \in [remover : Remaining, adder : Remaining]
    BY DEF Remaining
  <2> QED BY <2>1, <2>2 DEF SubInit, OpTypes
<1>9. Operation
  BY DEF SubInit, Operation, ToLog
<1>10. StepsRefer
  BY <1>5 DEF SubInit, StepsRefer
<1>11. RowsMove
  BY <1>5 DEF SubInit, RowsMove, Gone
<1>12. OtherRowsStay
  BY DEF SubInit, OtherRowsStay, OtherRowsAreKept, Committed
<1> QED BY <1>6, <1>7, <1>8, <1>9, <1>10, <1>11, <1>12 DEF SubInv

\* A step that changes nothing
LEMMA SubStutters ==
  ASSUME SubInv, UNCHANGED subVars
  PROVE  SubInv'
<1>0. /\ UNCHANGED <<files, base, live, created, deleted, explicitLog, updateVals, updateOps, sublog>>
      /\ UNCHANGED <<op, todo, targets, at, foundKey, foundFiles, retired, phase, performed, executed>>
  BY DEF subVars, fileVars, logVars, opVars, redoVars, historyVars
<1>1. FileTypes' /\ LogTypes' /\ OpTypes'
  BY <1>0 DEF SubInv, FileTypes, LogTypes, OpTypes
<1>2. NamedKeys' = NamedKeys /\ (DeletesAtOnce' <=> DeletesAtOnce) /\ NotedFiles' = NotedFiles
  BY <1>0, SameOperations DEF NotedFiles
<1>3. Operation' /\ StepsRefer'
  BY <1>0, <1>2 DEF SubInv, Operation, StepsRefer
<1>4. RowsMove'
  <2>1. FilesGrow
    BY <1>0 DEF SubInv, FileTypes, FilesGrow
  <2>2. base' \cap DOMAIN created = {} \/ phase' = "committed"
    BY <1>0 DEF SubInv, RowsMove
  <2> QED BY <1>0, <1>2, <2>1, <2>2, SameRowsMove DEF SubInv
<1>5. OtherRowsStay'
  BY <1>0 DEF SubInv, OtherRowsStay, OtherRowsAreKept, Committed, KeyRows, NewestRows
<1> QED BY <1>1, <1>3, <1>4, <1>5 DEF SubInv

\* SubInv holds at the beginning and in every step.
LEMMA SubInductive == SubSpec => []SubInv
<1>1. ASSUME SubInv, [SubNext]_subVars PROVE SubInv'
  <2>1. CASE UNCHANGED subVars
    BY <1>1, <2>1, SubStutters
  <2>2. CASE ClientStep
    <3>1. ASSUME NEW k \in Keys, NEW kind \in {"update", "updateInThreads"}, BeginUpdate(kind, k) PROVE SubInv'
      BY <1>1, <3>1, UpdateBegins
    <3>2. ASSUME NEW k \in Keys, BeginDelete(k) PROVE SubInv'
      BY <1>1, <3>2, DeleteBegins
    <3>3. ASSUME NEW k \in Keys, Insert(k) PROVE SubInv'
      BY <1>1, <3>3, RowIsInserted
    <3>4. ASSUME NEW thread \in Threads, FindRows(thread) PROVE SubInv'
      BY <1>1, <3>4, RowsAreFound
    <3>5. ASSUME NEW thread \in Threads, RemoveRows(thread) PROVE SubInv'
      BY <1>1, <3>5, RowsAreRemoved
    <3>6. ASSUME NEW thread \in Threads, LogSearch(thread) PROVE SubInv'
      BY <1>1, <3>6, SearchIsLogged
    <3>7. ASSUME NEW thread \in Threads, LogRemove(thread) PROVE SubInv'
      BY <1>1, <3>7, RemovalIsLogged
    <3>8. ASSUME NEW thread \in Threads, AddRows(thread) PROVE SubInv'
      BY <1>1, <3>8, RowsAreAdded
    <3>9. CASE EndOperation
      BY <1>1, <3>9, OperationEnds
    <3>10. CASE SeeMarker
      BY <1>1, <3>10, MarkerIsSeen
    <3> QED BY <2>2, <3>1, <3>2, <3>3, <3>4, <3>5, <3>6, <3>7, <3>8, <3>9, <3>10 DEF ClientStep, Threads
  <2>3. CASE CommitStep
    <3>1. CASE BeginCommit
      BY <1>1, <3>1, CommitBegins
    <3>2. ASSUME NEW k \in Keys, OtherCommits(k) PROVE SubInv'
      BY <1>1, <3>2, OthersCommit
    <3>3. CASE BeginRedo
      BY <1>1, <3>3, RedoBegins
    <3>4. CASE RedoNothing
      BY <1>1, <3>4, NothingIsRedone
    <3>5. CASE RedoSearch
      BY <1>1, <3>5, SearchIsRedone
    <3>6. CASE RedoRemove
      BY <1>1, <3>6, RemovalIsRedone
    <3>7. CASE RedoUpdate
      BY <1>1, <3>7, UpdateIsRedone
    <3>8. CASE RedoFails
      BY <1>1, <3>8, RedoEndsEarly
    <3>9. CASE RedoAddPath
      BY <1>1, <3>9, PathIsAdded
    <3>10. CASE RedoDeletePath
      BY <1>1, <3>10, PathIsDeleted
    <3>11. CASE EndRedo
      BY <1>1, <3>11, RedoEnds
    <3>12. CASE CommitFiles
      BY <1>1, <3>12, FilesAreCommitted
    <3> QED BY <2>3, <3>1, <3>2, <3>3, <3>4, <3>5, <3>6, <3>7, <3>8, <3>9, <3>10, <3>11, <3>12 DEF CommitStep
  <2> QED BY <1>1, <2>1, <2>2, <2>3 DEF SubNext
<1> QED BY <1>1, SubStarts, PTL DEF SubSpec

\* remove_file, remove_key_rows and redo(): a transaction whose deletes are
\* executed at once commits every row of a key that it does not name as the
\* newest version has it, on whatever version the redo ends, in whatever order
\* its threads run, and whatever objects of the log are missing.
THEOREM OtherRowsAreSafe == SubSpec => []OtherRowsStay
<1>1. SubInv => OtherRowsStay
  BY DEF SubInv
<1> QED BY <1>1, SubInductive, PTL

\* The types that the runs check
LEMMA SubLogIsTyped == SubSpec => []SubTypeOK
<1>1. SubInv => SubTypeOK
  BY DEF SubInv, FileTypes, LogTypes, OpTypes, SubTypeOK
<1> QED BY <1>1, SubInductive, PTL
=============================================================================
