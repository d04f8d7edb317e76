-------------------------- MODULE VersionLogProofs --------------------------
(***************************************************************************)
(* What every implementation of the abstract log inherits: the versions of *)
(* a table are dense, and each is decided once.                            *)
(***************************************************************************)
EXTENDS VersionLog, TLAPS

LEMMA InitDense ==
  ASSUME MaxVersion \in Nat, Creator \in Writers, Init
  PROVE  TypeOK /\ Dense
<1>1. TypeOK
  BY DEF Init, TypeOK, Entries, Committed, Free
<1>2. \A x \in Tables, w \in Versions : w # 0 => entry[x][w] = Free
  BY DEF Init
<1>3. \A v, w \in Versions : v < w => w # 0
  BY DEF Versions
<1> QED BY <1>1, <1>2, <1>3 DEF Dense

LEMMA NextDense ==
  ASSUME Creator \in Writers, TypeOK, Dense, [Next]_entry
  PROVE  TypeOK' /\ Dense'
<1>1. \A t \in Writers : /\ Reserved(t) \in Entries /\ Reserved(t) # Free
                         /\ Committed(t) \in Entries /\ Committed(t) # Free
                         /\ Void \in Entries /\ Void # Free /\ Void # Reserved(t)
  BY DEF Entries, Reserved, Committed, Void, Free
<1>2. ASSUME NEW x \in Tables, NEW v \in Versions, NEW e \in Entries, e # Free,
             entry' = [entry EXCEPT ![x][v] = e],
             entry[x][v] # Free \/ \A w \in Versions : w < v => entry[x][w] # Free
      PROVE  TypeOK' /\ Dense'
  <2>1. TypeOK'
    BY <1>2 DEF TypeOK
  <2>2. \A y \in Tables, w \in Versions :
          entry'[y][w] = IF y = x /\ w = v THEN e ELSE entry[y][w]
    BY <1>2 DEF TypeOK
  <2>3. Dense'
    BY <1>2, <2>2 DEF Dense
  <2> QED BY <2>1, <2>3
<1>3. CASE UNCHANGED entry
  BY <1>3 DEF TypeOK, Dense
<1>4. ASSUME NEW x \in Tables, NEW v \in Versions, NEW t \in Writers, Reserve(x, v, t)
      PROVE  TypeOK' /\ Dense'
  BY <1>1, <1>2, <1>4 DEF Reserve, IsNext
<1>5. ASSUME NEW x \in Tables, NEW v \in Versions, NEW t \in Writers, CommitReserved(x, v, t)
      PROVE  TypeOK' /\ Dense'
  BY <1>1, <1>2, <1>5 DEF CommitReserved
<1>6. ASSUME NEW x \in Tables, NEW v \in Versions, NEW t \in Writers, GiveUp(x, v, t)
      PROVE  TypeOK' /\ Dense'
  BY <1>1, <1>2, <1>6 DEF GiveUp
<1> QED BY <1>3, <1>4, <1>5, <1>6 DEF Next

\* reserve_version leaves no gap: whoever lists the log knows from its highest
\* version that all versions below it exist.
THEOREM LogIsDense ==
  ASSUME MaxVersion \in Nat, Creator \in Writers
  PROVE  Spec => [](TypeOK /\ Dense)
<1>1. Init => TypeOK /\ Dense
  BY InitDense
<1>2. TypeOK /\ Dense /\ [Next]_entry => (TypeOK /\ Dense)'
  BY NextDense
<1> QED BY <1>1, <1>2, PTL DEF Spec

\* A commit or an empty commit stays what it is, and a marker is followed by
\* the commit of its owner or by the empty commit: what a waiter has seen of a
\* version below its own never has to be read again.
THEOREM LogIsDecidedOnce ==
  ASSUME MaxVersion \in Nat, Creator \in Writers
  PROVE  Spec => DecidedOnce
<1> DEFINE Once == \A x \in Tables, v \in Versions :
                     /\ Decided(entry[x][v]) => entry'[x][v] = entry[x][v]
                     /\ entry[x][v].kind = "marker" =>
                          \/ entry'[x][v] = Void
                          \/ entry'[x][v].by = entry[x][v].by
<1>1. ASSUME TypeOK, NEW x \in Tables, NEW v \in Versions, NEW e \in Entries,
             entry' = [entry EXCEPT ![x][v] = e],
             ~Decided(entry[x][v]),
             entry[x][v].kind = "marker" => e = Void \/ e.by = entry[x][v].by
      PROVE  Once
  BY <1>1 DEF TypeOK
<1>2. \A t \in Writers :
        /\ Reserved(t) \in Entries /\ Committed(t) \in Entries /\ Void \in Entries
        /\ ~Decided(Free) /\ ~Decided(Reserved(t)) /\ Free.kind # "marker"
        /\ Reserved(t).by = t /\ Committed(t).by = t
  BY DEF Entries, Reserved, Committed, Void, Free, Decided
<1> HIDE DEF Once
<1>3. ASSUME TypeOK, NEW x \in Tables, NEW v \in Versions, NEW t \in Writers,
             Reserve(x, v, t) \/ CommitReserved(x, v, t) \/ GiveUp(x, v, t)
      PROVE  Once
  BY <1>1, <1>2, <1>3 DEF Reserve, IsNext, CommitReserved, GiveUp
<1>4. TypeOK /\ [Next]_entry => [Once]_entry
  BY <1>3 DEF Next
<1> USE DEF Once
<1>5. Spec => [](TypeOK /\ Dense)
  BY LogIsDense
<1> QED BY <1>4, <1>5, PTL DEF Spec, DecidedOnce
=============================================================================
