--------------------------- MODULE TableLifecycle ---------------------------
(***************************************************************************)
(* create_table and drop_table at one location of the object store, and    *)
(* the table's entry in the global log: clients that create and drop, that *)
(* crash between two requests, whose responses get lost and whose deletes  *)
(* and HEADs fail.  Transactions on the table are stopped while it is      *)
(* dropped, as the documentation of drop_table asks for.                   *)
(*                                                                         *)
(* Objects of the location: _last_checkpoint, a checkpoint of version 1,   *)
(* versions 0, 1 and 2, a data file of version 1, something else.          *)
(***************************************************************************)
EXTENDS Integers, FiniteSets

CONSTANTS
  Creators, Droppers,
  Nobody,
  Locations,       \* the objects the location may hold in the beginning
  DeleteFaults,    \* deletes may fail, all attempts of them
  TlCrashes,       \* bound on the clients that crash
  CreateRetries    \* storage_retries of the write of version 0

ASSUME LifecycleAssumption ==
  /\ Creators \cap Droppers = {} /\ Nobody \notin Creators \cup Droppers
  /\ TlCrashes \in Nat /\ CreateRetries \in Nat \ {0}

VARIABLES
  objects,  \* the objects at the location
  owner,    \* who created the table of version 0; Nobody: an earlier client
  entry,    \* whether the global log has an entry of the location, and whose table it is
  tl,       \* tl[c]: the client
  dropped,  \* history: whose version 0 was deleted
  raced,    \* history: a version 0 was deleted while somebody was creating one
  overlooked  \* history: since the entry was written somebody was told there is no global log

tlVars == <<objects, owner, entry, tl, dropped, raced, overlooked>>

TlClients == Creators \cup Droppers
ObjectNames == {"last", "ckpt1", "v0", "v1", "v2", "data", "other"}
LogKeys == ObjectNames \ {"data", "other"}

\* What is at a location is a table with its data, or not readable; data files
\* are those of a version that is still listed.
ASSUME LocationsAssumption ==
  \A L \in Locations :
    /\ L \subseteq ObjectNames
    /\ "data" \in L => L \cap {"v1", "v2"} # {}
    /\ "data" \notin L => "ckpt1" \notin L /\ ~({"v0", "v1"} \subseteq L)

Results == {"Running", "Ok", "AlreadyExists", "NotEmpty", "NotFound", "Error", "Crashed"}
TlStates == [at : {"list", "entry", "create", "delete", "end"}, keys : SUBSET ObjectNames,
             failed : BOOLEAN, uncertain : BOOLEAN, tries : 0..(CreateRetries - 1),
             result : Results]
NewClient == [at |-> "list", keys |-> {}, failed |-> FALSE, uncertain |-> FALSE,
              tries |-> 0, result |-> "Running"]

NoEntryLeft == [present |-> FALSE, of |-> Nobody]

TlBecome(c, r) == tl' = [tl EXCEPT ![c] = r]
TlEnd(c, result) == TlBecome(c, [NewClient EXCEPT !.at = "end", !.result = result])
Under(c) == tl[c].at # "end"
\* A creator listed the location before and is going to write.
CreationPending == \E c \in Creators : tl[c].at \in {"entry", "create"}

-----------------------------------------------------------------------------
\* create_table: the location must be empty.
ListForCreate(c) ==
  /\ tl[c].at = "list" /\ c \in Creators
  /\ IF objects = {} THEN TlBecome(c, [tl[c] EXCEPT !.at = "entry"])
     ELSE TlEnd(c, IF objects \cap LogKeys # {} THEN "AlreadyExists" ELSE "NotEmpty")
  /\ UNCHANGED <<objects, owner, entry, dropped, raced, overlooked>>

\* drop_table: the location must hold a log.
ListForDrop(c) ==
  /\ tl[c].at = "list" /\ c \in Droppers
  /\ IF objects \cap LogKeys # {}
     THEN TlBecome(c, [tl[c] EXCEPT !.at = "entry", !.keys = objects])
     ELSE TlEnd(c, IF objects = {} THEN "NotFound" ELSE "NotEmpty")
  /\ UNCHANGED <<objects, owner, entry, dropped, raced, overlooked>>

\* Mutant: the entry of the earlier table stays.
KeepEntry(e) == e
\* update_global_entry: the entry is taken out of the global log.
WithoutEntry(e) == NoEntryLeft

\* Under the lock of the global log.  Without lock, read or write the client
\* gives up; a HEAD of the global log that fails looks like one that does not
\* exist, and the client goes on without a look at the entry.
UpdateEntry(c) ==
  LET goOn == [tl[c] EXCEPT !.at = IF c \in Creators THEN "create" ELSE "delete"] IN
  /\ tl[c].at = "entry"
  /\ \/ TlBecome(c, goOn) /\ entry' = WithoutEntry(entry) /\ overlooked' = FALSE
     \/ TlBecome(c, goOn) /\ UNCHANGED entry /\ overlooked' = entry.present
     \/ TlEnd(c, "Error") /\ UNCHANGED <<entry, overlooked>>
  /\ UNCHANGED <<objects, owner, dropped, raced>>

\* Mutant: whoever finds version 0 takes it for its own.
AnyoneFindsItsOwn(c) == TRUE
\* Version 0 is what this client wrote.
FindsItsOwn(c) == tl[c].uncertain /\ owner = c

\* Mutant: the write is tried again for ever.
NeverGivesUp(c) == FALSE
\* The storage retries are used up.
GivesUp(c) == tl[c].tries + 1 = CreateRetries

\* write_atomic of version 0: an error leaves it open whether it was written,
\* which the next attempt finds out.
WriteVersion0(c) ==
  /\ tl[c].at = "create"
  /\ \E answered, arrives \in BOOLEAN :
       /\ answered => arrives
       /\ IF arrives /\ "v0" \notin objects
          THEN objects' = objects \cup {"v0"} /\ owner' = c
          ELSE UNCHANGED <<objects, owner>>
       /\ IF answered
          THEN TlEnd(c, IF "v0" \notin objects \/ FindsItsOwn(c) THEN "Ok"
                        ELSE "AlreadyExists")
          ELSE IF GivesUp(c) THEN TlEnd(c, "Error")
          ELSE TlBecome(c, [tl[c] EXCEPT !.uncertain = TRUE, !.tries = @ + 1])
  /\ UNCHANGED <<entry, dropped, raced, overlooked>>

\* Mutants: the log goes first, or the data.
LogFirst(k) == IF k \in LogKeys THEN 0 ELSE 1
DataFirst(k) == IF k \in LogKeys THEN 1 ELSE 0
\* What a reader needs goes first, the rest of the log last.
Rank(k) == CASE k = "last" -> 0
             [] k = "ckpt1" -> 1
             [] k = "v0" -> 2
             [] k \in {"data", "other"} -> 3
             [] OTHER -> 4

\* The next object in the order of the ranks; an object that cannot be deleted
\* is counted and stays.
DeleteNext(c) ==
  \E k \in tl[c].keys : \E ok \in {TRUE, ~DeleteFaults} :
    /\ tl[c].at = "delete"
    /\ \A other \in tl[c].keys : Rank(k) <= Rank(other)
    /\ TlBecome(c, [tl[c] EXCEPT !.keys = @ \ {k},
                                !.failed = IF ok THEN @ ELSE TRUE])
    /\ objects' = IF ok THEN objects \ {k} ELSE objects
    /\ dropped' = IF ok /\ k = "v0" /\ "v0" \in objects THEN dropped \cup {owner} ELSE dropped
    /\ raced' = (raced \/ (ok /\ k = "v0" /\ CreationPending))
    /\ UNCHANGED <<owner, entry, overlooked>>

DropEnds(c) ==
  /\ tl[c].at = "delete" /\ tl[c].keys = {}
  /\ TlEnd(c, IF tl[c].failed THEN "Error" ELSE "Ok")
  /\ UNCHANGED <<objects, owner, entry, dropped, raced, overlooked>>

TlCrash(c) ==
  /\ Under(c)
  /\ Cardinality({d \in TlClients : tl[d].result = "Crashed"}) < TlCrashes
  /\ TlEnd(c, "Crashed")
  /\ UNCHANGED <<objects, owner, entry, dropped, raced, overlooked>>

\* A transaction adds a data file to the table; not while somebody drops it.  At
\* LV[Read] it publishes the version, unless the global log already lists such a
\* version of another table; below that the global log stays as it is.
CommitToTable ==
  /\ "v0" \in objects /\ "v1" \notin objects /\ "data" \notin objects
  /\ \A c \in Droppers : tl[c].at \in {"list", "end"}
  /\ objects' = objects \cup {"v1", "data"}
  /\ \/ /\ entry.present => entry.of = owner
        /\ entry' = [present |-> TRUE, of |-> owner] /\ overlooked' = FALSE
     \/ UNCHANGED <<entry, overlooked>>
  /\ UNCHANGED <<owner, tl, dropped, raced>>

\* A client starts over: an interrupted or failed drop is run again.
Again(c) ==
  /\ c \in Droppers /\ tl[c].result \in {"Crashed", "Error"}
  /\ TlBecome(c, [NewClient EXCEPT !.at = "list"])
  /\ UNCHANGED <<objects, owner, entry, dropped, raced, overlooked>>

TlInit ==
  /\ objects \in Locations
  /\ owner = Nobody
  /\ entry \in {NoEntryLeft, [present |-> TRUE, of |-> Nobody]}
  /\ tl = [c \in TlClients |-> NewClient]
  /\ dropped = {}
  /\ raced = FALSE /\ overlooked = FALSE

TlNext ==
  \/ CommitToTable
  \/ \E c \in TlClients :
       \/ ListForCreate(c) \/ ListForDrop(c) \/ UpdateEntry(c) \/ WriteVersion0(c)
       \/ DeleteNext(c) \/ DropEnds(c) \/ TlCrash(c) \/ Again(c)

TlSpec == TlInit /\ [][TlNext]_tlVars

-----------------------------------------------------------------------------
(* Properties *)

\* The types of the variables.
TlTypeOK ==
  /\ objects \subseteq ObjectNames
  /\ owner \in Creators \cup {Nobody}
  /\ entry \in [present : BOOLEAN, of : Creators \cup {Nobody}]
  /\ tl \in [TlClients -> TlStates]
  /\ dropped \subseteq Creators \cup {Nobody}
  /\ raced \in BOOLEAN /\ overlooked \in BOOLEAN

\* What a load needs: a checkpoint, or the versions from 0 on without a gap
Readable == \/ "ckpt1" \in objects
            \/ "v0" \in objects /\ ("v2" \in objects => "v1" \in objects)
HasData == "data" \in objects \/ {"v1", "ckpt1"} \cap objects = {}
\* Wherever a drop is interrupted, and however many run, a table that can still
\* be read has all its data: drop_table removes what a reader needs first.
\* (Not so when the table is created again by somebody who saw the location
\* empty before the table that is dropped.)
NoTableWithoutItsData == Readable /\ ~raced => HasData

\* What a drop left can be recognized as a table, so that drop_table can
\* complete it ("an interrupted drop stays recognizable as a table").
DropCanBeCompleted ==
  "data" \in objects => objects \cap LogKeys # {}

\* Of concurrent creations one wins, also when its response is lost: who was
\* told Ok has created the table, and it is there until somebody drops it.
CreatedTableIsTheirs ==
  \A c \in Creators : tl[c].result = "Ok" =>
    c \in dropped \/ ("v0" \in objects /\ owner = c)

\* The global log has no entry of an earlier table at the location: it would
\* hide the versions of the new one from LV[Read] clients ("a global-log entry of
\* an earlier table at this path would hide the new table's versions").  A drop
\* or a creation that another client interrupts, repeats or overtakes does not
\* leave one; only one that was told, by a HEAD that failed, that there is no
\* global log does, until another one removes the entry.
EntryIsOfThisTable ==
  entry.present /\ "v0" \in objects => entry.of = owner \/ overlooked
=============================================================================
