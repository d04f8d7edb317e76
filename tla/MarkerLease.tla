---------------------------- MODULE MarkerLease ----------------------------
(***************************************************************************)
(* The lease of one marker, in time: the deadline that reserve_version     *)
(* writes into it, the holder's test before it commits (lease_expiring),   *)
(* and the waiters' test before they take it over (wait_for_marker), each  *)
(* by its own client's estimate of the store's time.  An estimate is any   *)
(* one that holds the true time: StoreClock says when it does.             *)
(* MarkerCommit abstracts all this to LeaseEnds.                           *)
(***************************************************************************)
EXTENDS Integers

CONSTANTS
  LeaseClients,
  NoClient,
  Lease,           \* marker_lease_ms
  Grace,           \* marker_grace_ms
  MarginCap,       \* the most a holder stops before its deadline (500 ms)
  MaxUncertainty,  \* bound on the uncertainty of an estimate
  LeaseMaxTime          \* bound on the store's time

ASSUME LeaseAssumption ==
  /\ {Lease, Grace, MarginCap, MaxUncertainty, LeaseMaxTime} \subseteq Nat
  /\ NoClient \notin LeaseClients

VARIABLES
  storeTime,         \* the time of the store
  chosen,      \* chosen[c]: the deadline c is about to write
  marker,      \* the marker in the log: its holder and its deadline
  chosenAt,    \* history: when each client chose its deadline
  heldAt,      \* history: the last time the holder's test let it commit
  overAt,      \* history: the first time a waiter's test let it take over
  refusedAt    \* history: the last time a waiter's test made it wait

leaseVars == <<storeTime, chosen, marker, chosenAt, heldAt, overAt, refusedAt>>

Never == -1

\* store_time(): an estimate that holds the true time
Estimates ==
  {e \in [now_ms : storeTime - MaxUncertainty .. storeTime + MaxUncertainty,
          uncertainty_ms : 0 .. MaxUncertainty] :
     storeTime - e.uncertainty_ms <= e.now_ms /\ e.now_ms <= storeTime + e.uncertainty_ms}
EarliestOf(e) == e.now_ms - e.uncertainty_ms
LatestOf(e) == e.now_ms + e.uncertainty_ms

LeaseInit ==
  /\ storeTime = 0
  /\ chosen = [c \in LeaseClients |-> {}]
  /\ marker = [by |-> NoClient, deadline |-> 0]
  /\ chosenAt = [c \in LeaseClients |-> 0]
  /\ heldAt = Never
  /\ overAt = Never
  /\ refusedAt = Never

LeaseTick == /\ storeTime < LeaseMaxTime
        /\ storeTime' = storeTime + 1
        /\ UNCHANGED <<chosen, marker, chosenAt, heldAt, overAt, refusedAt>>

\* reserve_version: the deadline is computed ...
ChooseDeadline(c) ==
  /\ marker.by = NoClient
  /\ chosen[c] = {}
  /\ \E e \in Estimates : chosen' = [chosen EXCEPT ![c] = {e.now_ms + Lease}]
  /\ chosenAt' = [chosenAt EXCEPT ![c] = storeTime]
  /\ UNCHANGED <<storeTime, marker, heldAt, overAt, refusedAt>>

\* ... and put into the log, unless another client's marker is there by now.
WriteMarker(c) ==
  /\ \E d \in chosen[c] :
       marker' = IF marker.by = NoClient THEN [by |-> c, deadline |-> d] ELSE marker
  /\ chosen' = [chosen EXCEPT ![c] = {}]
  /\ UNCHANGED <<storeTime, chosenAt, heldAt, overAt, refusedAt>>

Margin == IF MarginCap <= Lease \div 4 THEN MarginCap ELSE Lease \div 4

\* Mutants: the estimate is taken for exact; the deadline for the start of
\* the lease
LeaseExpiringByEstimate(e, d) == e.now_ms + Margin >= d
OverdueAfterAnotherLease(e, d) == EarliestOf(e) > d + Lease + Grace

LeaseExpiring(e, d) == LatestOf(e) + Margin >= d
Overdue(e, d) == EarliestOf(e) > d + Grace

\* commit() of the holder: lease_expiring is false, it goes on.  (Otherwise
\* it gives the version back: shift_marker.)
HolderGoesOn(c) ==
  /\ marker.by = c
  /\ \E e \in Estimates : ~LeaseExpiring(e, marker.deadline)
  /\ heldAt' = storeTime
  /\ UNCHANGED <<storeTime, chosen, marker, chosenAt, overAt, refusedAt>>

\* A waiter takes the marker over (the write itself: MarkerCommit) ...
WaiterTakesOver(c) ==
  /\ marker.by \notin {NoClient, c}
  /\ \E e \in Estimates : Overdue(e, marker.deadline)
  /\ overAt' = IF overAt = Never THEN storeTime ELSE overAt
  /\ UNCHANGED <<storeTime, chosen, marker, chosenAt, heldAt, refusedAt>>

\* ... or sleeps and reads it again.
WaiterPolls(c) ==
  /\ marker.by \notin {NoClient, c}
  /\ \E e \in Estimates : ~Overdue(e, marker.deadline)
  /\ refusedAt' = storeTime
  /\ UNCHANGED <<storeTime, chosen, marker, chosenAt, heldAt, overAt>>

LeaseNext ==
  \/ LeaseTick
  \/ \E c \in LeaseClients : \/ ChooseDeadline(c) \/ WriteMarker(c) \/ HolderGoesOn(c)
                        \/ WaiterTakesOver(c) \/ WaiterPolls(c)

LeaseSpec == LeaseInit /\ [][LeaseNext]_leaseVars

-----------------------------------------------------------------------------
(* Properties *)

Times == {Never} \cup Nat

LeaseTypeOK ==
  /\ storeTime \in Nat
  /\ chosen \in [LeaseClients -> SUBSET Int]
  /\ marker \in [by : LeaseClients \cup {NoClient}, deadline : Int]
  /\ chosenAt \in [LeaseClients -> Nat]
  /\ {heldAt, overAt, refusedAt} \subseteq Times

\* Whatever the clocks of holder and waiters show, a holder whose test let it
\* commit did so more than Margin + Grace before any waiter's test let it
\* take the marker over: that much time is left for writing the commit.
HolderStopsFirst ==
  heldAt # Never /\ overAt # Never => heldAt + Margin + Grace < overAt

\* What a crashed client costs the others: from Lease + Grace and three
\* uncertainties (its own, and twice the waiter's) after it chose its
\* deadline, every test lets them take its marker over.
BlockedForTheLeaseOnly ==
  marker.by # NoClient =>
    refusedAt <= chosenAt[marker.by] + Lease + Grace + 3 * MaxUncertainty
=============================================================================
