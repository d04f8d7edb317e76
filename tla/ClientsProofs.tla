---------------------------- MODULE ClientsProofs ---------------------------
(***************************************************************************)
(* Proofs about the parts of a client outside the protocol: the estimate   *)
(* of the store's time, the lease of a marker that is judged with it, the  *)
(* conversion of timestamps, the lookup of a key in a file, and the books  *)
(* of the banking workload.                                                *)
(***************************************************************************)
EXTENDS StoreClock, MarkerLease, Conversions, KeyLookup, Banking,
        FiniteSetTheorems, WellFoundedInduction, TLAPS

-----------------------------------------------------------------------------
(***************************************************************************)
(* The estimate of the store's time is right as long as the local clock is *)
(* not set, for every resolution, delay, offset and number of samples.     *)
(*                                                                         *)
(* The invariant says of the estimate that its interval contains the true  *)
(* offset, and of a request under way that the sample it is going to give  *)
(* will: it was sent before now, and its date is the time of the answer,   *)
(* rounded down.                                                           *)
(***************************************************************************)

\* The interval contains the offset.
IntervalContains ==
  \A c \in ClockClients :
    Trusted(c) => clock[c].low <= offset[c] /\ offset[c] <= clock[c].high

\* The request under way will give a sample that contains the offset.
RequestIsRight ==
  \A c \in ClockClients :
    calm[c] =>
      /\ call[c].at \in {"sent", "answered"}
      /\ call[c].sent + offset[c] <= now
      /\ call[c].at = "answered" /\ call[c].dated =>
           /\ call[c].date <= now
           /\ call[c].sent + offset[c] <= call[c].date + Resolution

IInv == ClockTypeOK /\ IntervalContains /\ RequestIsRight

\* The two halves of a length, the second one rounded up
LEMMA Halves ==
  ASSUME NEW n \in Nat
  PROVE  /\ Half(n) \in Nat /\ Half(n + 1) \in Nat
         /\ Half(n) + Half(n + 1) = n
         /\ Half(n) <= Half(n + 1)
BY DEF Half

\* An interval that contains the offset makes earliest() and latest() right.
LEMMA IntervalGivesTime ==
  ASSUME ClockTypeOK, IntervalContains
  PROVE  EstimateHoldsTheTruth
<1> SUFFICES ASSUME NEW c \in ClockClients, Trusted(c)
             PROVE  Earliest(c) <= now /\ now <= Latest(c)
  BY DEF EstimateHoldsTheTruth
<1> DEFINE low == clock[c].low
           width == clock[c].high - clock[c].low
<1>1. /\ now \in Nat /\ offset[c] \in Int
      /\ low \in Int /\ clock[c].high \in Int
  BY DEF ClockTypeOK, Clocks
<1>2. low <= offset[c] /\ offset[c] <= clock[c].high
  BY DEF IntervalContains
<1>3. width \in Nat /\ offset[c] <= low + width
  BY <1>1, <1>2
<1>4. /\ Half(width) \in Nat /\ Half(width + 1) \in Nat
      /\ Half(width) + Half(width + 1) = width
      /\ Half(width) <= Half(width + 1)
  BY <1>3, Halves
<1>5. /\ NowMs(c) = (now - offset[c]) + low + Half(width)
      /\ Uncertainty(c) = Half(width + 1)
  BY DEF NowMs, Uncertainty, Local, Trusted
<1> HIDE DEF low, width
<1> QED BY <1>1, <1>2, <1>3, <1>4, <1>5 DEF Earliest, Latest

\* A date is rounded down by less than the resolution.
LEMMA Truncation ==
  ASSUME NEW n \in Nat
  PROVE  /\ n - (n % Resolution) \in Int
         /\ n - (n % Resolution) <= n
         /\ n <= n - (n % Resolution) + Resolution
BY ClockAssumption

\* Time passes: what was sent or answered before now still was.
LEMMA TickInv ==
  ASSUME IInv, ClockTick
  PROVE  IInv'
<1> USE DEF IInv, ClockTick
<1>1. now \in Nat /\ now' = now + 1 /\ ClockTypeOK'
  BY DEF ClockTypeOK
<1>2. IntervalContains'
  BY DEF IntervalContains, Trusted
<1>3. RequestIsRight'
  BY <1>1, ClockAssumption DEF RequestIsRight, ClockTypeOK, Calls
<1> QED BY <1>1, <1>2, <1>3

\* A clock that is set spoils the estimate and the request under way.
LEMMA JumpInv ==
  ASSUME IInv, NEW c \in ClockClients, Jump(c)
  PROVE  IInv'
<1> USE DEF IInv, Jump
<1>1. PICK o \in Offsets : offset' = [offset EXCEPT ![c] = o]
  OBVIOUS
<1>2. ClockTypeOK'
  BY <1>1, ClockAssumption DEF ClockTypeOK
<1>3. IntervalContains'
  BY <1>1 DEF IntervalContains, Trusted, ClockTypeOK
<1>4. RequestIsRight'
  BY <1>1 DEF RequestIsRight, ClockTypeOK
<1> QED BY <1>2, <1>3, <1>4

\* A request is sent now.
LEMMA RequestSampleInv ==
  ASSUME IInv, NEW c \in ClockClients, RequestSample(c)
  PROVE  IInv'
<1> USE DEF IInv, RequestSample
<1>1. ClockTypeOK'
  <2>1. Local(c) \in Int
    BY DEF Local, ClockTypeOK
  <2>2. Call("sent", Local(c), 0, FALSE) \in Calls
    BY <2>1 DEF Calls, Call
  <2>3. call' = [call EXCEPT ![c] = Call("sent", Local(c), 0, FALSE)]
    OBVIOUS
  <2>4. call' \in [ClockClients -> Calls]
    BY <2>2, <2>3 DEF ClockTypeOK
  <2>5. samples' \in Nat /\ calm' \in [ClockClients -> BOOLEAN]
    BY DEF ClockTypeOK
  <2> QED BY <2>4, <2>5 DEF ClockTypeOK
<1>2. IntervalContains'
  BY DEF IntervalContains, Trusted
<1>3. RequestIsRight'
  BY DEF RequestIsRight, ClockTypeOK, Call, Local
<1> QED BY <1>1, <1>2, <1>3

\* The answer carries the time of the store, rounded down.
LEMMA AnswerInv ==
  ASSUME IInv, NEW c \in ClockClients, Answer(c)
  PROVE  IInv'
<1> USE DEF IInv, Answer
<1> DEFINE date == now - (now % Resolution)
           answer(dated) == Call("answered", call[c].sent, IF dated THEN date ELSE 0, dated)
<1>1. PICK dated \in BOOLEAN : call' = [call EXCEPT ![c] = answer(dated)]
  OBVIOUS
<1>2. /\ now - (now % Resolution) \in Int
      /\ now - (now % Resolution) <= now
      /\ now <= now - (now % Resolution) + Resolution
  BY Truncation DEF ClockTypeOK
<1> HIDE DEF date
<1>3. ClockTypeOK'
  <2>1. date \in Int /\ call[c] \in Calls
    BY <1>2 DEF ClockTypeOK, date
  <2>2. answer(dated) \in Calls
    BY <2>1 DEF Calls, Call
  <2> QED BY <1>1, <2>2 DEF ClockTypeOK
<1>4. IntervalContains'
  BY DEF IntervalContains, Trusted
<1>5. RequestIsRight'
  <2> SUFFICES ASSUME NEW d \in ClockClients, calm[d]
               PROVE  /\ call'[d].at \in {"sent", "answered"}
                      /\ call'[d].sent + offset[d] <= now
                      /\ call'[d].at = "answered" /\ call'[d].dated =>
                           /\ call'[d].date <= now
                           /\ call'[d].sent + offset[d] <= call'[d].date + Resolution
    BY DEF RequestIsRight
  <2>1. CASE d # c
    BY <1>1, <2>1 DEF RequestIsRight, ClockTypeOK
  <2>2. CASE d = c
    <3>1. /\ call'[c].at = "answered"
          /\ call'[c].sent = call[c].sent
          /\ call'[c].dated => call'[c].date = date
      BY <1>1 DEF ClockTypeOK, Call
    <3>2. call[c].sent + offset[c] <= now
      BY <2>2 DEF RequestIsRight
    <3>3. /\ call[c].sent \in Int /\ offset[c] \in Int /\ now \in Int
          /\ date \in Int /\ date <= now /\ now <= date + Resolution
          /\ Resolution \in Int
      BY <1>2, ClockAssumption DEF ClockTypeOK, Calls, date
    <3> QED BY <2>2, <3>1, <3>2, <3>3
  <2> QED BY <2>1, <2>2
<1> QED BY <1>3, <1>4, <1>5

\* The response becomes a sample: it contains the offset, and so does its
\* intersection with an interval that does.
LEMMA ReceiveInv ==
  ASSUME IInv, NEW c \in ClockClients, Receive(c)
  PROVE  IInv'
<1> USE DEF IInv, Receive
<1> DEFINE s == Sample(call[c].date, call[c].sent, Local(c))
<1>1. /\ Local(c) \in Int /\ s.low \in Int /\ s.high \in Int
      /\ clock[c].low \in Int /\ clock[c].high \in Int
      /\ offset[c] \in Int /\ now \in Int
      /\ call[c].date \in Int /\ call[c].sent \in Int /\ Resolution \in Int
  BY ClockAssumption DEF ClockTypeOK, Local, Sample, Calls, Clocks
<1>2. call[c].dated => clock' = [clock EXCEPT ![c] = AddSample(clock[c], s, Local(c))]
  OBVIOUS
<1>3. AddSample(clock[c], s, Local(c)) \in Clocks
  BY <1>1 DEF AddSample, Clocks, Larger, Smaller
<1>4. ClockTypeOK'
  <2>1. Done \in Calls
    BY DEF Done, Call, Calls
  <2>2. steady' \in [ClockClients -> BOOLEAN]
    BY DEF ClockTypeOK, Consistent
  <2>3. clock' \in [ClockClients -> Clocks]
    BY <1>2, <1>3 DEF ClockTypeOK
  <2> QED BY <2>1, <2>2, <2>3 DEF ClockTypeOK
<1>5. RequestIsRight'
  BY DEF RequestIsRight, ClockTypeOK
<1>6. calm[c] /\ call[c].dated => s.low <= offset[c] /\ offset[c] <= s.high
  BY <1>1 DEF RequestIsRight, Sample, Local
<1>7. IntervalContains'
  <2> SUFFICES ASSUME NEW d \in ClockClients, Trusted(d)'
               PROVE  clock'[d].low <= offset[d] /\ offset[d] <= clock'[d].high
    BY DEF IntervalContains
  <2>1. CASE d # c \/ ~call[c].dated
    BY <2>1 DEF IntervalContains, Trusted, ClockTypeOK
  <2>2. CASE d = c /\ call[c].dated
    <3>1. clock'[c] = AddSample(clock[c], s, Local(c))
      BY <1>2, <2>2 DEF ClockTypeOK
    <3>2. calm[c] /\ (Consistent(clock[c], s) => steady[c])
      BY <2>2 DEF Trusted, ClockTypeOK
    <3>3. s.low <= offset[c] /\ offset[c] <= s.high
      BY <1>6, <2>2, <3>2
    <3>4. CASE Consistent(clock[c], s)
      <4>1. clock[c].low <= offset[c] /\ offset[c] <= clock[c].high
        BY <3>2, <3>4 DEF IntervalContains, Trusted, Consistent
      <4>2. /\ clock'[c].low = Larger(clock[c].low, s.low)
            /\ clock'[c].high = Smaller(clock[c].high, s.high)
        BY <3>1, <3>4 DEF AddSample
      <4> HIDE DEF s
      <4> QED BY <1>1, <2>2, <3>3, <4>1, <4>2 DEF Larger, Smaller
    <3>5. CASE ~Consistent(clock[c], s)
      <4>1. clock'[c].low = s.low /\ clock'[c].high = s.high
        BY <3>1, <3>5 DEF AddSample
      <4> HIDE DEF s
      <4> QED BY <2>2, <3>3, <4>1
    <3> QED BY <3>4, <3>5
  <2> QED BY <2>1, <2>2
<1> QED BY <1>4, <1>5, <1>7

\* The call ends; nothing else changes.
LEMMA ReturnInv ==
  ASSUME IInv, NEW c \in ClockClients, Return(c)
  PROVE  IInv'
<1> USE DEF IInv, Return
<1>1. ClockTypeOK'
  BY DEF ClockTypeOK, Calls, Idle, Call
<1>2. IntervalContains'
  BY DEF IntervalContains, Trusted
<1>3. RequestIsRight'
  BY ClockAssumption DEF RequestIsRight, ClockTypeOK, Idle, Call, SampleDue
<1> QED BY <1>1, <1>2, <1>3

\* In every behaviour the estimate of OffsetClock::now() holds the store's time
\* as long as the local clock is not set.
THEOREM EstimateIsRight == ClockSpec => []EstimateHoldsTheTruth
<1>1. ClockInit => IInv
  <2> SUFFICES ASSUME ClockInit PROVE IInv
    OBVIOUS
  <2>1. /\ Idle \in Calls
        /\ [valid |-> FALSE, low |-> 0, high |-> 0, last |-> 0] \in Clocks
    BY DEF Idle, Call, Calls, Clocks
  <2>2. offset \in [ClockClients -> Int]
    BY ClockAssumption DEF ClockInit
  <2>3. ClockTypeOK
    BY <2>1, <2>2 DEF ClockInit, ClockTypeOK
  <2>4. IntervalContains /\ RequestIsRight
    BY DEF ClockInit, IntervalContains, RequestIsRight, Trusted
  <2> QED BY <2>3, <2>4 DEF IInv
<1>2. IInv /\ [ClockNext]_clockVars => IInv'
  <2> SUFFICES ASSUME IInv, [ClockNext]_clockVars PROVE IInv'
    OBVIOUS
  <2>1. CASE UNCHANGED clockVars
    BY <2>1 DEF IInv, ClockTypeOK, IntervalContains, RequestIsRight, Trusted, clockVars
  <2>2. CASE ClockNext
    BY <2>2, TickInv, JumpInv, RequestSampleInv, AnswerInv, ReceiveInv, ReturnInv
    DEF ClockNext
  <2> QED BY <2>1, <2>2
<1>3. IInv => EstimateHoldsTheTruth
  BY IntervalGivesTime DEF IInv
<1> QED BY <1>1, <1>2, <1>3, PTL DEF ClockSpec

-----------------------------------------------------------------------------
(***************************************************************************)
(* The lease of a marker, for every lease, grace, margin, uncertainty and  *)
(* number of clients.                                                      *)
(*                                                                         *)
(* The tests of holder and waiters use different estimates of the time,    *)
(* and the deadline comes from a third one.  The invariant bounds each     *)
(* moment in the history by the deadline, in true time; the theorems       *)
(* combine two of these bounds.                                            *)
(***************************************************************************)

\* A chosen deadline is no later than the lease and an uncertainty from then.
ChosenInTime ==
  \A c \in LeaseClients : \A d \in chosen[c] : d <= chosenAt[c] + Lease + MaxUncertainty

\* What the tests said about the marker in the log, in true time
TestsInTime ==
  IF marker.by = NoClient
  THEN heldAt = Never /\ overAt = Never /\ refusedAt = Never
  ELSE /\ marker.deadline <= chosenAt[marker.by] + Lease + MaxUncertainty
       /\ heldAt # Never => heldAt + Margin < marker.deadline
       /\ overAt # Never => marker.deadline + Grace < overAt
       /\ refusedAt # Never =>
            refusedAt <= marker.deadline + Grace + 2 * MaxUncertainty

LeaseInv == LeaseTypeOK /\ ChosenInTime /\ TestsInTime

\* The constants are numbers.
LEMMA TimeNumbers ==
  /\ Lease \in Nat /\ Grace \in Nat /\ MaxUncertainty \in Nat
  /\ Margin \in Nat /\ Never \in Int /\ \A n \in Nat : n # Never
BY LeaseAssumption DEF Margin, Never

\* An estimate holds the true time, within its uncertainty.
LEMMA EstimateBounds ==
  ASSUME storeTime \in Nat, NEW e \in Estimates
  PROVE  /\ e.now_ms \in Int /\ e.uncertainty_ms \in Nat
         /\ EarliestOf(e) \in Int /\ LatestOf(e) \in Int
         /\ EarliestOf(e) <= storeTime /\ storeTime <= LatestOf(e)
         /\ storeTime <= EarliestOf(e) + 2 * MaxUncertainty
         /\ e.now_ms <= storeTime + MaxUncertainty
<1>1. /\ e.now_ms \in storeTime - MaxUncertainty .. storeTime + MaxUncertainty
      /\ e.uncertainty_ms \in 0 .. MaxUncertainty
      /\ storeTime - e.uncertainty_ms <= e.now_ms
      /\ e.now_ms <= storeTime + e.uncertainty_ms
  BY DEF Estimates
<1>2. MaxUncertainty \in Nat
  BY TimeNumbers
<1> QED BY <1>1, <1>2 DEF EarliestOf, LatestOf

\* Reserving a version: choosing the deadline keeps the bounds ...
LEMMA ChooseDeadlineInv ==
  ASSUME LeaseInv, NEW c \in LeaseClients, ChooseDeadline(c)
  PROVE  LeaseInv'
<1>1. PICK e \in Estimates : chosen' = [chosen EXCEPT ![c] = {e.now_ms + Lease}]
  BY DEF ChooseDeadline
<1>2. e.now_ms \in Int /\ e.now_ms <= storeTime + MaxUncertainty
  BY EstimateBounds DEF LeaseInv, LeaseTypeOK
<1>3. LeaseTypeOK'
  BY <1>1, <1>2, TimeNumbers DEF ChooseDeadline, LeaseInv, LeaseTypeOK
<1>4. ChosenInTime'
  BY <1>1, <1>2, TimeNumbers DEF ChooseDeadline, LeaseInv, LeaseTypeOK, ChosenInTime
<1>5. TestsInTime'
  BY DEF ChooseDeadline, LeaseInv, TestsInTime
<1> QED BY <1>3, <1>4, <1>5 DEF LeaseInv

\* ... and so does writing the marker, the first one in the log or too late.
LEMMA WriteMarkerInv ==
  ASSUME LeaseInv, NEW c \in LeaseClients, WriteMarker(c)
  PROVE  LeaseInv'
<1>1. PICK d \in chosen[c] :
        marker' = IF marker.by = NoClient THEN [by |-> c, deadline |-> d] ELSE marker
  BY DEF WriteMarker
<1>2. d \in Int /\ d <= chosenAt[c] + Lease + MaxUncertainty
  BY DEF LeaseInv, LeaseTypeOK, ChosenInTime
<1>3. LeaseTypeOK'
  BY <1>1, <1>2 DEF WriteMarker, LeaseInv, LeaseTypeOK
<1>4. ChosenInTime'
  BY DEF WriteMarker, LeaseInv, LeaseTypeOK, ChosenInTime
<1>5. TestsInTime'
  BY <1>1, <1>2, LeaseAssumption DEF WriteMarker, LeaseInv, TestsInTime
<1> QED BY <1>3, <1>4, <1>5 DEF LeaseInv

\* The holder's test passes: now is before the deadline, by the margin.
LEMMA HolderGoesOnInv ==
  ASSUME LeaseInv, NEW c \in LeaseClients, HolderGoesOn(c)
  PROVE  LeaseInv'
<1>1. PICK e \in Estimates : ~LeaseExpiring(e, marker.deadline)
  BY DEF HolderGoesOn
<1>2. storeTime \in Nat /\ marker.deadline \in Int
  BY DEF LeaseInv, LeaseTypeOK
<1>3. LatestOf(e) \in Int /\ storeTime <= LatestOf(e)
  BY <1>2, EstimateBounds
<1>4. storeTime + Margin < marker.deadline
  BY <1>1, <1>2, <1>3, TimeNumbers DEF LeaseExpiring
<1>5. LeaseTypeOK'
  BY DEF HolderGoesOn, LeaseInv, LeaseTypeOK, Times
<1>6. ChosenInTime'
  BY DEF HolderGoesOn, LeaseInv, ChosenInTime
<1>7. TestsInTime'
  BY <1>4, LeaseAssumption DEF HolderGoesOn, LeaseInv, TestsInTime
<1> QED BY <1>5, <1>6, <1>7 DEF LeaseInv

\* A waiter's test passes: the deadline and the grace are over.
LEMMA WaiterTakesOverInv ==
  ASSUME LeaseInv, NEW c \in LeaseClients, WaiterTakesOver(c)
  PROVE  LeaseInv'
<1>1. PICK e \in Estimates : Overdue(e, marker.deadline)
  BY DEF WaiterTakesOver
<1>2. storeTime \in Nat /\ marker.deadline \in Int
  BY DEF LeaseInv, LeaseTypeOK
<1>3. EarliestOf(e) \in Int /\ EarliestOf(e) <= storeTime
  BY <1>2, EstimateBounds
<1>4. marker.deadline + Grace < storeTime
  BY <1>1, <1>2, <1>3, TimeNumbers DEF Overdue
<1>5. LeaseTypeOK'
  BY DEF WaiterTakesOver, LeaseInv, LeaseTypeOK, Times
<1>6. ChosenInTime'
  BY DEF WaiterTakesOver, LeaseInv, ChosenInTime
<1>7. TestsInTime'
  BY <1>4 DEF WaiterTakesOver, LeaseInv, TestsInTime
<1> QED BY <1>5, <1>6, <1>7 DEF LeaseInv

\* A waiter's test makes it wait: not much later than deadline and grace.
LEMMA WaiterPollsInv ==
  ASSUME LeaseInv, NEW c \in LeaseClients, WaiterPolls(c)
  PROVE  LeaseInv'
<1>1. PICK e \in Estimates : ~Overdue(e, marker.deadline)
  BY DEF WaiterPolls
<1>2. storeTime \in Nat /\ marker.deadline \in Int
  BY DEF LeaseInv, LeaseTypeOK
<1>3. EarliestOf(e) \in Int /\ storeTime <= EarliestOf(e) + 2 * MaxUncertainty
  BY <1>2, EstimateBounds
<1>4. storeTime <= marker.deadline + Grace + 2 * MaxUncertainty
  BY <1>1, <1>2, <1>3, TimeNumbers DEF Overdue
<1>5. LeaseTypeOK'
  BY DEF WaiterPolls, LeaseInv, LeaseTypeOK, Times
<1>6. ChosenInTime'
  BY DEF WaiterPolls, LeaseInv, ChosenInTime
<1>7. TestsInTime'
  BY <1>4 DEF WaiterPolls, LeaseInv, TestsInTime
<1> QED BY <1>5, <1>6, <1>7 DEF LeaseInv

\* The invariant holds in every reachable state.
LEMMA Inductive == LeaseSpec => []LeaseInv
<1>1. LeaseInit => LeaseInv
  BY LeaseAssumption DEF LeaseInit, LeaseInv, LeaseTypeOK, ChosenInTime, TestsInTime, Times
<1>2. LeaseInv /\ [LeaseNext]_leaseVars => LeaseInv'
  <2> SUFFICES ASSUME LeaseInv, [LeaseNext]_leaseVars PROVE LeaseInv'
    OBVIOUS
  <2>1. CASE UNCHANGED leaseVars
    BY <2>1 DEF leaseVars, LeaseInv, LeaseTypeOK, ChosenInTime, TestsInTime
  <2>2. CASE LeaseTick
    BY <2>2 DEF LeaseTick, LeaseInv, LeaseTypeOK, ChosenInTime, TestsInTime
  <2> QED BY <2>1, <2>2, ChooseDeadlineInv, WriteMarkerInv, HolderGoesOnInv,
             WaiterTakesOverInv, WaiterPollsInv DEF LeaseNext
<1> QED BY <1>1, <1>2, PTL DEF LeaseSpec

\* A holder that goes on to commit is more than Margin + Grace ahead of every
\* takeover, whatever the clients' clocks show.
THEOREM TakeoverIsNeverEarly == LeaseSpec => []HolderStopsFirst
<1>1. LeaseInv => HolderStopsFirst
  <2> SUFFICES ASSUME LeaseInv, heldAt # Never, overAt # Never
               PROVE  heldAt + Margin + Grace < overAt
    BY DEF HolderStopsFirst
  <2>1. heldAt + Margin < marker.deadline /\ marker.deadline + Grace < overAt
    BY DEF LeaseInv, TestsInTime
  <2>2. heldAt \in Int /\ overAt \in Int /\ marker.deadline \in Int
    BY TimeNumbers DEF LeaseInv, LeaseTypeOK, Times
  <2> QED BY <2>1, <2>2, TimeNumbers
<1> QED BY <1>1, Inductive, PTL

\* A marker makes others wait for the lease, the grace and three uncertainties
\* at most.
THEOREM WaitIsBounded == LeaseSpec => []BlockedForTheLeaseOnly
<1>1. LeaseInv => BlockedForTheLeaseOnly
  <2> SUFFICES ASSUME LeaseInv, marker.by # NoClient
               PROVE  refusedAt <= chosenAt[marker.by] + Lease + Grace
                                   + 3 * MaxUncertainty
    BY DEF BlockedForTheLeaseOnly
  <2>1. /\ marker.deadline <= chosenAt[marker.by] + Lease + MaxUncertainty
        /\ refusedAt # Never =>
             refusedAt <= marker.deadline + Grace + 2 * MaxUncertainty
    BY DEF LeaseInv, TestsInTime
  <2>2. /\ marker.deadline \in Int /\ chosenAt[marker.by] \in Nat
        /\ refusedAt \in Int
    BY TimeNumbers DEF LeaseInv, LeaseTypeOK, Times
  <2> QED BY <2>1, <2>2, TimeNumbers DEF Never
<1> QED BY <1>1, Inductive, PTL

-----------------------------------------------------------------------------
(***************************************************************************)
(* The conversion of timestamps is exact, for integers of every width and  *)
(* all units one of whose rates divides the other one.                     *)
(***************************************************************************)

\* Division of naturals, with the remainder
LEMMA DivNat ==
  ASSUME NEW n \in Nat, NEW d \in Nat, d > 0
  PROVE  n \div d \in Nat /\ d * (n \div d) <= n /\ n < d * (n \div d) + d
BY Z3

\* Multiplication by a natural number is monotonic.
LEMMA TimesIsMonotonic ==
  ASSUME NEW a \in Int, NEW b \in Int, NEW k \in Nat
  PROVE  /\ a * k \in Int
         /\ a <= b => a * k <= b * k
         /\ a < b /\ k > 0 => a * k < b * k
BY Z3

\* The rate of a multiple is the multiple.
LEMMA DivMultiple ==
  ASSUME NEW k \in Nat, NEW d \in Nat, d > 0
  PROVE  (k * d) \div d = k
<1> DEFINE q == (k * d) \div d
<1>1. k * d \in Nat
  BY Z3
<1>2. q \in Nat /\ d * q <= k * d /\ k * d < d * q + d
  BY <1>1, DivNat
<1> HIDE DEF q
<1>3. d * q = q * d /\ d * q + d = (q + 1) * d
  BY <1>2
<1>4. q < k + 1 /\ k < q + 1
  <2>1. ~(k + 1 <= q)
    BY <1>1, <1>2, <1>3, TimesIsMonotonic
  <2>2. ~(q + 1 <= k)
    BY <1>1, <1>2, <1>3, TimesIsMonotonic
  <2> QED BY <1>2, <2>1, <2>2
<1>5. q = k
  BY <1>2, <1>4
<1> QED BY <1>5 DEF q

\* floor_div rounds down, also below zero, where the division of C++ rounds up.
THEOREM FloorDivRoundsDown ==
  ASSUME NEW v \in Int, NEW d \in Nat, d > 0
  PROVE  /\ FloorDiv(v, d) \in Int
         /\ d * FloorDiv(v, d) <= v /\ v < d * FloorDiv(v, d) + d
<1>1. CASE v >= 0
  <2>1. v \in Nat
    BY <1>1
  <2>2. FloorDiv(v, d) = v \div d
    BY <1>1 DEF FloorDiv, Quotient, Remainder
  <2> QED BY <2>1, <2>2, DivNat
<1>2. CASE v < 0
  <2>1. -v \in Nat
    BY <1>2
  <2> DEFINE q == (-v) \div d
  <2>2. q \in Nat /\ d * q <= -v /\ -v < d * q + d
    BY <2>1, DivNat
  <2>3. Quotient(v, d) = -q
    BY <1>2 DEF Quotient
  <2>4. d * (-q) = -(d * q) /\ d * (-q - 1) = -(d * q) - d /\ d * q \in Int
    BY <2>2
  <2>5. Remainder(v, d) = v + d * q
    BY <2>3, <2>4 DEF Remainder
  <2> HIDE DEF q
  <2>6. CASE v + d * q = 0
    BY <2>2, <2>3, <2>4, <2>5, <2>6 DEF FloorDiv
  <2>7. CASE v + d * q # 0
    <3>1. FloorDiv(v, d) = -q - 1
      BY <1>2, <2>3, <2>5, <2>7 DEF FloorDiv
    <3> QED BY <3>1, <2>2, <2>4, <2>7
  <2> QED BY <2>6, <2>7
<1> QED BY <1>1, <1>2

\* The guard of the multiplication refuses exactly what would overflow.
THEOREM FitsIsExact ==
  ASSUME MaxLong \in Nat, MinLong \in Int, MinLong < 0,
         NEW v \in Int, NEW k \in Nat, k > 0
  PROVE  Fits(v, k) <=> v * k \in Longs
<1> DEFINE top == MaxLong \div k
           bottom == (-MinLong) \div k
<1>1. top \in Nat /\ k * top <= MaxLong /\ MaxLong < k * top + k
  BY DivNat
<1>2. bottom \in Nat /\ k * bottom <= -MinLong /\ -MinLong < k * bottom + k
  BY DivNat
<1>3. Quotient(MaxLong, k) = top /\ Quotient(MinLong, k) = -bottom
  BY DEF Quotient
<1> HIDE DEF top, bottom
<1>4. (v <= top => v * k <= k * top) /\ (v >= top + 1 => v * k >= k * top + k)
  <2>1. top * k = k * top /\ (top + 1) * k = k * top + k
    BY <1>1
  <2> QED BY <1>1, <2>1, TimesIsMonotonic
<1>5. (v >= -bottom => v * k >= -(k * bottom)) /\ (v <= -bottom - 1 => v * k <= -(k * bottom) - k)
  <2>1. (-bottom) * k = -(k * bottom) /\ (-bottom - 1) * k = -(k * bottom) - k
    BY <1>2
  <2>2. -bottom \in Int /\ -bottom - 1 \in Int
    BY <1>2
  <2> QED BY <2>1, <2>2, TimesIsMonotonic
<1>6. v * k \in Int /\ k * top \in Int /\ k * bottom \in Int
  BY <1>1, <1>2, TimesIsMonotonic
<1>7. Fits(v, k) => v * k \in Longs
  BY <1>1, <1>2, <1>3, <1>4, <1>5, <1>6 DEF Fits, Longs
<1>8. v * k \in Longs => Fits(v, k)
  BY <1>1, <1>2, <1>3, <1>4, <1>5, <1>6 DEF Fits, Longs
<1> QED BY <1>7, <1>8

\* convert_timestamps: a value that is returned is the same time, to the
\* precision of the target.
THEOREM TimestampsKeepTheirTime ==
  ASSUME NEW from, NEW to, NEW v \in Int, NEW k \in Nat, k > 0,
         Rate[from] \in Nat, Rate[to] \in Nat, Rate[from] > 0, Rate[to] > 0,
         Rate[to] = k * Rate[from] \/ Rate[from] = k * Rate[to],
         NEW w \in ConvertTimestamp(v, from, to)
  PROVE  w \in Int /\ IsSameTime(w, v, from, to)
<1> DEFINE f == Rate[from]
           t == Rate[to]
<1>0. f \in Nat /\ t \in Nat /\ f > 0 /\ t > 0
  OBVIOUS
<1>1. CASE from = to
  <2>1. w = v
    BY <1>1 DEF ConvertTimestamp
  <2> HIDE DEF f, t
  <2>2. v * f < (v + 1) * f
    BY <1>0, TimesIsMonotonic
  <2> QED BY <1>1, <2>1, <2>2 DEF IsSameTime, f, t
<1>2. CASE from # to /\ t >= f
  <2>1. PICK j \in Nat : j > 0 /\ t = j * f
    <3>1. CASE t = k * f
      BY <3>1
    <3>2. CASE f = k * t
      <4>1. t <= k * t
        BY <1>0, TimesIsMonotonic
      <4>2. t = 1 * f
        BY <1>0, <1>2, <3>2, <4>1
      <4> QED BY <4>2
    <3> QED BY <3>1, <3>2
  <2>2. t \div f = j
    BY <1>0, <2>1, DivMultiple
  <2>3. w = v * j
    BY <1>2, <2>2 DEF ConvertTimestamp
  <2> HIDE DEF f, t
  <2>4. w \in Int /\ w * f = v * t
    BY <1>0, <2>1, <2>3, Z3
  <2>5. w * f < (w + 1) * f
    BY <1>0, <2>4, TimesIsMonotonic
  <2>6. v * t \in Int
    BY <1>0, TimesIsMonotonic
  <2> QED BY <2>4, <2>5, <2>6 DEF IsSameTime, f, t
<1>3. CASE from # to /\ ~(t >= f)
  <2>1. f = k * t
    <3>1. f <= k * f
      BY <1>0, TimesIsMonotonic
    <3> QED BY <1>0, <1>3, <3>1
  <2>2. f \div t = k
    BY <1>0, <2>1, DivMultiple
  <2>3. w = FloorDiv(v, k)
    BY <1>3, <2>2 DEF ConvertTimestamp
  <2>4. w \in Int /\ k * w <= v /\ v < k * w + k
    BY <2>3, FloorDivRoundsDown
  <2> HIDE DEF f, t
  <2>5. k * w \in Int /\ k * w + k \in Int
    BY <2>4
  <2>6. (k * w) * t <= v * t /\ v * t < (k * w + k) * t
    BY <1>0, <2>4, <2>5, TimesIsMonotonic
  <2>7. w * f = (k * w) * t /\ (w + 1) * f = (k * w + k) * t
    BY <1>0, <2>1, <2>4, Z3
  <2> QED BY <2>4, <2>6, <2>7 DEF IsSameTime, f, t
<1> QED BY <1>1, <1>2, <1>3

-----------------------------------------------------------------------------
(***************************************************************************)
(* The lookup of a key in a file finds the rows of the key, for all        *)
(* strings and numbers, files, and places where writers truncate.          *)
(*                                                                         *)
(* Truncation keeps the order: the first characters of a string are not    *)
(* above it, and a truncated maximum, with the character that ends it, is  *)
(* not below, as long as it was cut where the lookup cuts or later.  So    *)
(* what the statistics exclude is not in the file, and a file whose        *)
(* smallest and largest value are the key holds only rows of the key.      *)
(***************************************************************************)

\* No set of them is a smaller part of s.
Smallest(s, Sets) == \A t \in Sets : ~(t \subseteq s /\ t # s)

\* Among some subsets of a finite set there is one without a smaller one.
LEMMA SmallestSet ==
  ASSUME NEW S, IsFiniteSet(S), NEW Sets \in SUBSET (SUBSET S), Sets # {}
  PROVE  \E s \in Sets : Smallest(s, Sets)
<1>1. Sets \subseteq FiniteSubsetsOf(S)
  BY FS_FiniteSubsetsOfFinite
<1>2. IsWellFoundedOn(StrictSubsetOrdering(S), FiniteSubsetsOf(S))
  BY FS_StrictSubsetOrderingWellFounded
<1>3. PICK s \in Sets : \A t \in Sets : ~(<<t, s>> \in StrictSubsetOrdering(S))
  BY <1>1, <1>2, WFMin
<1>4. \A t \in Sets : t \subseteq s /\ t # s => <<t, s>> \in StrictSubsetOrdering(S)
  BY DEF StrictSubsetOrdering
<1>5. Smallest(s, Sets)
  BY <1>3, <1>4 DEF Smallest
<1> QED BY <1>5

\* A finite set has an element that no other one is related to, if the relation
\* is transitive and relates no element to itself.
LEMMA FirstElement ==
  ASSUME NEW S, IsFiniteSet(S), S # {}, NEW R, \A a \in S : <<a, a>> \notin R,
         \A a, b, c \in S : <<a, b>> \in R /\ <<b, c>> \in R => <<a, c>> \in R
  PROVE  \E v \in S : \A x \in S : <<x, v>> \notin R
<1> DEFINE Upto(v) == {v} \cup {x \in S : <<x, v>> \in R}
           Sets == {Upto(v) : v \in S}
<1>1. Sets \in SUBSET (SUBSET S) /\ Sets # {}
  <2>1. \A v \in S : Upto(v) \in SUBSET S /\ Upto(v) \in Sets
    OBVIOUS
  <2>2. \E v : v \in S
    OBVIOUS
  <2> HIDE DEF Upto
  <2>3. Sets \in SUBSET (SUBSET S)
    BY <2>1
  <2>4. Sets # {}
    BY <2>1, <2>2
  <2> QED BY <2>3, <2>4
<1>2. PICK s \in Sets : Smallest(s, Sets)
  <2> HIDE DEF Sets
  <2> QED BY <1>1, SmallestSet
<1>3. PICK v \in S : s = Upto(v)
  BY <1>2
<1>4. ASSUME NEW x \in S, <<x, v>> \in R PROVE FALSE
  <2>1. Upto(x) \subseteq Upto(v)
    BY <1>4
  <2>2. v \in Upto(v) /\ v \notin Upto(x)
    BY <1>4
  <2>3. Upto(x) \in Sets
    OBVIOUS
  <2> HIDE DEF Upto, Sets
  <2> QED BY <1>2, <1>3, <2>1, <2>2, <2>3 DEF Smallest
<1> QED BY <1>4

-----------------------------------------------------------------------------
\* Strings are sequences of naturals.
LEMMA StringIs ==
  ASSUME NEW s \in Strings
  PROVE  /\ s \in Seq(Chars) /\ Len(s) \in Nat /\ DOMAIN s = 1..Len(s)
         /\ \A i \in 1..Len(s) : s[i] \in Chars /\ s[i] \in Nat
<1>1. PICK n \in 0..MaxLength : s \in [1..n -> Chars]
  BY DEF Strings
<1>2. n \in Nat /\ Chars \subseteq Nat
  BY <1>1, KeyLookupAssumption
<1>3. s \in Seq(Chars) /\ Len(s) = n
  BY <1>1, <1>2
<1> QED BY <1>1, <1>2, <1>3

\* IsBelow is a strict order
LEMMA BelowIsStrict ==
  ASSUME NEW s \in Strings
  PROVE  ~IsBelow(s, s)
BY StringIs DEF IsBelow

LEMMA BelowIsTransitive ==
  ASSUME NEW s \in Strings, NEW t \in Strings, NEW u \in Strings, IsBelow(s, t), IsBelow(t, u)
  PROVE  IsBelow(s, u)
<1>1. /\ Len(s) \in Nat /\ Len(t) \in Nat /\ Len(u) \in Nat
      /\ \A i \in 1..Len(s) : s[i] \in Nat
      /\ \A i \in 1..Len(t) : t[i] \in Nat
      /\ \A i \in 1..Len(u) : u[i] \in Nat
  BY StringIs
<1> DEFINE Shorter(a, b) == Len(a) < Len(b) /\ \A i \in 1..Len(a) : a[i] = b[i]
           Differ(a, b, i) == /\ i \in 1..Len(a) /\ i <= Len(b) /\ a[i] < b[i]
                              /\ \A j \in 1..(i - 1) : a[j] = b[j]
<1>2. \A a, b : IsBelow(a, b) <=> Shorter(a, b) \/ \E i : Differ(a, b, i)
  BY DEF IsBelow
<1>3. CASE Shorter(s, t) /\ Shorter(t, u)
  <2>1. Shorter(s, u)
    BY <1>1, <1>3
  <2> QED BY <1>2, <2>1
<1>4. ASSUME NEW i, Shorter(s, t), Differ(t, u, i) PROVE IsBelow(s, u)
  <2>1. CASE i <= Len(s)
    <3>1. Differ(s, u, i)
      BY <1>1, <1>4, <2>1
    <3> QED BY <1>2, <3>1
  <2>2. CASE ~(i <= Len(s))
    <3>1. Shorter(s, u)
      BY <1>1, <1>4, <2>2
    <3> QED BY <1>2, <3>1
  <2> QED BY <2>1, <2>2
<1>5. ASSUME NEW i, Differ(s, t, i), Shorter(t, u) PROVE IsBelow(s, u)
  <2>1. Differ(s, u, i)
    BY <1>1, <1>5
  <2> QED BY <1>2, <2>1
<1>6. ASSUME NEW i, NEW j, Differ(s, t, i), Differ(t, u, j) PROVE IsBelow(s, u)
  <2>1. CASE i <= j
    <3>1. Differ(s, u, i)
      BY <1>1, <1>6, <2>1
    <3> QED BY <1>2, <3>1
  <2>2. CASE ~(i <= j)
    <3>1. Differ(s, u, j)
      BY <1>1, <1>6, <2>2
    <3> QED BY <1>2, <3>1
  <2> QED BY <2>1, <2>2
<1> HIDE DEF Shorter, Differ
<1> QED BY <1>2, <1>3, <1>4, <1>5, <1>6

\* The order of the column's values
LEMMA ValuesAreOrdered ==
  ASSUME NEW k, NEW a \in ValuesOf(k), NEW b \in ValuesOf(k), NEW c \in ValuesOf(k)
  PROVE  /\ NotAbove(k, a, a)
         /\ ~NotAbove(k, b, a) /\ ~NotAbove(k, c, b) => ~NotAbove(k, c, a)
<1>1. CASE k = "string"
  BY <1>1, BelowIsStrict, BelowIsTransitive DEF ValuesOf, NotAbove
<1>2. CASE k # "string"
  <2>1. a \in Int /\ b \in Int /\ c \in Int
    BY <1>2, KeyLookupAssumption DEF ValuesOf
  <2> QED BY <1>2, <2>1 DEF NotAbove
<1> QED BY <1>1, <1>2

\* A finite set of values has a smallest and a largest one.
LEMMA LowestAndHighest ==
  ASSUME NEW k, NEW S \in SUBSET ValuesOf(k), IsFiniteSet(S), S # {}
  PROVE  /\ Lowest(k, S) \in S /\ \A x \in S : NotAbove(k, Lowest(k, S), x)
         /\ Highest(k, S) \in S /\ \A x \in S : NotAbove(k, x, Highest(k, S))
<1>1. \E v \in S : \A x \in S : NotAbove(k, v, x)
  <2> DEFINE R == {p \in S \X S : ~NotAbove(k, p[2], p[1])}
  <2>1. \A a, b \in S : <<a, b>> \in R <=> ~NotAbove(k, b, a)
    OBVIOUS
  <2>2. \A a \in S : <<a, a>> \notin R
    BY <2>1, ValuesAreOrdered
  <2>3. \A a, b, c \in S : <<a, b>> \in R /\ <<b, c>> \in R => <<a, c>> \in R
    BY <2>1, ValuesAreOrdered
  <2> HIDE DEF R
  <2>4. PICK v \in S : \A x \in S : <<x, v>> \notin R
    BY <2>2, <2>3, FirstElement
  <2> QED BY <2>1, <2>4
<1>2. \E v \in S : \A x \in S : NotAbove(k, x, v)
  <2> DEFINE R == {p \in S \X S : ~NotAbove(k, p[1], p[2])}
  <2>1. \A a, b \in S : <<a, b>> \in R <=> ~NotAbove(k, a, b)
    OBVIOUS
  <2>2. \A a \in S : <<a, a>> \notin R
    BY <2>1, ValuesAreOrdered
  <2>3. \A a, b, c \in S : <<a, b>> \in R /\ <<b, c>> \in R => <<a, c>> \in R
    BY <2>1, ValuesAreOrdered
  <2> HIDE DEF R
  <2>4. PICK v \in S : \A x \in S : <<x, v>> \notin R
    BY <2>2, <2>3, FirstElement
  <2> QED BY <2>1, <2>4
<1> QED BY <1>1, <1>2 DEF Lowest, Highest

-----------------------------------------------------------------------------
(* What truncated statistics still say *)

\* The first n characters of s are a beginning of t.
Begins(s, t, n) == n <= Len(s) /\ n <= Len(t) /\ \A i \in 1..n : s[i] = t[i]

\* The first characters of a string
LEMMA FirstCharsIs ==
  ASSUME NEW s, s \in Seq(Nat), NEW n \in Nat
  PROVE  /\ FirstChars(s, n) \in Seq(Nat)
         /\ Len(FirstChars(s, n)) = IF Len(s) <= n THEN Len(s) ELSE n
         /\ \A i \in 1..Len(FirstChars(s, n)) : FirstChars(s, n)[i] = s[i]
<1>1. Len(s) \in Nat
  OBVIOUS
<1>2. CASE Len(s) <= n
  BY <1>2 DEF FirstChars
<1>3. CASE ~(Len(s) <= n)
  <2>1. /\ SubSeq(s, 1, n) \in Seq(Nat) /\ Len(SubSeq(s, 1, n)) = n
        /\ \A i \in 1..n : SubSeq(s, 1, n)[i] = s[i]
    BY <1>1, <1>3
  <2> QED BY <1>3, <2>1 DEF FirstChars
<1> QED BY <1>2, <1>3

\* A key below a truncated minimum is below the minimum.
LEMMA MinimumIsSafe ==
  ASSUME NEW s \in Strings, NEW lo \in Strings, NEW w \in Nat, IsBelow(s, FirstChars(lo, w))
  PROVE  IsBelow(s, lo)
<1>1. /\ lo \in Seq(Nat) /\ Len(lo) \in Nat /\ Len(s) \in Nat
  <2>1. \A i \in 1..Len(lo) : lo[i] \in Nat
    BY StringIs
  <2>2. lo \in Seq(Chars) /\ Chars \subseteq Nat
    BY StringIs, KeyLookupAssumption
  <2> QED BY <2>2, StringIs
<1> DEFINE p == FirstChars(lo, w)
<1>2. /\ Len(p) = IF Len(lo) <= w THEN Len(lo) ELSE w
      /\ \A i \in 1..Len(p) : p[i] = lo[i]
  BY <1>1, FirstCharsIs
<1>3. IsBelow(s, p)
  OBVIOUS
<1> HIDE DEF p
<1>4. Len(p) \in Nat /\ Len(p) <= Len(lo)
  BY <1>1, <1>2
<1>5. CASE Len(s) < Len(p) /\ \A i \in 1..Len(s) : s[i] = p[i]
  BY <1>1, <1>2, <1>4, <1>5 DEF IsBelow
<1>6. CASE \E i \in 1..Len(s) : /\ i <= Len(p) /\ s[i] < p[i]
                                /\ \A j \in 1..(i - 1) : s[j] = p[j]
  <2>1. PICK i \in 1..Len(s) : i <= Len(p) /\ s[i] < p[i] /\ \A j \in 1..(i - 1) : s[j] = p[j]
    BY <1>6
  <2>2. i <= Len(lo) /\ s[i] < lo[i] /\ \A j \in 1..(i - 1) : s[j] = lo[j]
    BY <1>1, <1>2, <1>4, <2>1
  <2> QED BY <2>2 DEF IsBelow
<1> QED BY <1>3, <1>5, <1>6 DEF IsBelow

\* A key that is not above the maximum, but above a text that begins like it,
\* begins so as well.
LEMMA BeginsLikeMaximum ==
  ASSUME NEW s \in Strings, NEW hi \in Strings, ~IsBelow(hi, s),
         NEW max, max \in Seq(Nat), NEW n \in Nat, n <= Len(max), n <= Len(hi), Len(max) <= n + 1,
         \A i \in 1..n : max[i] = hi[i], IsBelow(max, s)
  PROVE  n <= Len(s) /\ \A i \in 1..n : s[i] = max[i]
<1>1. /\ Len(hi) \in Nat /\ Len(s) \in Nat /\ Len(max) \in Nat
      /\ \A i \in 1..Len(s) : s[i] \in Nat
      /\ \A i \in 1..Len(hi) : hi[i] \in Nat
  BY StringIs
<1>2. CASE Len(max) < Len(s) /\ \A i \in 1..Len(max) : max[i] = s[i]
  BY <1>1, <1>2
<1>3. CASE \E i \in 1..Len(max) : /\ i <= Len(s) /\ max[i] < s[i]
                                  /\ \A j \in 1..(i - 1) : max[j] = s[j]
  <2>1. PICK i \in 1..Len(max) : i <= Len(s) /\ max[i] < s[i] /\ \A j \in 1..(i - 1) : max[j] = s[j]
    BY <1>3
  <2>2. CASE i <= n
    <3>1. i \in 1..Len(hi) /\ i <= Len(s) /\ hi[i] < s[i] /\ \A j \in 1..(i - 1) : hi[j] = s[j]
      BY <1>1, <2>1, <2>2
    <3> QED BY <3>1 DEF IsBelow
  <2>3. CASE ~(i <= n)
    BY <1>1, <2>1, <2>3
  <2> QED BY <2>2, <2>3
<1> QED BY <1>2, <1>3 DEF IsBelow

\* What a truncated maximum is
LEMMA MaximumIs ==
  ASSUME NEW hi \in Strings, NEW w \in Nat, NEW max \in TruncatedMaxima(hi, w)
  PROVE  \/ max = hi
         \/ \E n \in Nat : /\ w <= n /\ n <= Len(hi) /\ max \in Seq(Nat)
                           /\ n <= Len(max) /\ Len(max) <= n + 1
                           /\ \A i \in 1..n : max[i] = hi[i]
<1>1. /\ hi \in Seq(Nat) /\ Len(hi) \in Nat
  <2>1. hi \in Seq(Chars) /\ Chars \subseteq Nat
    BY StringIs, KeyLookupAssumption
  <2> QED BY <2>1, StringIs
<1>2. CASE Len(hi) <= w
  BY <1>2 DEF TruncatedMaxima
<1>3. CASE ~(Len(hi) <= w)
  <2>1. CASE max = SubSeq(hi, 1, w)
    <3>1. /\ SubSeq(hi, 1, w) \in Seq(Nat) /\ Len(SubSeq(hi, 1, w)) = w
          /\ \A i \in 1..w : SubSeq(hi, 1, w)[i] = hi[i]
      BY <1>1, <1>3
    <3>2. w <= w /\ w <= Len(hi) /\ w <= w + 1
      BY <1>1, <1>3
    <3> QED BY <2>1, <3>1, <3>2
  <2>2. ASSUME NEW n \in w..Len(hi), max = Append(SubSeq(hi, 1, n), Tie)
        PROVE  /\ n \in Nat /\ w <= n /\ n <= Len(hi) /\ max \in Seq(Nat)
               /\ n <= Len(max) /\ Len(max) <= n + 1
               /\ \A i \in 1..n : max[i] = hi[i]
    <3>1. n \in Nat /\ w <= n /\ n <= Len(hi)
      BY <1>1
    <3> DEFINE p == SubSeq(hi, 1, n)
    <3>2. p \in Seq(Nat) /\ Len(p) = n /\ \A i \in 1..n : p[i] = hi[i]
      BY <1>1, <3>1
    <3>3. max = Append(p, Tie) /\ Tie \in Nat
      BY <2>2, KeyLookupAssumption
    <3> HIDE DEF p
    <3>4. max \in Seq(Nat) /\ Len(max) = n + 1 /\ \A i \in 1..n : max[i] = p[i]
      BY <3>1, <3>2, <3>3
    <3> QED BY <3>1, <3>2, <3>4
  <2>3. max = SubSeq(hi, 1, w) \/ \E n \in w..Len(hi) : max = Append(SubSeq(hi, 1, n), Tie)
    BY <1>3 DEF TruncatedMaxima
  <2> QED BY <2>1, <2>2, <2>3
<1> QED BY <1>2, <1>3

\* A key above a truncated maximum that does not begin like it is above the
\* maximum.
LEMMA MaximumIsSafe ==
  ASSUME NEW s \in Strings, NEW hi \in Strings, NEW w \in Nat, w >= Prefix,
         NEW max \in TruncatedMaxima(hi, w), IsBelow(max, s),
         Len(max) < Prefix \/ ~StartsWith(s, FirstChars(max, Prefix))
  PROVE  IsBelow(hi, s)
<1> SUFFICES ASSUME ~IsBelow(hi, s) PROVE FALSE
  OBVIOUS
<1>1. PICK n \in Nat : /\ w <= n /\ n <= Len(hi) /\ max \in Seq(Nat)
                       /\ n <= Len(max) /\ Len(max) <= n + 1
                       /\ \A i \in 1..n : max[i] = hi[i]
  BY MaximumIs
<1>2. n <= Len(s) /\ \A i \in 1..n : s[i] = max[i]
  BY <1>1, BeginsLikeMaximum
<1>3. Prefix \in Nat /\ Len(max) \in Nat /\ Len(s) \in Nat /\ Prefix <= n
  BY <1>1, StringIs, KeyLookupAssumption
<1> DEFINE p == FirstChars(max, Prefix)
<1>4. /\ Len(p) = IF Len(max) <= Prefix THEN Len(max) ELSE Prefix
      /\ \A i \in 1..Len(p) : p[i] = max[i]
  BY <1>1, <1>3, FirstCharsIs
<1>5. ~(Len(max) < Prefix)
  BY <1>1, <1>3
<1>6. ~StartsWith(s, p)
  BY <1>5
<1> HIDE DEF p
<1>7. Len(p) \in Nat /\ Len(p) <= n
  BY <1>1, <1>3, <1>4, <1>5
<1>8. StartsWith(s, p)
  BY <1>1, <1>2, <1>3, <1>4, <1>7 DEF StartsWith
<1> QED BY <1>6, <1>8

\* What the lookup knows: the file, statistics of it that a writer may write,
\* and what was found.
KlInv ==
  /\ kind \in {"string", "number", "other"}
  /\ DOMAIN chunks = 1..2
  /\ chunks[1] \in Seq(Optional(ValuesOf(kind))) /\ chunks[2] \in Seq(Optional(ValuesOf(kind)))
  /\ stats \in StatsOf(kind, Rows)
  /\ look \in {"stats", "read", "found", "removed", "failed"}
  /\ found \in SUBSET (1..Len(Rows))
  /\ look \in {"stats", "read"} => found = {}
  /\ KeyRowsAreFound

\* The rows of the file are those of its chunks.
LEMMA RowsAre ==
  ASSUME KlInv
  PROVE  /\ Rows \in Seq(Optional(ValuesOf(kind))) /\ Len(Rows) = Len(chunks[1]) + Len(chunks[2])
         /\ Len(Rows) \in Nat /\ DOMAIN Rows = 1..Len(Rows)
         /\ Len(chunks[1]) \in Nat /\ Len(chunks[2]) \in Nat
         /\ DOMAIN chunks[1] = 1..Len(chunks[1]) /\ DOMAIN chunks[2] = 1..Len(chunks[2])
         /\ \A i \in 1..Len(chunks[1]) : Rows[i] = chunks[1][i]
         /\ \A i \in 1..Len(chunks[2]) : Rows[Len(chunks[1]) + i] = chunks[2][i]
<1> DEFINE a == chunks[1]
           b == chunks[2]
           c == a \o b
           X == Optional(ValuesOf(kind))
<1>1. a \in Seq(X) /\ b \in Seq(X)
  BY DEF KlInv
<1> HIDE DEF a, b, X
<1>2. /\ c \in Seq(X) /\ Len(c) = Len(a) + Len(b)
      /\ Len(a) \in Nat /\ Len(b) \in Nat /\ Len(c) \in Nat
      /\ DOMAIN a = 1..Len(a) /\ DOMAIN b = 1..Len(b) /\ DOMAIN c = 1..Len(c)
      /\ \A i \in 1..Len(a) : c[i] = a[i]
      /\ \A i \in 1..Len(b) : c[Len(a) + i] = b[i]
  BY <1>1
<1>3. Rows = c
  BY DEF Rows, a, b
<1> HIDE DEF c
<1> QED BY <1>2, <1>3 DEF a, b, X

\* Its values are finitely many.
LEMMA PresentIs ==
  ASSUME NEW V, NEW file \in Seq(Optional(V))
  PROVE  /\ Present(file) \in SUBSET V /\ IsFiniteSet(Present(file))
         /\ \A i \in 1..Len(file) : \A v \in file[i] : v \in Present(file) /\ file[i] = {v}
         /\ \A v \in Present(file) : \E i \in 1..Len(file) : file[i] = {v}
<1>1. /\ Len(file) \in Nat /\ DOMAIN file = 1..Len(file)
      /\ \A i \in 1..Len(file) : file[i] = {} \/ \E v \in V : file[i] = {v}
  BY DEF Optional
<1> DEFINE T == {file[i] : i \in DOMAIN file}
           f == [i \in DOMAIN file |-> file[i]]
<1>2. IsFiniteSet(T)
  <2>1. f \in Surjection(DOMAIN file, T)
    BY DEF Surjection
  <2>2. IsFiniteSet(DOMAIN file)
    <3>1. 1 \in Int /\ Len(file) \in Int
      BY <1>1
    <3>2. IsFiniteSet(1..Len(file))
      BY ONLY <3>1, FS_Interval
    <3> QED BY <1>1, <3>2
  <2> HIDE DEF T, f
  <2> QED BY <2>1, <2>2, FS_Surjection
<1>3. \A t \in T : IsFiniteSet(t)
  <2>1. \A t \in T : t = {} \/ \E v \in V : t = {v}
    BY <1>1
  <2>2. \A v : IsFiniteSet({v})
    BY FS_Singleton
  <2>3. IsFiniteSet({})
    BY FS_EmptySet
  <2> HIDE DEF T
  <2> TAKE t \in T
  <2>4. CASE t = {}
    BY <2>3, <2>4
  <2>5. CASE \E v \in V : t = {v}
    BY <2>2, <2>5
  <2> QED BY <2>1, <2>4, <2>5
<1>4. IsFiniteSet(Present(file))
  BY <1>2, <1>3, FS_UNION DEF Present
<1>5. Present(file) \in SUBSET V
  BY <1>1 DEF Present
<1>6. \A i \in 1..Len(file) : \A v \in file[i] : v \in Present(file) /\ file[i] = {v}
  BY <1>1 DEF Present
<1>7. \A v \in Present(file) : \E i \in 1..Len(file) : file[i] = {v}
  BY <1>1 DEF Present
<1> QED BY <1>4, <1>5, <1>6, <1>7

\* The smallest and the largest value of a file, as a writer may write them
Minima(k, S, w) == IF k = "string" THEN {FirstChars(Lowest(k, S), w)} ELSE {Lowest(k, S)}
Maxima(k, S, w) == IF k = "string" THEN TruncatedMaxima(Highest(k, S), w) ELSE {Highest(k, S)}

\* What statistics may say of a file, unless an explicit null is among them
LEMMA StatsAre ==
  ASSUME ~NullStats, NEW k, NEW file, NEW st \in StatsOf(k, file)
  PROVE  /\ st.records \in {-1, Len(file)}
         /\ \/ st.min = {} /\ st.max = {}
            \/ /\ Present(file) # {}
               /\ \E w \in WriterPrefixes : \E a \in Minima(k, Present(file), w) :
                    \E b \in Maxima(k, Present(file), w) : st.min = {a} /\ st.max = {b}
<1> DEFINE S == Present(file)
           minima(w) == IF k = "string" THEN {FirstChars(Lowest(k, S), w)} ELSE {Lowest(k, S)}
           maxima(w) == IF k = "string" THEN TruncatedMaxima(Highest(k, S), w) ELSE {Highest(k, S)}
           None == {[name |-> n, min |-> {}, max |-> {}, records |-> r] : n \in Names, r \in {-1, Len(file)}}
           Of(w) == {[name |-> n, min |-> {a}, max |-> {b}, records |-> r] :
                          n \in Names \ {"missing"}, a \in minima(w), b \in maxima(w),
                          r \in {-1, Len(file)}}
<1>1. \A w : Minima(k, S, w) = minima(w) /\ Maxima(k, S, w) = maxima(w)
  BY DEF Minima, Maxima
<1>2. st \in None \/ (S # {} /\ \E w \in WriterPrefixes : st \in Of(w))
  <2>1. StatsOf(k, file) =
          None \cup (IF S = {} THEN IF NullStats /\ k = "string"
                                   THEN {[name |-> "same", min |-> {<<>>}, max |-> {<<>>}, records |-> Len(file)]}
                                   ELSE {}
                     ELSE UNION {Of(w) : w \in WriterPrefixes})
    BY DEF StatsOf
  <2> HIDE DEF None, Of, S
  <2>2. CASE S = {}
    BY <2>1, <2>2
  <2>3. CASE S # {}
    BY <2>1, <2>3
  <2> QED BY <2>2, <2>3
<1> HIDE DEF S, minima, maxima
<1>3. CASE st \in None
  BY <1>3
<1>4. ASSUME NEW w \in WriterPrefixes, st \in Of(w), S # {}
      PROVE  /\ st.records \in {-1, Len(file)}
             /\ \E a \in minima(w) : \E b \in maxima(w) : st.min = {a} /\ st.max = {b}
  BY <1>4
<1>5. CASE S # {} /\ \E w \in WriterPrefixes : st \in Of(w)
  <2>1. PICK w \in WriterPrefixes : st \in Of(w)
    BY <1>5
  <2> HIDE DEF Of
  <2>2. /\ st.records \in {-1, Len(file)}
        /\ \E a \in minima(w) : \E b \in maxima(w) : st.min = {a} /\ st.max = {b}
    BY <1>4, <1>5, <2>1
  <2> QED BY <1>1, <1>5, <2>2 DEF S
<1> HIDE DEF None, Of
<1> QED BY <1>2, <1>3, <1>5

\* What is known of statistics that say something
LEMMA BoundsAre ==
  ASSUME ~NullStats, KlInv, stats.min # {} /\ stats.max # {}
  PROVE  \E w \in WriterPrefixes : \E lo, hi \in Present(Rows) :
           LET min == CHOOSE v \in stats.min : TRUE
               max == CHOOSE v \in stats.max : TRUE
           IN /\ w \in Nat /\ w >= Prefix
              /\ \A x \in Present(Rows) : NotAbove(kind, lo, x) /\ NotAbove(kind, x, hi)
              /\ lo \in ValuesOf(kind) /\ hi \in ValuesOf(kind)
              /\ kind = "string" => min = FirstChars(lo, w) /\ max \in TruncatedMaxima(hi, w)
              /\ kind # "string" => min = lo /\ max = hi
<1> DEFINE S == Present(Rows)
<1>1. S \in SUBSET ValuesOf(kind) /\ IsFiniteSet(S)
  <2>1. Rows \in Seq(Optional(ValuesOf(kind)))
    BY RowsAre
  <2> QED BY <2>1, PresentIs
<1>2. /\ S # {}
      /\ \E w \in WriterPrefixes : \E a \in Minima(kind, S, w) :
                    \E b \in Maxima(kind, S, w) : stats.min = {a} /\ stats.max = {b}
  <2>1. stats \in StatsOf(kind, Rows)
    BY DEF KlInv
  <2> QED BY <2>1, StatsAre
<1> HIDE DEF S
<1>3. PICK w \in WriterPrefixes : \E a \in Minima(kind, S, w) :
                    \E b \in Maxima(kind, S, w) : stats.min = {a} /\ stats.max = {b}
  BY <1>2
<1>4. PICK a \in Minima(kind, S, w) : \E b \in Maxima(kind, S, w) : stats.min = {a} /\ stats.max = {b}
  BY <1>3
<1>5. PICK b \in Maxima(kind, S, w) : stats.min = {a} /\ stats.max = {b}
  BY <1>4
<1>6. (CHOOSE v \in stats.min : TRUE) = a /\ (CHOOSE v \in stats.max : TRUE) = b
  BY <1>5
<1> DEFINE lo == Lowest(kind, S)
           hi == Highest(kind, S)
<1>7. lo \in S /\ hi \in S /\ \A x \in S : NotAbove(kind, lo, x) /\ NotAbove(kind, x, hi)
  BY <1>1, <1>2, LowestAndHighest
<1>8. /\ kind = "string" => a = FirstChars(lo, w) /\ b \in TruncatedMaxima(hi, w)
      /\ kind # "string" => a = lo /\ b = hi
  BY DEF Minima, Maxima
<1>9. w \in Nat /\ w >= Prefix
  BY KeyLookupAssumption
<1> HIDE DEF lo, hi
<1>10. lo \in ValuesOf(kind) /\ hi \in ValuesOf(kind)
  BY <1>1, <1>7
<1> QED BY <1>6, <1>7, <1>8, <1>9, <1>10 DEF S

\* Statistics that exclude the key are right.
LEMMA NoneIsRight ==
  ASSUME ~NullStats, KlInv, Classify = "None"
  PROVE  \A i \in 1..Len(Rows) : Rows[i] # {key}
<1> SUFFICES ASSUME NEW i \in 1..Len(Rows), Rows[i] = {key} PROVE FALSE
  OBVIOUS
<1>1. Rows \in Seq(Optional(ValuesOf(kind))) /\ Len(Rows) \in Nat
  BY RowsAre
<1>2. key \in Present(Rows) /\ key \in ValuesOf(kind)
  BY <1>1, PresentIs
<1>3. Len(Rows) # 0 /\ -1 # 0
  BY <1>1
<1>4. Valid /\ stats.records # 0
  <2>1. stats \in StatsOf(kind, Rows)
    BY DEF KlInv
  <2>2. stats.records \in {-1, Len(Rows)}
    BY <2>1, StatsAre
  <2> QED BY <1>2, <1>3, <2>2 DEF Valid
<1> DEFINE min == CHOOSE v \in stats.min : TRUE
           max == CHOOSE v \in stats.max : TRUE
<1>5. /\ stats.min # {} /\ stats.max # {}
      /\ IF kind = "string" THEN MatchString(min, max, stats.records) = "None"
         ELSE MatchNumber(min, max, stats.records) = "None"
  BY <1>4 DEF Classify
<1>6. PICK w \in WriterPrefixes : \E lo, hi \in Present(Rows) :
              /\ w \in Nat /\ w >= Prefix
              /\ \A x \in Present(Rows) : NotAbove(kind, lo, x) /\ NotAbove(kind, x, hi)
              /\ lo \in ValuesOf(kind) /\ hi \in ValuesOf(kind)
              /\ kind = "string" => min = FirstChars(lo, w) /\ max \in TruncatedMaxima(hi, w)
              /\ kind # "string" => min = lo /\ max = hi
  BY <1>5, BoundsAre
<1> HIDE DEF min, max
<1>7. PICK lo, hi \in Present(Rows) :
              /\ w \in Nat /\ w >= Prefix
              /\ \A x \in Present(Rows) : NotAbove(kind, lo, x) /\ NotAbove(kind, x, hi)
              /\ lo \in ValuesOf(kind) /\ hi \in ValuesOf(kind)
              /\ kind = "string" => min = FirstChars(lo, w) /\ max \in TruncatedMaxima(hi, w)
              /\ kind # "string" => min = lo /\ max = hi
  BY <1>6
<1>8. NotAbove(kind, lo, key) /\ NotAbove(kind, key, hi)
  BY <1>2, <1>7
<1>9. CASE kind = "string"
  <2>1. key \in Strings /\ lo \in Strings /\ hi \in Strings
    BY <1>2, <1>7, <1>9 DEF ValuesOf
  <2>2. ~IsBelow(key, lo) /\ ~IsBelow(hi, key)
    BY <1>8, <1>9 DEF NotAbove
  <2>3. \/ IsBelow(key, min)
        \/ IsBelow(max, key) /\ (Len(max) < Prefix \/ ~StartsWith(key, FirstChars(max, Prefix)))
    BY <1>5, <1>9 DEF MatchString
  <2>4. ~IsBelow(key, min)
    BY <1>7, <1>9, <2>1, <2>2, MinimumIsSafe
  <2> QED BY <1>7, <1>9, <2>1, <2>2, <2>3, <2>4, MaximumIsSafe
<1>10. CASE kind # "string"
  <2>1. key \in Int /\ lo \in Int /\ hi \in Int
    BY <1>2, <1>7, <1>10, KeyLookupAssumption DEF ValuesOf
  <2>2. lo <= key /\ key <= hi
    BY <1>8, <1>10 DEF NotAbove
  <2>3. key < min \/ key > max
    BY <1>5, <1>10 DEF MatchNumber
  <2> QED BY <1>7, <1>10, <2>1, <2>2, <2>3
<1> QED BY <1>9, <1>10

\* Statistics that prove that the file is the key's are right.
LEMMA ExactIsRight ==
  ASSUME ~NullStats, KlInv, Classify = "Exact"
  PROVE  \A i \in 1..Len(Rows) : Rows[i] = {key}
<1>1. Rows \in Seq(Optional(ValuesOf(kind))) /\ Len(Rows) \in Nat
  BY RowsAre
<1> DEFINE min == CHOOSE v \in stats.min : TRUE
           max == CHOOSE v \in stats.max : TRUE
<1>5. /\ stats.min # {} /\ stats.max # {}
      /\ IF kind = "string" THEN MatchString(min, max, stats.records) = "Exact"
         ELSE MatchNumber(min, max, stats.records) = "Exact"
  BY DEF Classify
<1>6. PICK w \in WriterPrefixes : \E lo, hi \in Present(Rows) :
              /\ w \in Nat /\ w >= Prefix
              /\ \A x \in Present(Rows) : NotAbove(kind, lo, x) /\ NotAbove(kind, x, hi)
              /\ lo \in ValuesOf(kind) /\ hi \in ValuesOf(kind)
              /\ kind = "string" => min = FirstChars(lo, w) /\ max \in TruncatedMaxima(hi, w)
              /\ kind # "string" => min = lo /\ max = hi
  BY <1>5, BoundsAre
<1> HIDE DEF min, max
<1>7. PICK lo, hi \in Present(Rows) :
              /\ w \in Nat /\ w >= Prefix
              /\ lo \in ValuesOf(kind)
              /\ kind = "string" => min = FirstChars(lo, w)
              /\ kind # "string" => min = lo
  BY <1>6
<1>8. stats.records = 1 /\ min = key /\ (kind = "string" => Len(key) < Prefix)
  BY <1>5 DEF MatchString, MatchNumber
<1>9. Len(Rows) = 1
  <2>1. stats \in StatsOf(kind, Rows)
    BY DEF KlInv
  <2>2. stats.records \in {-1, Len(Rows)}
    BY <2>1, StatsAre
  <2> QED BY <1>8, <2>2
<1>10. Rows[1] = {lo}
  <2>1. PICK i \in 1..Len(Rows) : Rows[i] = {lo}
    BY <1>1, PresentIs
  <2> QED BY <1>9, <2>1
<1>11. lo = key
  <2>1. CASE kind = "string"
    <3>1. lo \in Seq(Chars) /\ Chars \subseteq Nat /\ lo \in Strings
      BY <1>7, <2>1, StringIs, KeyLookupAssumption DEF ValuesOf
    <3>2. lo \in Seq(Nat) /\ Len(lo) \in Nat
      BY <3>1, StringIs
    <3>3. Len(FirstChars(lo, w)) = IF Len(lo) <= w THEN Len(lo) ELSE w
      BY <1>7, <3>2, FirstCharsIs
    <3>4. Len(lo) <= w
      BY <1>7, <1>8, <2>1, <3>2, <3>3, KeyLookupAssumption
    <3> QED BY <1>7, <1>8, <2>1, <3>4 DEF FirstChars
  <2> QED BY <1>7, <1>8, <2>1
<1> QED BY <1>9, <1>10, <1>11

\* The file that are found in the file's two chunks
LEMMA RowsOfIs ==
  ASSUME KlInv
  PROVE  RowsOf = {i \in 1..Len(Rows) : Rows[i] = {key}}
<1> DEFINE m == Len(chunks[1])
           n == Len(chunks[2])
<1>1. /\ Len(Rows) = m + n /\ m \in Nat /\ n \in Nat
      /\ DOMAIN chunks[1] = 1..m /\ DOMAIN chunks[2] = 1..n
      /\ \A i \in 1..m : Rows[i] = chunks[1][i]
      /\ \A i \in 1..n : Rows[m + i] = chunks[2][i]
  BY RowsAre
<1>2. RowsOf = {i \in 1..m : chunks[1][i] = {key}} \cup {m + i : i \in {j \in 1..n : chunks[2][j] = {key}}}
  BY <1>1 DEF RowsOf, Matches
<1> HIDE DEF m, n
<1>3. ASSUME NEW x \in RowsOf PROVE x \in 1..Len(Rows) /\ Rows[x] = {key}
  <2>1. CASE x \in {i \in 1..m : chunks[1][i] = {key}}
    BY <1>1, <2>1
  <2>2. CASE x \in {m + i : i \in {j \in 1..n : chunks[2][j] = {key}}}
    <3>1. PICK j \in 1..n : x = m + j /\ chunks[2][j] = {key}
      BY <2>2
    <3>2. m + j \in 1..Len(Rows) /\ Rows[m + j] = chunks[2][j]
      BY <1>1
    <3> QED BY <3>1, <3>2
  <2> QED BY <1>2, <2>1, <2>2
<1>4. ASSUME NEW x \in 1..Len(Rows), Rows[x] = {key} PROVE x \in RowsOf
  <2>1. CASE x <= m
    BY <1>1, <1>2, <1>4, <2>1
  <2>2. CASE ~(x <= m)
    <3> DEFINE j == x - m
    <3>1. j \in 1..n /\ x = m + j
      BY <1>1, <2>2
    <3> HIDE DEF j
    <3>2. chunks[2][j] = {key}
      BY <1>1, <1>4, <3>1
    <3> QED BY <1>2, <3>1, <3>2
  <2> QED BY <2>1, <2>2
<1> QED BY <1>3, <1>4

\* A set of naturals that is not empty has a least element.
LEMMA LeastNat ==
  ASSUME NEW S \in SUBSET Nat, S # {}
  PROVE  \E n \in S : \A k \in S : n <= k
<1>1. PICK n \in S : \A k \in S : ~(<<k, n>> \in OpToRel(<, Nat))
  BY NatLessThanWellFounded, WFMin
<1>2. \A k \in S : ~(k < n)
  BY <1>1 DEF OpToRel
<1> QED BY <1>2

\* A finite set of naturals can be listed in ascending order.
LEMMA AscendingExists ==
  ASSUME NEW S \in SUBSET Nat, IsFiniteSet(S)
  PROVE  \E f \in [1..Cardinality(S) -> S] :
           \A i, j \in 1..Cardinality(S) : i < j => f[i] < f[j]
<1> DEFINE Listed(T, f) == /\ f \in [1..Cardinality(T) -> T]
                           /\ \A i, j \in 1..Cardinality(T) : i < j => f[i] < f[j]
           Bad == {n \in Nat : \E T \in SUBSET Nat :
                      IsFiniteSet(T) /\ Cardinality(T) = n /\ ~\E f : Listed(T, f)}
<1>1. Cardinality(S) \in Nat
  BY FS_CardinalityType
<1>2. SUFFICES ASSUME Bad # {} PROVE FALSE
  BY <1>1
<1>3. PICK n \in Bad : \A k \in Bad : n <= k
  BY <1>2, LeastNat
<1>4. PICK T \in SUBSET Nat : IsFiniteSet(T) /\ Cardinality(T) = n /\ ~\E f : Listed(T, f)
  BY <1>3
<1>n. n \in Nat
  OBVIOUS
<1>5. T # {}
  <2>1. SUFFICES ASSUME T = {} PROVE FALSE
    OBVIOUS
  <2>2. Cardinality(T) = 0
    BY <2>1, FS_EmptySet
  <2>3. [i \in 1..0 |-> 0] \in [1..0 -> T]
    BY <2>1
  <2>4. Listed(T, [i \in 1..0 |-> 0])
    BY <2>2, <2>3
  <2> QED BY <1>4, <2>4
<1>6. PICK m \in T : \A k \in T : m <= k
  BY <1>5, LeastNat
<1> DEFINE U == T \ {m}
<1>7. IsFiniteSet(U) /\ Cardinality(U) = n - 1 /\ n >= 1 /\ U \in SUBSET Nat
  <2>1. IsFiniteSet(U) /\ Cardinality(U) = Cardinality(T) - 1
    BY <1>4, <1>6, FS_RemoveElement
  <2>2. Cardinality(U) \in Nat
    BY <2>1, FS_CardinalityType
  <2> QED BY <1>4, <1>n, <2>1, <2>2
<1>8. PICK g : Listed(U, g)
  <2>1. n - 1 \in Nat /\ ~(n - 1 \in Bad)
    BY <1>3, <1>7, <1>n
  <2> QED BY <1>7, <2>1
<1> DEFINE f == [i \in 1..n |-> IF i = 1 THEN m ELSE g[i - 1]]
<1>9. \A i \in 1..n : i # 1 => i - 1 \in 1..(n - 1) /\ g[i - 1] \in U
  <2>1. g \in [1..(n - 1) -> U]
    BY <1>7, <1>8
  <2> HIDE DEF U
  <2>2. \A i \in 1..n : i # 1 => i - 1 \in 1..(n - 1)
    BY <1>n
  <2> QED BY <2>1, <2>2
<1>10. f \in [1..n -> T]
  BY <1>6, <1>9
<1>11. \A i, j \in 1..n : i < j => f[i] < f[j]
  <2> TAKE i, j \in 1..n
  <2> HAVE i < j
  <2>1. j # 1 /\ f[j] = g[j - 1] /\ j - 1 \in 1..(n - 1) /\ g[j - 1] \in U
    BY <1>9
  <2>2. CASE i = 1
    <3>1. f[i] = m
      BY <2>2
    <3>2. g[j - 1] \in T /\ g[j - 1] # m /\ g[j - 1] \in Nat /\ m \in Nat
      BY <1>4, <1>6, <2>1
    <3>3. m <= g[j - 1]
      BY <1>6, <3>2
    <3> HIDE DEF f
    <3> QED BY <2>1, <3>1, <3>2, <3>3
  <2>3. CASE i # 1
    <3>1. f[i] = g[i - 1] /\ i - 1 \in 1..(n - 1) /\ i - 1 < j - 1
      BY <1>9, <2>3
    <3> QED BY <1>7, <1>8, <2>1, <3>1
  <2> QED BY <2>2, <2>3
<1>12. Listed(T, f)
  BY <1>4, <1>10, <1>11
<1> QED BY <1>4, <1>12

\* In that order it has all elements.
LEMMA AscendingIsOnto ==
  ASSUME NEW S \in SUBSET Nat, IsFiniteSet(S), NEW f \in [1..Cardinality(S) -> S],
         \A i, j \in 1..Cardinality(S) : i < j => f[i] < f[j]
  PROVE  {f[i] : i \in 1..Cardinality(S)} = S
<1> DEFINE n == Cardinality(S)
<1>1. n \in Nat
  BY FS_CardinalityType
<1>2. \A i, j \in 1..n : i # j => f[i] # f[j]
  <2>1. \A i \in 1..n : f[i] \in Nat
    OBVIOUS
  <2>2. \A i, j \in 1..n : i < j => f[i] < f[j]
    OBVIOUS
  <2> HIDE DEF n
  <2>3. \A i, j \in 1..n : i # j => i < j \/ j < i
    BY <1>1
  <2> QED BY <2>1, <2>2, <2>3
<1>3. f \in Injection(1..n, S)
  BY <1>2 DEF Injection, IsInjective
<1>4. IsFiniteSet(1..n) /\ Cardinality(1..n) = n
  BY <1>1, FS_Interval
<1> HIDE DEF n
<1>5. f \in Surjection(1..n, S)
  BY <1>3, <1>4, FS_Injection DEF n
<1> QED BY <1>5 DEF Surjection, n

\* remove_key_rows puts the other rows into the new file.
LEMMA RowsRemain ==
  ASSUME KlInv, ReplaceFile
  PROVE  OtherRowsRemain'
<1> DEFINE S == (1..Len(Rows)) \ found
           n == Cardinality(S)
           f == OtherRows
<1>1. /\ look = "found" /\ rest' = [i \in DOMAIN f |-> Rows[f[i]]]
      /\ UNCHANGED <<chunks, key>>
  BY DEF ReplaceFile
<1>2. Len(Rows) \in Nat
  BY RowsAre
<1>3. S = {i \in 1..Len(Rows) : Rows[i] # {key}}
  BY <1>1 DEF KlInv, KeyRowsAreFound
<1>4. S \in SUBSET Nat /\ IsFiniteSet(S)
  <2>1. IsFiniteSet(1..Len(Rows))
    BY <1>2, FS_Interval
  <2>2. S \subseteq 1..Len(Rows) /\ S \in SUBSET Nat
    BY <1>2
  <2> HIDE DEF S
  <2> QED BY <2>1, <2>2, FS_Subset
<1>5. f = CHOOSE g \in [1..n -> S] : \A i, j \in DOMAIN g : i < j => g[i] < g[j]
  BY DEF OtherRows
<1>r. Rows' = Rows
  BY <1>1 DEF Rows
<1>s. S \subseteq 1..Len(Rows)
  OBVIOUS
<1> HIDE DEF S, f
<1>6. \E g \in [1..n -> S] : \A i, j \in DOMAIN g : i < j => g[i] < g[j]
  <2>1. PICK g \in [1..n -> S] : \A i, j \in 1..n : i < j => g[i] < g[j]
    BY <1>4, AscendingExists
  <2> QED BY <2>1
<1>7. f \in [1..n -> S] /\ \A i, j \in 1..n : i < j => f[i] < f[j]
  <2> DEFINE P(g) == \A i, j \in DOMAIN g : i < j => g[i] < g[j]
  <2>1. f = CHOOSE g \in [1..n -> S] : P(g)
    BY <1>5
  <2>2. \E g \in [1..n -> S] : P(g)
    BY <1>6
  <2> HIDE DEF P
  <2>3. f \in [1..n -> S] /\ P(f)
    BY <2>1, <2>2
  <2> QED BY <2>3 DEF P
<1>8. {f[i] : i \in 1..n} = S
  BY <1>4, <1>7, AscendingIsOnto
<1> HIDE DEF n
<1>9. DOMAIN rest' = 1..n /\ \A i \in 1..n : rest'[i] = Rows[f[i]]
  BY <1>1, <1>7
<1>10. f \in [1..n -> 1..Len(Rows)]
  BY <1>7, <1>s
<1> QED BY <1>1, <1>3, <1>7, <1>8, <1>9, <1>10, <1>r DEF OtherRowsRemain

\* KlInv holds at the beginning and in every step.
LEMMA KlStarts == KlInit => KlInv
<1> SUFFICES ASSUME KlInit PROVE KlInv
  OBVIOUS
<1>1. /\ kind \in {"string", "number", "other"} /\ stats \in StatsOf(kind, Rows)
      /\ look = "stats" /\ found = {}
  BY DEF KlInit
<1>2. PICK first, second \in Chunks(kind) : chunks = <<first, second>>
  BY DEF KlInit
<1>3. \A c \in Chunks(kind) : c \in Seq(Optional(ValuesOf(kind)))
  <2> TAKE c \in Chunks(kind)
  <2>1. PICK n \in 0..MaxRows : c \in [1..n -> Optional(ValuesOf(kind))]
    BY DEF Chunks
  <2>2. n \in Nat
    BY KeyLookupAssumption
  <2> QED BY <2>1, <2>2
<1>4. DOMAIN chunks = 1..2 /\ chunks[1] = first /\ chunks[2] = second
  BY <1>2
<1> QED BY <1>1, <1>3, <1>4 DEF KlInv, KeyRowsAreFound

LEMMA KlInductive ==
  ASSUME ~NullStats
  PROVE  KlSpec => []KlInv
<1>1. ASSUME KlInv, [KlNext]_klVars PROVE KlInv'
  <2>0. Len(Rows) \in Nat /\ DOMAIN Rows = 1..Len(Rows)
    BY <1>1, RowsAre
  <2>a. ASSUME UNCHANGED <<kind, chunks, stats, key>>,
               look' \in {"stats", "read", "found", "removed", "failed"},
               found' \in SUBSET (1..Len(Rows)), look' \in {"stats", "read"} => found' = {},
               look' = "found" => found' = {i \in 1..Len(Rows) : Rows[i] = {key}},
               look' = "removed" => OtherRowsRemain'
        PROVE  KlInv'
    <3>1. Rows' = Rows
      BY <2>a DEF Rows
    <3> QED BY <1>1, <2>a, <3>1 DEF KlInv, KeyRowsAreFound
  <2>1. CASE LookAtStats
    <3>0. look = "stats" /\ found = {}
      BY <1>1, <2>1 DEF LookAtStats, KlInv
    <3>1. CASE Classify = "None"
      <4>1. look' = "found" /\ found' = {}
        BY <2>1, <3>0, <3>1 DEF LookAtStats
      <4>2. {i \in 1..Len(Rows) : Rows[i] = {key}} = {}
        BY <1>1, <3>1, NoneIsRight
      <4> QED BY <2>1, <2>a, <4>1, <4>2 DEF LookAtStats
    <3>2. CASE Classify = "Exact" /\ ~exact
      <4>1. look' = "found" /\ found' = 1..Len(Rows)
        BY <2>1, <3>2 DEF LookAtStats
      <4>2. {i \in 1..Len(Rows) : Rows[i] = {key}} = 1..Len(Rows)
        BY <1>1, <3>2, ExactIsRight
      <4> QED BY <2>1, <2>a, <4>1, <4>2 DEF LookAtStats
    <3>3. CASE Classify # "None" /\ ~(Classify = "Exact" /\ ~exact)
      <4>1. look' = "read" /\ found' = {}
        BY <2>1, <3>0, <3>3 DEF LookAtStats
      <4> QED BY <2>1, <2>a, <4>1 DEF LookAtStats
    <3> QED BY <3>1, <3>2, <3>3
  <2>2. CASE ReadFile
    <3>0. found = {}
      BY <1>1, <2>2 DEF ReadFile, KlInv
    <3>1. RowsOf = {i \in 1..Len(Rows) : Rows[i] = {key}}
      BY <1>1, RowsOfIs
    <3> QED BY <2>2, <2>a, <3>0, <3>1 DEF ReadFile
  <2>3. CASE ReplaceFile
    BY <1>1, <2>3, <2>a, RowsRemain DEF ReplaceFile, KlInv
  <2>4. CASE UNCHANGED klVars
    <3>1. look = "removed" => OtherRowsRemain'
      <4>1. rest' = rest /\ key' = key /\ Rows' = Rows
        BY <2>4 DEF klVars, Rows
      <4>2. OtherRowsRemain' = OtherRowsRemain
        BY <4>1 DEF OtherRowsRemain
      <4> QED BY <1>1, <4>2 DEF KlInv, KeyRowsAreFound
    <3> QED BY <1>1, <2>4, <2>a, <3>1 DEF klVars, KlInv, KeyRowsAreFound
  <2> QED BY <1>1, <2>1, <2>2, <2>3, <2>4 DEF KlNext
<1> QED BY <1>1, KlStarts, PTL DEF KlSpec

\* find_key_files: the rows that are found are those of the key, whatever the
\* statistics say and wherever their writer has truncated them, if no writer
\* puts an explicit null there.  remove_key_rows keeps all other rows in order.
THEOREM KeyRowsAreSafe ==
  ASSUME ~NullStats
  PROVE  KlSpec => []KeyRowsAreFound
<1>1. KlInv => KeyRowsAreFound
  BY DEF KlInv
<1> QED BY <1>1, KlInductive, PTL

-----------------------------------------------------------------------------
(***************************************************************************)
(* The books of the banking workload agree with the balances, for any      *)
(* number of clients, operations and amounts.                              *)
(*                                                                         *)
(* The invariant relates a client under way to the tables: what it has     *)
(* read is the balance as long as the tables it opened have not changed    *)
(* (Follows), and what it has written is what it is going to book (Works). *)
(* A commit that succeeds meets unchanged tables, so that the balances and *)
(* the books change by the same amounts.                                   *)
(***************************************************************************)

\* The recursive function by which MapThenSumSet is defined
One(s) == CHOOSE x \in s : TRUE
SumStep(g, S, f) ==
  [s \in SUBSET S |-> IF s = {} THEN 0 ELSE f[One(s)] + g[s \ {One(s)}]]
Sum(f, S) == (CHOOSE g : g = SumStep(g, S, f))[S]

\* It chooses an element.
LEMMA OneIs ==
  ASSUME NEW s, s # {}
  PROVE  One(s) \in s
BY DEF One

\* There is such a function: one that is right for the sets of up to k - 1
\* elements gives one that is right for those of k.
LEMMA SumExists ==
  ASSUME NEW S, IsFiniteSet(S), NEW f
  PROVE  \E g : g = SumStep(g, S, f)
<1> DEFINE Right(g, k) == /\ g = [s \in SUBSET S |-> g[s]]
                          /\ \A s \in SUBSET S : Cardinality(s) <= k => g[s] = SumStep(g, S, f)[s]
           Bad == {k \in Nat : ~\E g : Right(g, k)}
<1>0. \A s \in SUBSET S : IsFiniteSet(s) /\ Cardinality(s) \in Nat /\ Cardinality(s) <= Cardinality(S)
  BY FS_Subset, FS_CardinalityType
<1>a. \A s \in SUBSET S : s # {} => /\ s \ {One(s)} \in SUBSET S
                                    /\ Cardinality(s \ {One(s)}) = Cardinality(s) - 1
  BY <1>0, OneIs, FS_RemoveElement
<1>b. ASSUME NEW g PROVE DOMAIN SumStep(g, S, f) = SUBSET S
  BY DEF SumStep
<1>1. Bad = {}
  <2> SUFFICES ASSUME Bad # {} PROVE FALSE
    OBVIOUS
  <2>1. PICK k \in Bad : \A l \in Bad : k <= l
    BY LeastNat
  <2>2. k \in Nat /\ ~\E g : Right(g, k)
    OBVIOUS
  <2>3. k # 0
    <3> DEFINE g == [s \in SUBSET S |-> 0]
    <3>1. \A s \in SUBSET S : Cardinality(s) <= 0 => s = {}
      BY <1>0, FS_EmptySet
    <3>2. SumStep(g, S, f)[{}] = 0
      BY DEF SumStep
    <3>3. Right(g, 0)
      BY <3>1, <3>2
    <3> QED BY <2>2, <3>3
  <2>4. PICK g : Right(g, k - 1)
    <3>1. k - 1 \in Nat /\ ~(k <= k - 1)
      BY <2>2, <2>3
    <3> HIDE DEF Right
    <3> QED BY <2>1, <3>1
  <2> DEFINE h == SumStep(g, S, f)
  <2>5. h = [s \in SUBSET S |-> h[s]]
    BY DEF SumStep
  <2>6. \A s \in SUBSET S : Cardinality(s) <= k - 1 => h[s] = g[s]
    BY <2>4
  <2>7. ASSUME NEW s \in SUBSET S, Cardinality(s) <= k PROVE h[s] = SumStep(h, S, f)[s]
    <3>1. CASE s = {}
      BY <3>1 DEF SumStep
    <3>2. CASE s # {}
      <4> DEFINE t == s \ {One(s)}
      <4>1. t \in SUBSET S /\ Cardinality(t) = Cardinality(s) - 1 /\ Cardinality(s) \in Nat
        BY <1>0, <1>a, <3>2
      <4>2. Cardinality(t) <= k - 1
        BY <2>2, <2>7, <4>1
      <4>3. h[t] = g[t]
        BY <2>6, <4>1, <4>2
      <4>4. h[s] = f[One(s)] + g[t]
        BY <3>2 DEF SumStep
      <4> HIDE DEF h
      <4>5. SumStep(h, S, f)[s] = f[One(s)] + h[t]
        BY <3>2 DEF SumStep
      <4> QED BY <4>3, <4>4, <4>5
    <3> QED BY <3>1, <3>2
  <2>8. Right(h, k)
    <3> HIDE DEF h
    <3> QED BY <2>5, <2>7
  <2> HIDE DEF Right
  <2> QED BY <2>2, <2>8
<1>2. PICK g : Right(g, Cardinality(S))
  <2>1. Cardinality(S) \in Nat
    BY FS_CardinalityType
  <2> HIDE DEF Right
  <2> QED BY <1>1, <2>1
<1>3. \A s \in SUBSET S : g[s] = SumStep(g, S, f)[s]
  BY <1>0, <1>2
<1>4. g = [s \in SUBSET S |-> g[s]]
  BY <1>2
<1>5. SumStep(g, S, f) = [s \in SUBSET S |-> SumStep(g, S, f)[s]]
  BY DEF SumStep
<1>6. g = SumStep(g, S, f)
  BY <1>3, <1>4, <1>5
<1> QED BY <1>6

\* A sum starts at 0 and adds one element after the other.
SumsUp(g, f, S) ==
  /\ g[{}] = 0
  /\ \A s \in SUBSET S : s # {} => g[s] = f[One(s)] + g[s \ {One(s)}]

\* The sum of a set is an element and the sum of the others.
LEMMA SumIs ==
  ASSUME NEW S, IsFiniteSet(S), NEW f
  PROVE  \E g : Sum(f, S) = g[S] /\ SumsUp(g, f, S)
<1> DEFINE g == CHOOSE g : g = SumStep(g, S, f)
<1>1. g = SumStep(g, S, f)
  BY SumExists
<1>2. Sum(f, S) = g[S]
  BY DEF Sum
<1> HIDE DEF g
<1>3. {} \in SUBSET S
  OBVIOUS
<1>4. g[{}] = 0
  BY <1>1, <1>3 DEF SumStep
<1>5. \A s \in SUBSET S : s # {} => g[s] = f[One(s)] + g[s \ {One(s)}]
  BY <1>1 DEF SumStep
<1>6. SumsUp(g, f, S)
  BY <1>4, <1>5 DEF SumsUp
<1> QED BY <1>2, <1>6

\* The sum of zeros is zero.
LEMMA SumOfZeros ==
  ASSUME NEW S, IsFiniteSet(S), NEW f, \A x \in S : f[x] = 0
  PROVE  Sum(f, S) = 0
<1>1. PICK g : Sum(f, S) = g[S] /\ SumsUp(g, f, S)
  BY SumIs
<1> DEFINE Bad == {s \in SUBSET S : g[s] # 0}
<1>2. Bad = {}
  <2> SUFFICES ASSUME Bad # {} PROVE FALSE
    OBVIOUS
  <2>1. PICK s \in Bad : Smallest(s, Bad)
    <3>1. Bad \in SUBSET (SUBSET S)
      OBVIOUS
    <3> HIDE DEF Bad
    <3> QED BY <3>1, SmallestSet
  <2>2. s # {} /\ s \in SUBSET S
    BY <1>1 DEF SumsUp
  <2>3. One(s) \in s
    BY <2>2, OneIs
  <2>4. s \ {One(s)} \in SUBSET S /\ s \ {One(s)} \notin Bad
    BY <2>1, <2>2, <2>3 DEF Smallest
  <2>5. g[s \ {One(s)}] = 0 /\ f[One(s)] = 0
    BY <2>2, <2>3, <2>4
  <2>6. g[s] = f[One(s)] + g[s \ {One(s)}]
    BY <1>1, <2>2 DEF SumsUp
  <2> QED BY <2>5, <2>6
<1> QED BY <1>1, <1>2

\* A sum in which one element changes by d changes by d.
LEMMA SumChanges ==
  ASSUME NEW S, IsFiniteSet(S), NEW f \in [S -> Int], NEW h \in [S -> Int],
         NEW c \in S, NEW d \in Int, h[c] = f[c] + d,
         \A x \in S : x # c => h[x] = f[x]
  PROVE  Sum(f, S) \in Int /\ Sum(h, S) = Sum(f, S) + d
<1>1. PICK g : Sum(f, S) = g[S] /\ SumsUp(g, f, S)
  BY SumIs
<1>2. PICK k : Sum(h, S) = k[S] /\ SumsUp(k, h, S)
  BY SumIs
<1> DEFINE Right(s) == g[s] \in Int /\ k[s] = g[s] + (IF c \in s THEN d ELSE 0)
           Bad == {s \in SUBSET S : ~Right(s)}
<1>3. Bad = {}
  <2> SUFFICES ASSUME Bad # {} PROVE FALSE
    OBVIOUS
  <2>1. PICK s \in Bad : Smallest(s, Bad)
    <3>1. Bad \in SUBSET (SUBSET S)
      OBVIOUS
    <3> HIDE DEF Bad
    <3> QED BY <3>1, SmallestSet
  <2>2. s # {} /\ s \in SUBSET S
    <3>1. Right({})
      BY <1>1, <1>2 DEF SumsUp
    <3> HIDE DEF Right
    <3> QED BY <3>1
  <2>3. One(s) \in s /\ One(s) \in S
    BY <2>2, OneIs
  <2> DEFINE x == One(s)
             t == s \ {x}
  <2>4. t \in SUBSET S /\ t \notin Bad
    <3> HIDE DEF Right
    <3> QED BY <2>1, <2>2, <2>3 DEF Smallest
  <2>5. Right(t)
    BY <2>4
  <2>6. g[s] = f[x] + g[t] /\ k[s] = h[x] + k[t]
    BY <1>1, <1>2, <2>2 DEF SumsUp
  <2>7. x \in S /\ f[x] \in Int /\ h[x] \in Int
    BY <2>3
  <2>8. CASE x = c
    <3>1. c \in s /\ c \notin t
      BY <2>3, <2>8
    <3>2. h[x] = f[x] + d
      BY <2>8
    <3> HIDE DEF x, t
    <3>3. Right(s)
      BY <2>5, <2>6, <2>7, <3>1, <3>2
    <3> HIDE DEF Right
    <3> QED BY <3>3
  <2>9. CASE x # c
    <3>1. c \in s <=> c \in t
      BY <2>9
    <3>2. h[x] = f[x]
      BY <2>7, <2>9
    <3> HIDE DEF x, t
    <3>3. Right(s)
      BY <2>5, <2>6, <2>7, <3>1, <3>2
    <3> HIDE DEF Right
    <3> QED BY <3>3
  <2> QED BY <2>8, <2>9
<1>4. Right(S)
  BY <1>3
<1> QED BY <1>1, <1>2, <1>4

\* What the clients have booked of an account
Column(a) == [c \in Bankers |-> books[c][a]]

\* What the books of all clients say of an account is a sum of them.
LEMMA BookedIs ==
  ASSUME NEW a
  PROVE  BookedOf(a) = Sum(Column(a), Bankers)
<1>1. BookedOf(a) = (CHOOSE iter : iter = [s \in SUBSET Bankers |->
                       IF s = {} THEN 0
                       ELSE books[CHOOSE x \in s : TRUE][a] + iter[s \ {CHOOSE x \in s : TRUE}]])[Bankers]
  BY DEF BookedOf, MapThenSumSet, MapThenFoldSet
<1> DEFINE Iter(g) == [s \in SUBSET Bankers |->
                       IF s = {} THEN 0
                       ELSE books[CHOOSE x \in s : TRUE][a] + g[s \ {CHOOSE x \in s : TRUE}]]
<1>2. ASSUME NEW g PROVE SumStep(g, Bankers, Column(a)) = Iter(g)
  <2>1. \A s \in SUBSET Bankers : s # {} => Column(a)[One(s)] = books[One(s)][a]
    BY OneIs DEF Column
  <2>2. SumStep(g, Bankers, Column(a)) = [s \in SUBSET Bankers |->
                       IF s = {} THEN 0 ELSE books[One(s)][a] + g[s \ {One(s)}]]
    BY <2>1 DEF SumStep
  <2> QED BY <2>2 DEF One
<1>3. BookedOf(a) = (CHOOSE g : g = Iter(g))[Bankers]
  BY <1>1
<1> HIDE DEF Iter
<1>4. (CHOOSE g : g = Iter(g)) = (CHOOSE g : g = SumStep(g, Bankers, Column(a)))
  BY <1>2
<1> QED BY <1>3, <1>4 DEF Sum

\* The same after a step
LEMMA BookedAfter ==
  ASSUME NEW a
  PROVE  BookedOf(a)' = Sum(Column(a)', Bankers)
<1>1. BookedOf(a)' = (CHOOSE iter : iter = [s \in SUBSET Bankers |->
                       IF s = {} THEN 0
                       ELSE books'[CHOOSE x \in s : TRUE][a] + iter[s \ {CHOOSE x \in s : TRUE}]])[Bankers]
  BY DEF BookedOf, MapThenSumSet, MapThenFoldSet
<1> DEFINE Iter(g) == [s \in SUBSET Bankers |->
                       IF s = {} THEN 0
                       ELSE books'[CHOOSE x \in s : TRUE][a] + g[s \ {CHOOSE x \in s : TRUE}]]
<1>2. ASSUME NEW g PROVE SumStep(g, Bankers, Column(a)') = Iter(g)
  <2>1. \A s \in SUBSET Bankers : s # {} => Column(a)'[One(s)] = books'[One(s)][a]
    BY OneIs DEF Column
  <2>2. SumStep(g, Bankers, Column(a)') = [s \in SUBSET Bankers |->
                       IF s = {} THEN 0 ELSE books'[One(s)][a] + g[s \ {One(s)}]]
    BY <2>1 DEF SumStep
  <2> QED BY <2>2 DEF One
<1>3. BookedOf(a)' = (CHOOSE g : g = Iter(g))[Bankers]
  BY <1>1
<1> HIDE DEF Iter
<1>4. (CHOOSE g : g = Iter(g)) = (CHOOSE g : g = SumStep(g, Bankers, Column(a)'))
  BY <1>2
<1> QED BY <1>3, <1>4 DEF Sum

\* Types
BankRecords ==
  [at : Steps, op : Operations \cup {"deposit"}, sender : Accounts, amount : Int, ops : Int,
   view : [Accounts -> Seq(Int)], seen : [Accounts -> Int], dirty : SUBSET Accounts,
   written : BOOLEAN]

BankTypes ==
  /\ layout \in {"Query", "MultiTable", "SeparateTables"}
  /\ rows \in [Accounts -> Seq(Int)]
  /\ changed \in [Accounts -> Nat]
  /\ banker \in [Bankers -> BankRecords]
  /\ books \in [Bankers -> [Accounts -> Int]]
  /\ unbooked \in [Accounts -> Int]

\* The table of account a has not changed since transaction b opened it.
Fresh(b, a) == b.seen[TableOf(a)] = changed[TableOf(a)]

\* What a transaction sees are the rows of the tables it has opened, as they
\* are unless another one has committed; but for what it has written itself.
Follows(b) ==
  /\ \A x \in Accounts : b.seen[x] <= changed[x]
  /\ \A a \in Accounts :
       /\ b.view[a] # <<>> => b.seen[TableOf(a)] >= 0
       /\ a \in b.dirty => b.seen[TableOf(a)] >= 0
       /\ a \notin b.dirty /\ Fresh(b, a) => b.view[a] = rows[a]

\* It has changed the balance of a by d, or lost the row.
Changes(b, a, d) == b.view[a] = <<>> \/ b.view[a] = <<rows[a][1] + d>>

\* What it has written at each step is what its books will say.
Works(b) ==
  /\ b.at \in {"idle", "open", "sender", "deposit"} => b.dirty = {}
  /\ b.at = "idle" => ~b.written
  /\ b.at \in {"open", "sender"} => b.op \in {"withdraw", "transfer"}
  /\ b.at = "deposit" => b.op = "deposit"
  /\ b.at = "receiver" =>
       \/ b.op = "deposit" /\ b.dirty = {}
       \/ /\ b.op = "transfer" /\ layout # "SeparateTables" /\ b.dirty = {b.sender}
          /\ Fresh(b, b.sender) => Changes(b, b.sender, -b.amount)
  /\ b.at = "commit" /\ ~Aborts(b) =>
       \A a \in Accounts :
         /\ a \notin b.dirty => Recorded(b)[a] = 0
         /\ a \in b.dirty /\ Fresh(b, a) => Changes(b, a, Recorded(b)[a])

\* The inductive invariant
BankInv ==
  /\ BankTypes
  /\ \A c \in Bankers : Follows(banker[c]) /\ Works(banker[c])
  /\ BooksMatchTheBalances

\* Two accounts, in one table or in two
LEMMA TableOfType ==
  ASSUME NEW a \in Accounts
  PROVE  TableOf(a) \in Accounts /\ Other(a) \in Accounts /\ Other(a) # a
         /\ \A x \in Accounts : x = a \/ x = Other(a)
BY DEF TableOf, Accounts, Other

\* A client becomes another; the tables and the books stay as they are.
LEMMA BankClientStep ==
  ASSUME BankInv, UNCHANGED <<layout, rows, changed, books, torn, unbooked>>,
         NEW c \in Bankers, NEW r \in BankRecords, Become(c, r), Follows(r), Works(r)
  PROVE  BankInv'
<1> USE DEF BankInv
<1>1. /\ banker \in [Bankers -> BankRecords] /\ banker' = [banker EXCEPT ![c] = r]
  BY DEF BankTypes, Become
<1>2. BankTypes'
  <2>1. banker' \in [Bankers -> BankRecords]
    BY <1>1
  <2> QED BY <2>1 DEF BankTypes
<1>3. \A s : Follows(s) => Follows(s)'
  BY DEF Follows, Fresh, TableOf
<1>4. \A s : Works(s) => Works(s)'
  BY DEF Works, Fresh, TableOf, Changes, Aborts, Recorded
<1>5. ASSUME NEW e \in Bankers PROVE Follows(banker[e])' /\ Works(banker[e])'
  <2>1. CASE e = c
    BY <1>1, <1>3, <1>4, <2>1
  <2>2. CASE e # c
    BY <1>1, <1>3, <1>4, <2>2
  <2> QED BY <2>1, <2>2
<1>6. BooksMatchTheBalances'
  <2>1. \A a : Column(a)' = Column(a)
    BY DEF Column
  <2>2. \A a : BookedOf(a)' = BookedOf(a)
    BY DEF BookedOf, MapThenSumSet, MapThenFoldSet
  <2> QED BY <2>2 DEF BooksMatchTheBalances
<1> QED BY <1>2, <1>5, <1>6

\* A client that leaves its operation, or has not begun one
LEMMA LeftIs ==
  ASSUME BankTypes, NEW b \in BankRecords, NEW at \in Steps, NEW op \in Operations \cup {"deposit"},
         NEW n \in Int, NEW d \in Int, at = "idle" \/ (at = "deposit" /\ op = "deposit")
  PROVE  LET r == [NewBanker EXCEPT !.at = at, !.op = op, !.sender = b.sender, !.amount = d, !.ops = n]
         IN r \in BankRecords /\ Follows(r) /\ Works(r)
<1> DEFINE r == [NewBanker EXCEPT !.at = at, !.op = op, !.sender = b.sender, !.amount = d, !.ops = n]
<1>1. b.sender \in Accounts
  BY DEF BankRecords
<1>2. /\ r.at = at /\ r.op = op /\ r.sender = b.sender /\ r.amount = d /\ r.ops = n
      /\ r.view = NoSnapshot /\ r.seen = [x \in Accounts |-> -1] /\ r.dirty = {} /\ r.written = FALSE
  BY DEF NewBanker
<1>3. NoSnapshot \in [Accounts -> Seq(Int)]
  BY DEF NoSnapshot
<1>4. r \in BankRecords
  <2> DEFINE s == [x \in Accounts |-> -1]
  <2>1. NewBanker = [at |-> "idle", op |-> "read", sender |-> 1, amount |-> 0, ops |-> 0,
                     view |-> NoSnapshot, seen |-> s, dirty |-> {}, written |-> FALSE]
    BY DEF NewBanker
  <2>2. s \in [Accounts -> Int]
    OBVIOUS
  <2> HIDE DEF s
  <2>3. NewBanker \in BankRecords
    BY <1>3, <2>1, <2>2 DEF BankRecords, Steps, Operations, Accounts
  <2> QED BY <1>1, <2>3 DEF BankRecords
<1> HIDE DEF r
<1>5. \A a \in Accounts : r.view[a] = <<>> /\ r.seen[a] = -1 /\ r.seen[TableOf(a)] = -1
  BY <1>2, TableOfType DEF NoSnapshot
<1>6. \A x \in Accounts : changed[x] \in Nat
  BY DEF BankTypes
<1>7. \A a \in Accounts : ~Fresh(r, a)
  BY <1>5, <1>6, TableOfType DEF Fresh
<1>8. Follows(r)
  BY <1>2, <1>5, <1>6, <1>7 DEF Follows
<1>9. Works(r)
  BY <1>2 DEF Works
<1> QED BY <1>4, <1>8, <1>9 DEF r

\* A table is opened.
LEMMA OpenedIs ==
  ASSUME BankTypes, NEW b \in BankRecords, Follows(b), b.dirty = {}, NEW a \in Accounts
  PROVE  /\ Opened(b, a) \in BankRecords /\ Follows(Opened(b, a))
         /\ Opened(b, a).at = b.at /\ Opened(b, a).op = b.op /\ Opened(b, a).sender = b.sender
         /\ Opened(b, a).amount = b.amount /\ Opened(b, a).ops = b.ops
         /\ Opened(b, a).dirty = {} /\ Opened(b, a).written = b.written
<1> DEFINE o == Opened(b, a)
           v == [x \in Accounts |-> IF TableOf(x) = TableOf(a) THEN rows[x] ELSE b.view[x]]
           s == [b.seen EXCEPT ![TableOf(a)] = changed[TableOf(a)]]
<1>0. /\ b.view \in [Accounts -> Seq(Int)] /\ b.seen \in [Accounts -> Int]
      /\ changed \in [Accounts -> Nat] /\ rows \in [Accounts -> Seq(Int)]
      /\ TableOf(a) \in Accounts
  BY TableOfType DEF BankRecords, BankTypes
<1>1. v \in [Accounts -> Seq(Int)] /\ s \in [Accounts -> Int]
  BY <1>0
<1>2. /\ o.seen = s /\ o.view = v /\ o \in BankRecords
      /\ o.at = b.at /\ o.op = b.op /\ o.sender = b.sender /\ o.amount = b.amount
      /\ o.ops = b.ops /\ o.dirty = b.dirty /\ o.written = b.written
  <2>1. o = [[b EXCEPT !.seen = s] EXCEPT !.view = v]
    BY DEF Opened, BankRecords
  <2> HIDE DEF o, s, v
  <2>2. [b EXCEPT !.seen = s] \in BankRecords
    BY <1>1 DEF BankRecords
  <2> QED BY <1>1, <2>1, <2>2 DEF BankRecords
<1> HIDE DEF o
<1>3. \A x \in Accounts : o.seen[x] <= changed[x]
  <2> SUFFICES ASSUME NEW x \in Accounts PROVE o.seen[x] <= changed[x]
    OBVIOUS
  <2>1. CASE x = TableOf(a)
    <3>1. o.seen[x] = changed[x] /\ changed[x] \in Int
      BY <1>0, <1>2, <2>1
    <3> QED BY <3>1
  <2>2. CASE x # TableOf(a)
    BY <1>0, <1>2, <2>2 DEF Follows
  <2> QED BY <2>1, <2>2
<1>4. ASSUME NEW x \in Accounts
      PROVE  /\ o.view[x] # <<>> => o.seen[TableOf(x)] >= 0
             /\ Fresh(o, x) => o.view[x] = rows[x]
  <2>0. TableOf(x) \in Accounts
    BY TableOfType
  <2>1. CASE TableOf(x) = TableOf(a)
    <3>1. o.view[x] = rows[x] /\ o.seen[TableOf(x)] = changed[TableOf(x)]
      BY <1>0, <1>2, <2>1
    <3>2. changed[TableOf(x)] \in Nat
      BY <1>0, <2>0
    <3> QED BY <3>1, <3>2
  <2>2. CASE TableOf(x) # TableOf(a)
    <3>1. o.view[x] = b.view[x] /\ o.seen[TableOf(x)] = b.seen[TableOf(x)]
      BY <1>0, <1>2, <2>0, <2>2
    <3> QED BY <3>1 DEF Follows, Fresh
  <2> QED BY <2>1, <2>2
<1>5. Follows(o)
  BY <1>2, <1>3, <1>4 DEF Follows
<1> QED BY <1>2, <1>5 DEF o

\* The balance of an account is written, or the row is lost, or nothing is done.
LEMMA WrittenIs ==
  ASSUME BankTypes, NEW b \in BankRecords, Follows(b), NEW a \in Accounts, a \notin b.dirty,
         NEW d \in Int, WriteFaults \subseteq {"add"},
         NEW r \in Written(b, a, d) \cup {[b EXCEPT !.written = FALSE]}
  PROVE  /\ r \in BankRecords /\ Follows(r)
         /\ r.at = b.at /\ r.op = b.op /\ r.sender = b.sender /\ r.amount = b.amount
         /\ r.seen = b.seen
         /\ \/ ~r.written /\ r.dirty = b.dirty /\ r.view = b.view
            \/ /\ r.dirty = b.dirty \cup {a}
               /\ \A x \in Accounts : x # a => r.view[x] = b.view[x]
               /\ Fresh(r, a) => Changes(r, a, d)
               /\ ~r.written => r.view[a] = <<>>
<1>0. /\ b.view \in [Accounts -> Seq(Int)] /\ b.seen \in [Accounts -> Int]
      /\ changed \in [Accounts -> Nat] /\ rows \in [Accounts -> Seq(Int)]
      /\ TableOf(a) \in Accounts
  BY TableOfType DEF BankRecords, BankTypes
<1>1. CASE r = [b EXCEPT !.written = FALSE]
  <2>1. /\ r \in BankRecords /\ r.at = b.at /\ r.op = b.op /\ r.sender = b.sender
        /\ r.amount = b.amount /\ r.seen = b.seen /\ r.dirty = b.dirty /\ r.view = b.view
        /\ r.written = FALSE
    BY <1>1 DEF BankRecords
  <2>2. Follows(r)
    BY <2>1 DEF Follows, Fresh
  <2> QED BY <2>1, <2>2
<1>2. CASE r # [b EXCEPT !.written = FALSE]
  <2>1. b.view[a] # <<>>
    BY <1>2 DEF Written
  <2>2. PICK failed \in SUBSET WriteFaults :
          r = [b EXCEPT !.written = "add" \notin failed,
                  !.dirty = IF failed = {"remove", "add"} THEN @ ELSE @ \cup {a},
                  !.view[a] = (IF "remove" \in failed THEN @ ELSE <<>>)
                              \o (IF "add" \in failed THEN <<>> ELSE <<@[1] + d>>)]
    BY <1>2, <2>1 DEF Written
  <2>3. failed # {"remove", "add"} /\ "remove" \notin failed
    OBVIOUS
  <2> DEFINE n == b.view[a][1] + d
             new == IF "add" \in failed THEN <<>> ELSE <<n>>
             w == ("add" \notin failed)
             v == [b.view EXCEPT ![a] = new]
             dd == b.dirty \cup {a}
  <2>4. n \in Int
    <3>1. b.view[a] \in Seq(Int)
      BY <1>0
    <3>2. b.view[a][1] \in Int
      BY <2>1, <3>1
    <3> QED BY <3>2
  <2> HIDE DEF n
  <2>5. (<<>> \o (IF "add" \in failed THEN <<>> ELSE <<n>>)) = new /\ new \in Seq(Int)
    BY <2>4
  <2>6. r = [b EXCEPT !.written = w, !.dirty = dd, !.view[a] = new]
    BY <2>2, <2>3, <2>5 DEF n
  <2>7. w \in BOOLEAN /\ dd \in SUBSET Accounts /\ v \in [Accounts -> Seq(Int)]
    BY <1>0, <2>5 DEF BankRecords
  <2> HIDE DEF new, w, dd
  <2>8. /\ r \in BankRecords /\ r.at = b.at /\ r.op = b.op /\ r.sender = b.sender
        /\ r.amount = b.amount /\ r.seen = b.seen /\ r.dirty = dd /\ r.view = v
        /\ r.written = w
    <3>1. r = [[[b EXCEPT !.written = w] EXCEPT !.dirty = dd] EXCEPT !.view = v]
      BY <2>6 DEF BankRecords
    <3> HIDE DEF v
    <3>2. [b EXCEPT !.written = w] \in BankRecords
      BY <2>7 DEF BankRecords
    <3>3. [[b EXCEPT !.written = w] EXCEPT !.dirty = dd] \in BankRecords
      BY <2>7, <3>2 DEF BankRecords
    <3> QED BY <2>7, <3>1, <3>2, <3>3 DEF BankRecords
  <2>9. r.view[a] = new /\ \A x \in Accounts : x # a => r.view[x] = b.view[x]
    BY <1>0, <2>8
  <2>10. b.seen[TableOf(a)] >= 0
    BY <2>1 DEF Follows
  <2>11. \A x \in Accounts : x \notin dd => x \notin b.dirty /\ x # a
    BY DEF dd
  <2>12. \A x \in Accounts : x \in dd => x \in b.dirty \/ x = a
    BY DEF dd
  <2>13. Follows(r)
    <3>1. \A x \in Accounts : r.seen[x] <= changed[x]
      BY <2>8 DEF Follows
    <3>2. ASSUME NEW x \in Accounts
          PROVE  /\ r.view[x] # <<>> => r.seen[TableOf(x)] >= 0
                 /\ x \in r.dirty => r.seen[TableOf(x)] >= 0
                 /\ x \notin r.dirty /\ Fresh(r, x) => r.view[x] = rows[x]
      <4>1. CASE x = a
        BY <2>8, <2>10, <4>1 DEF dd
      <4>2. CASE x # a
        BY <2>8, <2>9, <2>11, <2>12, <4>2 DEF Follows, Fresh
      <4> QED BY <4>1, <4>2
    <3> QED BY <3>1, <3>2 DEF Follows
  <2>14. Fresh(r, a) => Changes(r, a, d)
    <3> SUFFICES ASSUME Fresh(r, a), r.view[a] # <<>> PROVE r.view[a] = <<rows[a][1] + d>>
      BY DEF Changes
    <3>1. Fresh(b, a)
      BY <2>8 DEF Fresh
    <3>2. b.view[a] = rows[a]
      BY <3>1 DEF Follows
    <3>3. new = <<n>>
      BY <2>9 DEF new
    <3> QED BY <2>9, <3>2, <3>3 DEF n
  <2>15. ~r.written => r.view[a] = <<>>
    BY <2>8, <2>9 DEF w, new
  <2> QED BY <2>8, <2>9, <2>13, <2>14, <2>15 DEF dd
<1> QED BY <1>1, <1>2

\* A client goes on to another step.
LEMMA GoesTo ==
  ASSUME NEW b \in BankRecords, Follows(b), NEW q \in Steps
  PROVE  LET r == [b EXCEPT !.at = q]
         IN /\ r \in BankRecords /\ Follows(r) /\ r.at = q
            /\ r.op = b.op /\ r.sender = b.sender /\ r.amount = b.amount /\ r.ops = b.ops
            /\ r.view = b.view /\ r.seen = b.seen /\ r.dirty = b.dirty /\ r.written = b.written
<1> DEFINE r == [b EXCEPT !.at = q]
<1>1. /\ r \in BankRecords /\ r.at = q
      /\ r.op = b.op /\ r.sender = b.sender /\ r.amount = b.amount /\ r.ops = b.ops
      /\ r.view = b.view /\ r.seen = b.seen /\ r.dirty = b.dirty /\ r.written = b.written
  BY DEF BankRecords
<1>2. Follows(r)
  BY <1>1 DEF Follows, Fresh
<1> QED BY <1>1, <1>2

\* The books say nothing of what was not written, ...
LEMMA RecordedNothing ==
  ASSUME NEW b \in BankRecords, ~b.written
  PROVE  Recorded(b) \in [Accounts -> Int] /\ \A a \in Accounts : Recorded(b)[a] = 0
BY DEF Recorded

\* ... and of what was written each account's share.
LEMMA RecordedIs ==
  ASSUME NEW b \in BankRecords, b.written, NEW a \in Accounts
  PROVE  /\ a = b.sender /\ b.op # "deposit" => Recorded(b)[a] = -b.amount
         /\ a = b.sender /\ b.op = "deposit" => Recorded(b)[a] = 0
         /\ a # b.sender /\ (b.op = "deposit" \/ (b.op = "transfer" /\ layout # "SeparateTables"))
            => Recorded(b)[a] = b.amount
         /\ a # b.sender /\ b.op # "deposit" /\ ~(b.op = "transfer" /\ layout # "SeparateTables")
            => Recorded(b)[a] = 0
BY DEF Recorded

\* Types of what is recorded
LEMMA RecordedType ==
  ASSUME NEW b \in BankRecords
  PROVE  Recorded(b) \in [Accounts -> Int]
<1>1. b.amount \in Int /\ -b.amount \in Int
  BY DEF BankRecords
<1> QED BY <1>1 DEF Recorded

\* A client that leaves its operation is ready for the next.
LEMMA LeavesWith ==
  ASSUME BankTypes, NEW c \in Bankers, Leave(c)
  PROVE  \E r \in BankRecords : Become(c, r) /\ Follows(r) /\ Works(r)
<1> DEFINE b == banker[c]
           r == [NewBanker EXCEPT !.sender = b.sender, !.ops = b.ops + 1]
<1>1. b \in BankRecords
  BY DEF BankTypes
<1>2. b.ops + 1 \in Int
  BY <1>1 DEF BankRecords
<1> HIDE DEF b
<1> DEFINE n == b.ops + 1
           l == [NewBanker EXCEPT !.at = "idle", !.op = "read", !.sender = b.sender,
                                  !.amount = 0, !.ops = n]
<1>3. r = l
  <2>1. NewBanker.at = "idle" /\ NewBanker.op = "read" /\ NewBanker.amount = 0
    BY DEF NewBanker
  <2>2. /\ DOMAIN NewBanker = {"at", "op", "sender", "amount", "ops", "view", "seen", "dirty", "written"}
        /\ NewBanker = [x \in DOMAIN NewBanker |-> NewBanker[x]]
    BY DEF NewBanker
  <2> QED BY <2>1, <2>2, Zenon
<1>4. Become(c, r)
  BY DEF Leave, b
<1> HIDE DEF r
<1>5. r \in BankRecords /\ Follows(r) /\ Works(r)
  <2>1. n \in Int /\ 0 \in Int /\ "idle" \in Steps /\ "read" \in Operations \cup {"deposit"}
    BY <1>2 DEF Steps, Operations
  <2> HIDE DEF n
  <2>2. l \in BankRecords /\ Follows(l) /\ Works(l)
    BY <1>1, <2>1, LeftIs
  <2> QED BY <1>3, <2>2
<1> HIDE DEF r
<1> QED BY <1>4, <1>5

\* A client leaves its operation.
LEMMA LeaveStep ==
  ASSUME BankInv, UNCHANGED <<layout, rows, changed, books, torn, unbooked>>, NEW c \in Bankers, Leave(c)
  PROVE  BankInv'
<1>1. BankTypes
  BY DEF BankInv
<1>2. PICK r \in BankRecords : Become(c, r) /\ Follows(r) /\ Works(r)
  BY <1>1, LeavesWith
<1> QED BY <1>2, BankClientStep

\* The steps up to the commit keep the invariant: a client begins,
LEMMA StartOperationStep ==
  ASSUME BankInv, NEW c \in Bankers, StartOperation(c), Amounts \subseteq Int
  PROVE  BankInv'
<1>1. BankTypes /\ banker[c] \in BankRecords /\ Follows(banker[c]) /\ Works(banker[c])
  BY DEF BankInv, BankTypes
<1>2. PICK op \in Operations, d \in Amounts :
        LET b == [banker[c] EXCEPT !.op = op, !.amount = d, !.sender = Other(@)]
        IN \/ Become(c, [Opened(b, b.sender) EXCEPT !.at =
                CASE op = "read" -> "commit"
                  [] op = "transfer" /\ layout = "MultiTable" -> "open"
                  [] OTHER -> "sender"])
           \/ Become(c, [b EXCEPT !.ops = @ + 1])
  BY DEF StartOperation
<1> DEFINE o == banker[c]
           b == [o EXCEPT !.op = op, !.amount = d, !.sender = Other(o.sender)]
           q == CASE op = "read" -> "commit"
                  [] op = "transfer" /\ layout = "MultiTable" -> "open"
                  [] OTHER -> "sender"
<1>3. Become(c, [Opened(b, b.sender) EXCEPT !.at = q]) \/ Become(c, [b EXCEPT !.ops = b.ops + 1])
  BY <1>2
<1>4. o.at = "idle" /\ UNCHANGED <<layout, rows, changed, books, torn, unbooked>>
  BY DEF StartOperation
<1>5. o \in BankRecords /\ Follows(o) /\ Works(o)
  BY <1>1
<1> HIDE DEF o
<1>6. o.dirty = {} /\ o.written = FALSE
  BY <1>4, <1>5 DEF Works, BankRecords
<1>7. /\ b \in BankRecords /\ b.at = "idle" /\ b.op = op /\ b.amount = d /\ b.sender \in Accounts
      /\ b.dirty = {} /\ b.written = FALSE /\ b.view = o.view /\ b.seen = o.seen
  <2>1. Other(o.sender) \in Accounts
    BY <1>5, TableOfType DEF BankRecords
  <2>2. op \in Operations \cup {"deposit"} /\ d \in Int
    OBVIOUS
  <2>3. [o EXCEPT !.op = op] \in BankRecords
    BY <1>5, <2>2 DEF BankRecords
  <2>4. [[o EXCEPT !.op = op] EXCEPT !.amount = d] \in BankRecords
    BY <2>2, <2>3 DEF BankRecords
  <2>5. b = [[[o EXCEPT !.op = op] EXCEPT !.amount = d] EXCEPT !.sender = Other(o.sender)]
    BY <1>5 DEF BankRecords
  <2>6. b \in BankRecords
    BY <2>1, <2>4, <2>5 DEF BankRecords
  <2> QED BY <1>4, <1>5, <1>6, <2>1, <2>5, <2>6 DEF BankRecords
<1> HIDE DEF b
<1>8. Follows(b)
  BY <1>5, <1>6, <1>7 DEF Follows, Fresh
<1>9. q \in {"commit", "open", "sender"} /\ (op = "read" => q = "commit")
      /\ (q = "commit" => op = "read")
  OBVIOUS
<1> HIDE DEF q
<1>10. CASE Become(c, [Opened(b, b.sender) EXCEPT !.at = q])
  <2> DEFINE w == Opened(b, b.sender)
             r == [w EXCEPT !.at = q]
  <2>1. w \in BankRecords /\ Follows(w) /\ w.op = op /\ w.dirty = {} /\ w.written = FALSE
    BY <1>1, <1>7, <1>8, OpenedIs
  <2> HIDE DEF w
  <2>2. q \in Steps
    BY <1>9 DEF Steps
  <2>3. r \in BankRecords /\ Follows(r) /\ r.at = q /\ r.op = op /\ r.dirty = {} /\ r.written = FALSE
    BY <2>1, <2>2, GoesTo
  <2>4. Become(c, r)
    BY <1>10 DEF w
  <2> HIDE DEF r
  <2>5. \A a \in Accounts : Recorded(r)[a] = 0
    BY <2>3, RecordedNothing
  <2>6. Works(r)
    BY <1>9, <2>3, <2>5 DEF Works, Operations
  <2> QED BY <1>4, <2>3, <2>4, <2>6, BankClientStep
<1>11. CASE Become(c, [b EXCEPT !.ops = b.ops + 1])
  <2> DEFINE r == [b EXCEPT !.ops = b.ops + 1]
  <2>1. /\ r \in BankRecords /\ r.at = "idle" /\ r.dirty = {} /\ r.written = FALSE
        /\ r.view = b.view /\ r.seen = b.seen
    <3>1. b.ops + 1 \in Int
      BY <1>7 DEF BankRecords
    <3> QED BY <1>7, <3>1 DEF BankRecords
  <2>2. Become(c, r)
    BY <1>11
  <2> HIDE DEF r
  <2>3. Follows(r)
    BY <1>7, <1>8, <2>1 DEF Follows, Fresh
  <2>4. Works(r)
    BY <2>1 DEF Works
  <2> QED BY <1>4, <2>1, <2>2, <2>3, <2>4, BankClientStep
<1> QED BY <1>3, <1>10, <1>11

\* opens the table of the receiver,
LEMMA OpenReceiverStep ==
  ASSUME BankInv, NEW c \in Bankers, OpenReceiver(c)
  PROVE  BankInv'
<1> DEFINE b == banker[c]
           w == Opened(b, Other(b.sender))
           r == [w EXCEPT !.at = "sender"]
<1>1. BankTypes /\ b \in BankRecords /\ Follows(b) /\ Works(b)
  BY DEF BankInv, BankTypes
<1>2. b.at = "open" /\ UNCHANGED <<layout, rows, changed, books, torn, unbooked>>
      /\ (Become(c, r) \/ Leave(c))
  BY DEF OpenReceiver
<1> HIDE DEF b
<1>3. b.dirty = {} /\ b.op \in {"withdraw", "transfer"}
  BY <1>1, <1>2 DEF Works
<1>4. Other(b.sender) \in Accounts
  BY <1>1, TableOfType DEF BankRecords
<1>5. w \in BankRecords /\ Follows(w) /\ w.dirty = {} /\ w.op = b.op
  BY <1>1, <1>3, <1>4, OpenedIs
<1> HIDE DEF w
<1>6. r \in BankRecords /\ Follows(r) /\ r.at = "sender" /\ r.dirty = {} /\ r.op = b.op
  BY <1>5, GoesTo DEF Steps
<1> HIDE DEF r
<1>7. Works(r)
  BY <1>3, <1>6 DEF Works
<1> QED BY <1>2, <1>6, <1>7, BankClientStep, LeaveStep

\* goes on with the deposit,
LEMMA BeginDepositStep ==
  ASSUME BankInv, NEW c \in Bankers, BeginDeposit(c)
  PROVE  BankInv'
<1> DEFINE b == banker[c]
           w == Opened(b, Other(b.sender))
           r == [w EXCEPT !.at = "receiver"]
<1>1. BankTypes /\ b \in BankRecords /\ Follows(b) /\ Works(b)
  BY DEF BankInv, BankTypes
<1>2. b.at = "deposit" /\ UNCHANGED <<layout, rows, changed, books, torn, unbooked>>
      /\ (Become(c, r) \/ Leave(c))
  BY DEF BeginDeposit
<1> HIDE DEF b
<1>3. b.dirty = {} /\ b.op = "deposit"
  BY <1>1, <1>2 DEF Works
<1>4. Other(b.sender) \in Accounts
  BY <1>1, TableOfType DEF BankRecords
<1>5. w \in BankRecords /\ Follows(w) /\ w.dirty = {} /\ w.op = b.op
  BY <1>1, <1>3, <1>4, OpenedIs
<1> HIDE DEF w
<1>6. r \in BankRecords /\ Follows(r) /\ r.at = "receiver" /\ r.dirty = {} /\ r.op = b.op
  BY <1>5, GoesTo DEF Steps
<1> HIDE DEF r
<1>7. Works(r)
  BY <1>3, <1>6 DEF Works
<1> QED BY <1>2, <1>6, <1>7, BankClientStep, LeaveStep

\* and writes the balance of the sender,
LEMMA ChangeSenderStep ==
  ASSUME BankInv, NEW c \in Bankers, ChangeSender(c), WriteFaults \subseteq {"add"}
  PROVE  BankInv'
<1> DEFINE o == banker[c]
<1>1. BankTypes /\ o \in BankRecords /\ Follows(o) /\ Works(o)
  BY DEF BankInv, BankTypes
<1>2. o.at = "sender" /\ UNCHANGED <<layout, rows, changed, books, torn, unbooked>>
  BY DEF ChangeSender
<1>3. PICK b \in Written(o, o.sender, -o.amount) \cup {[o EXCEPT !.written = FALSE]} :
        Become(c, [b EXCEPT !.at = IF b.op = "transfer" /\ layout # "SeparateTables" /\ b.written
                                   THEN "receiver" ELSE "commit"])
  BY DEF ChangeSender
<1> HIDE DEF o
<1>4. o.dirty = {} /\ o.op \in {"withdraw", "transfer"}
  BY <1>1, <1>2 DEF Works
<1>5. o.sender \in Accounts /\ o.amount \in Int /\ -o.amount \in Int
  BY <1>1 DEF BankRecords
<1>6. /\ b \in BankRecords /\ Follows(b)
      /\ b.op = o.op /\ b.sender = o.sender /\ b.amount = o.amount
      /\ \/ ~b.written /\ b.dirty = {}
         \/ /\ b.dirty = {b.sender}
            /\ Fresh(b, b.sender) => Changes(b, b.sender, -b.amount)
            /\ ~b.written => b.view[b.sender] = <<>>
  <2> DEFINE d == -o.amount
             a == o.sender
  <2>1. d \in Int /\ a \in Accounts /\ a \notin o.dirty /\ b \in Written(o, a, d) \cup {[o EXCEPT !.written = FALSE]}
    BY <1>3, <1>4, <1>5
  <2> HIDE DEF d, a
  <2>2. /\ b \in BankRecords /\ Follows(b)
        /\ b.op = o.op /\ b.sender = o.sender /\ b.amount = o.amount
        /\ \/ ~b.written /\ b.dirty = o.dirty
           \/ /\ b.dirty = o.dirty \cup {a}
              /\ Fresh(b, a) => Changes(b, a, d)
              /\ ~b.written => b.view[a] = <<>>
    BY <1>1, <2>1, WrittenIs
  <2> QED BY <1>4, <2>2 DEF a, d
<1> DEFINE q == IF b.op = "transfer" /\ layout # "SeparateTables" /\ b.written THEN "receiver" ELSE "commit"
           r == [b EXCEPT !.at = q]
<1>7. q \in Steps
  BY DEF Steps
<1>8. /\ (q = "receiver" /\ b.op = "transfer" /\ layout # "SeparateTables" /\ b.written)
         \/ (q = "commit" /\ ~(b.op = "transfer" /\ layout # "SeparateTables" /\ b.written))
  OBVIOUS
<1>9. Become(c, r)
  BY <1>3
<1> HIDE DEF q
<1>10. /\ r \in BankRecords /\ Follows(r) /\ r.at = q /\ r.op = b.op /\ r.sender = b.sender
       /\ r.amount = b.amount /\ r.view = b.view /\ r.seen = b.seen /\ r.dirty = b.dirty
       /\ r.written = b.written
  BY <1>6, <1>7, GoesTo
<1> HIDE DEF r
<1>11. \/ ~r.written /\ r.dirty = {}
       \/ /\ r.dirty = {r.sender}
          /\ Fresh(r, r.sender) => Changes(r, r.sender, -r.amount)
          /\ ~r.written => r.view[r.sender] = <<>>
  BY <1>6, <1>10 DEF Fresh, Changes
<1>12. r.op \in {"withdraw", "transfer"} /\ r.sender \in Accounts
  BY <1>4, <1>5, <1>6, <1>10
<1>13. Works(r)
  <2>1. CASE q = "receiver"
    BY <1>8, <1>10, <1>11, <2>1 DEF Works
  <2>2. CASE q = "commit" /\ ~Aborts(r)
    <3>1. ~(r.op = "transfer" /\ layout # "SeparateTables")
      BY <1>8, <1>10, <2>2 DEF Aborts
    <3>2. ASSUME NEW a \in Accounts
          PROVE  /\ a \notin r.dirty => Recorded(r)[a] = 0
                 /\ a \in r.dirty /\ Fresh(r, a) => Changes(r, a, Recorded(r)[a])
      <4>1. CASE ~r.written
        <5>1. Recorded(r)[a] = 0
          BY <1>10, <4>1, RecordedNothing
        <5>2. a \in r.dirty => r.view[a] = <<>>
          BY <1>11, <4>1
        <5> QED BY <5>1, <5>2 DEF Changes
      <4>2. CASE r.written
        <5>1. r.dirty = {r.sender} /\ (Fresh(r, r.sender) => Changes(r, r.sender, -r.amount))
          BY <1>11, <4>2
        <5>2. /\ a = r.sender => Recorded(r)[a] = -r.amount
              /\ a # r.sender => Recorded(r)[a] = 0
          BY <1>10, <1>12, <3>1, <4>2, RecordedIs
        <5> QED BY <5>1, <5>2
      <4> QED BY <4>1, <4>2
    <3> QED BY <1>10, <2>2, <3>2 DEF Works
  <2>3. CASE q = "commit" /\ Aborts(r)
    BY <1>10, <2>3 DEF Works
  <2> QED BY <1>8, <2>1, <2>2, <2>3
<1> QED BY <1>2, <1>9, <1>10, <1>13, BankClientStep

\* or of the receiver.
LEMMA ChangeReceiverStep ==
  ASSUME BankInv, NEW c \in Bankers, ChangeReceiver(c), WriteFaults \subseteq {"add"}
  PROVE  BankInv'
<1> DEFINE o == banker[c]
           a == Other(o.sender)
<1>1. BankTypes /\ o \in BankRecords /\ Follows(o) /\ Works(o)
  BY DEF BankInv, BankTypes
<1>2. o.at = "receiver" /\ UNCHANGED <<layout, rows, changed, books, torn, unbooked>>
  BY DEF ChangeReceiver
<1>3. PICK b \in Written(o, a, o.amount) \cup {[o EXCEPT !.written = FALSE]} :
        Become(c, [b EXCEPT !.at = "commit"])
  BY DEF ChangeReceiver
<1> HIDE DEF o
<1>4. o.sender \in Accounts /\ o.amount \in Int
  BY <1>1 DEF BankRecords
<1>5. a \in Accounts /\ a # o.sender /\ \A x \in Accounts : x = o.sender \/ x = a
  BY <1>4, TableOfType
<1> HIDE DEF a
<1>6. \/ o.op = "deposit" /\ o.dirty = {}
      \/ /\ o.op = "transfer" /\ layout # "SeparateTables" /\ o.dirty = {o.sender}
         /\ Fresh(o, o.sender) => Changes(o, o.sender, -o.amount)
  BY <1>1, <1>2 DEF Works
<1>7. a \notin o.dirty
  BY <1>5, <1>6
<1>8. /\ b \in BankRecords /\ Follows(b)
      /\ b.op = o.op /\ b.sender = o.sender /\ b.amount = o.amount /\ b.seen = o.seen
      /\ \/ ~b.written /\ b.dirty = o.dirty /\ b.view = o.view
         \/ /\ b.dirty = o.dirty \cup {a}
            /\ \A x \in Accounts : x # a => b.view[x] = o.view[x]
            /\ Fresh(b, a) => Changes(b, a, o.amount)
            /\ ~b.written => b.view[a] = <<>>
  BY <1>1, <1>3, <1>4, <1>5, <1>7, WrittenIs
<1> DEFINE r == [b EXCEPT !.at = "commit"]
<1>9. Become(c, r)
  BY <1>3
<1>10. /\ r \in BankRecords /\ Follows(r) /\ r.at = "commit" /\ r.op = b.op /\ r.sender = b.sender
       /\ r.amount = b.amount /\ r.view = b.view /\ r.seen = b.seen /\ r.dirty = b.dirty
       /\ r.written = b.written
  BY <1>8, GoesTo DEF Steps
<1> HIDE DEF r
<1>11. /\ \/ ~r.written /\ r.dirty = o.dirty /\ r.view = o.view
          \/ /\ r.dirty = o.dirty \cup {a}
             /\ \A x \in Accounts : x # a => r.view[x] = o.view[x]
             /\ Fresh(r, a) => Changes(r, a, r.amount)
             /\ ~r.written => r.view[a] = <<>>
       /\ r.op = o.op /\ r.sender = o.sender /\ r.amount = o.amount /\ r.seen = o.seen
  BY <1>8, <1>10 DEF Fresh, Changes
<1>12. \A x : Fresh(r, x) <=> Fresh(o, x)
  BY <1>11 DEF Fresh
<1>13. ASSUME ~Aborts(r), NEW x \in Accounts
       PROVE  /\ x \notin r.dirty => Recorded(r)[x] = 0
              /\ x \in r.dirty /\ Fresh(r, x) => Changes(r, x, Recorded(r)[x])
  <2>1. CASE ~r.written
    <3>1. Recorded(r)[x] = 0
      BY <1>10, <2>1, RecordedNothing
    <3>2. r.op = "deposit"
      BY <1>6, <1>11, <1>13, <2>1 DEF Aborts
    <3>3. o.dirty = {}
      BY <1>6, <1>11, <3>2
    <3>4. x \in r.dirty => r.view[x] = <<>>
      BY <1>11, <2>1, <3>3
    <3> QED BY <3>1, <3>4 DEF Changes
  <2>2. CASE r.written
    <3>1. /\ r.dirty = o.dirty \cup {a}
          /\ \A y \in Accounts : y # a => r.view[y] = o.view[y]
          /\ Fresh(r, a) => Changes(r, a, r.amount)
      BY <1>11, <2>2
    <3>2. CASE x = a
      <4>1. Recorded(r)[x] = r.amount
        BY <1>5, <1>6, <1>10, <1>11, <2>2, <3>2, RecordedIs
      <4> QED BY <3>1, <3>2, <4>1
    <3>3. CASE x # a
      <4>1. x = r.sender
        BY <1>5, <1>11, <3>3
      <4>2. CASE r.op = "deposit"
        <5>1. Recorded(r)[x] = 0
          BY <1>10, <2>2, <4>1, <4>2, RecordedIs
        <5>2. x \notin r.dirty
          BY <1>6, <1>11, <3>1, <3>3, <4>2
        <5> QED BY <5>1, <5>2
      <4>3. CASE r.op # "deposit"
        <5>1. Recorded(r)[x] = -r.amount
          BY <1>10, <2>2, <4>1, <4>3, RecordedIs
        <5>2. x \in r.dirty /\ (Fresh(o, x) => Changes(o, x, -o.amount))
          BY <1>6, <1>11, <3>1, <4>1, <4>3
        <5>3. r.view[x] = o.view[x]
          BY <3>1, <3>3
        <5> QED BY <1>11, <1>12, <5>1, <5>2, <5>3 DEF Changes
      <4> QED BY <4>2, <4>3
    <3> QED BY <3>2, <3>3
  <2> QED BY <2>1, <2>2
<1>14. Works(r)
  BY <1>10, <1>13 DEF Works
<1> QED BY <1>2, <1>9, <1>10, <1>14, BankClientStep

\* What was recorded of an account is added to the sum of the books.
LEMMA BookedGrows ==
  ASSUME NEW c \in Bankers, NEW r \in [Accounts -> Int], NEW a \in Accounts,
         books \in [Bankers -> [Accounts -> Int]], IsFiniteSet(Bankers),
         books' = [books EXCEPT ![c] = [x \in Accounts |-> books[c][x] + r[x]]]
  PROVE  BookedOf(a) \in Int /\ BookedOf(a)' = BookedOf(a) + r[a]
<1> DEFINE f == Column(a)
           h == [e \in Bankers |-> books'[e][a]]
           d == r[a]
<1>1. f \in [Bankers -> Int] /\ d \in Int
  BY DEF Column
<1>3. \A e \in Bankers : books'[e][a] = IF e = c THEN books[c][a] + d ELSE books[e][a]
  OBVIOUS
<1>4. \A e \in Bankers : f[e] = books[e][a]
  BY DEF Column
<1>5. \A e \in Bankers : h[e] = books'[e][a]
  OBVIOUS
<1>6. h[c] = f[c] + d /\ \A e \in Bankers : e # c => h[e] = f[e]
  BY <1>3, <1>4, <1>5
<1>7. h \in [Bankers -> Int]
  <2>1. ASSUME NEW e \in Bankers PROVE h[e] \in Int
    <3>1. f[e] \in Int /\ f[c] \in Int
      BY <1>1
    <3> HIDE DEF f, h, d
    <3>2. f[c] + d \in Int
      BY <1>1, <3>1
    <3> QED BY <1>6, <3>1, <3>2
  <2> QED BY <2>1
<1>8. BookedOf(a) = Sum(f, Bankers) /\ BookedOf(a)' = Sum(h, Bankers)
  <2>1. Column(a)' = h
    BY DEF Column
  <2> QED BY <2>1, BookedIs, BookedAfter
<1> HIDE DEF f, h, d
<1>9. Sum(f, Bankers) \in Int /\ Sum(h, Bankers) = Sum(f, Bankers) + d
  BY ONLY <1>1, <1>6, <1>7, IsFiniteSet(Bankers), c \in Bankers, SumChanges
<1> QED BY <1>8, <1>9 DEF d

\* A table that a transaction has opened and that has not changed after
\* another one commits was not changed by it.
LEMMA FreshStays ==
  ASSUME BankTypes, NEW b \in BankRecords, NEW D \in SUBSET Accounts, Writes(b, D),
         layout' = layout, NEW s \in BankRecords, Follows(s),
         NEW a \in Accounts, Fresh(s, a)'
  PROVE  Fresh(s, a) /\ rows'[a] = rows[a]
<1> DEFINE t == TableOf(a)
<1>1. /\ rows' = [x \in Accounts |-> IF x \in D THEN b.view[x] ELSE rows[x]]
      /\ changed' = [x \in Accounts |-> IF \E y \in D : TableOf(y) = x THEN changed[x] + 1 ELSE changed[x]]
  BY DEF Writes
<1>2. t \in Accounts /\ changed[t] \in Nat /\ s.seen[t] \in Int /\ s.seen[t] <= changed[t]
  BY TableOfType DEF BankTypes, BankRecords, Follows
<1>3. s.seen[t] = changed'[t]
  BY <1>1 DEF Fresh, TableOf
<1>4. ~\E y \in D : TableOf(y) = t
  BY <1>1, <1>2, <1>3
<1>5. changed'[t] = changed[t]
  BY <1>1, <1>2, <1>4
<1>6. a \notin D
  BY <1>4
<1> QED BY <1>1, <1>3, <1>5, <1>6 DEF Fresh

\* What other clients see goes on to be what the tables say.
LEMMA FollowsStays ==
  ASSUME BankTypes, NEW b \in BankRecords, NEW D \in SUBSET Accounts, Writes(b, D),
         layout' = layout, NEW s \in BankRecords, Follows(s)
  PROVE  Follows(s)'
<1>1. layout' = layout /\ \A x \in Accounts : changed'[x] \in {changed[x], changed[x] + 1}
  BY DEF Writes
<1>2. \A x \in Accounts : changed[x] \in Nat /\ s.seen[x] \in Int /\ s.seen[x] <= changed[x]
  BY DEF BankTypes, BankRecords, Follows
<1>3. \A x \in Accounts : s.seen[x] <= changed'[x]
  <2> TAKE x \in Accounts
  <2> QED BY <1>1, <1>2
<1>4. ASSUME NEW a \in Accounts
      PROVE  /\ s.view[a] # <<>> => s.seen[TableOf(a)] >= 0
             /\ a \in s.dirty => s.seen[TableOf(a)] >= 0
             /\ a \notin s.dirty /\ Fresh(s, a)' => s.view[a] = rows'[a]
  BY FreshStays DEF Follows
<1>5. \A a : TableOf(a)' = TableOf(a)
  BY <1>1 DEF TableOf
<1> QED BY <1>3, <1>4, <1>5 DEF Follows

\* So does what they have written.
LEMMA WorksStays ==
  ASSUME BankTypes, NEW b \in BankRecords, NEW D \in SUBSET Accounts, Writes(b, D),
         layout' = layout, NEW s \in BankRecords, Follows(s), Works(s)
  PROVE  Works(s)'
<1>1. layout' = layout
  OBVIOUS
<1>2. Recorded(s)' = Recorded(s) /\ Aborts(s)' = Aborts(s)
  BY <1>1 DEF Recorded, Aborts
<1>3. ASSUME NEW a \in Accounts, NEW d
      PROVE  (Fresh(s, a) => Changes(s, a, d)) => (Fresh(s, a)' => Changes(s, a, d)')
  BY FreshStays DEF Changes
<1>4. s.sender \in Accounts
  BY DEF BankRecords
<1>5. s.at = "receiver" =>
        \/ s.op = "deposit" /\ s.dirty = {}
        \/ /\ s.op = "transfer" /\ layout' # "SeparateTables" /\ s.dirty = {s.sender}
           /\ Fresh(s, s.sender)' => Changes(s, s.sender, -s.amount)'
  BY <1>1, <1>3, <1>4 DEF Works
<1>6. s.at = "commit" /\ ~Aborts(s)' =>
       \A a \in Accounts :
         /\ a \notin s.dirty => Recorded(s)'[a] = 0
         /\ a \in s.dirty /\ Fresh(s, a)' => Changes(s, a, Recorded(s)[a])'
  <2> SUFFICES ASSUME s.at = "commit", ~Aborts(s), NEW a \in Accounts
               PROVE  /\ a \notin s.dirty => Recorded(s)[a] = 0
                      /\ a \in s.dirty /\ Fresh(s, a)' => Changes(s, a, Recorded(s)[a])'
    BY <1>2
  <2>1. /\ a \notin s.dirty => Recorded(s)[a] = 0
        /\ a \in s.dirty /\ Fresh(s, a) => Changes(s, a, Recorded(s)[a])
    BY DEF Works
  <2>2. SUFFICES ASSUME a \in s.dirty, Fresh(s, a)' PROVE Changes(s, a, Recorded(s)[a])'
    BY <2>1
  <2>3. Fresh(s, a) /\ rows'[a] = rows[a]
    BY <2>2, FreshStays
  <2> QED BY <1>2, <2>1, <2>2, <2>3 DEF Changes
<1> QED BY <1>5, <1>6 DEF Works

\* Some of what a transaction has changed, the accounts D, gets into the log:
\* each row is of a table that has not changed since it was read, and what was
\* changed is in the books or among what a failed commit has left (grows).
Logs(c, D, k, grows) ==
  /\ D \in SUBSET banker[c].dirty /\ Writes(banker[c], D) /\ layout' = layout
  /\ banker[c].at = "commit" /\ (D # {} => ~Aborts(banker[c]))
  /\ \A a \in D : Fresh(banker[c], a)
  /\ k \in BankRecords /\ Become(c, k) /\ Follows(k) /\ Works(k)
  /\ books' \in [Bankers -> [Accounts -> Int]] /\ unbooked' \in [Accounts -> Int]
  /\ grows \in [Accounts -> Int]
  /\ \A a \in D : grows[a] = Recorded(banker[c])[a]
  /\ \A a \in Accounts :
       /\ a \notin D => grows[a] = 0
       /\ BookedOf(a) \in Int /\ BookedOf(a)' \in Int
       /\ BookedOf(a)' + unbooked'[a] = BookedOf(a) + unbooked[a] + grows[a]

LEMMA WritesStep ==
  ASSUME BankInv, NEW c \in Bankers, NEW D, NEW k, NEW grows, Logs(c, D, k, grows)
  PROVE  BankInv'
<1> USE DEF Logs
<1> DEFINE b == banker[c]
<1>1. BankTypes /\ b \in BankRecords /\ Follows(b) /\ Works(b) /\ b.at = "commit"
  BY DEF BankInv, BankTypes
<1>2. /\ rows' = [a \in Accounts |-> IF a \in D THEN b.view[a] ELSE rows[a]]
      /\ changed' = [x \in Accounts |-> IF \E a \in D : TableOf(a) = x THEN changed[x] + 1 ELSE changed[x]]
      /\ torn' = torn \cup {a \in D : b.view[a] = <<>>}
  BY DEF Writes
<1>3. D \in SUBSET Accounts
  BY <1>1 DEF BankRecords
<1>4. Writes(b, D) /\ (D # {} => ~Aborts(b)) /\ (\A a \in D : Fresh(b, a)) /\ D \subseteq b.dirty
  OBVIOUS
<1>5. \A a \in D : grows[a] = Recorded(b)[a]
  OBVIOUS
<1> HIDE DEF b
<1>6. BankTypes'
  <2>1. \A a \in Accounts : rows[a] \in Seq(Int) /\ b.view[a] \in Seq(Int)
    BY <1>1 DEF BankTypes, BankRecords
  <2>2. \A a \in Accounts : changed[a] \in Nat
    BY <1>1 DEF BankTypes
  <2>3. rows' \in [Accounts -> Seq(Int)] /\ changed' \in [Accounts -> Nat]
    <3>1. rows' \in [Accounts -> Seq(Int)]
      BY <1>2, <2>1
    <3>2. changed' \in [Accounts -> Nat]
      BY <1>2, <2>2
    <3> QED BY <3>1, <3>2
  <2>4. banker' \in [Bankers -> BankRecords]
    BY <1>1 DEF BankTypes, Become
  <2> QED BY <1>1, <2>3, <2>4 DEF BankTypes
<1>7. ASSUME NEW e \in Bankers PROVE Follows(banker[e])' /\ Works(banker[e])'
  <2> DEFINE s == banker'[e]
  <2>1. s \in BankRecords /\ Follows(s) /\ Works(s)
    BY <1>1 DEF BankInv, BankTypes, Become
  <2>2. banker[e]' = s
    OBVIOUS
  <2>3. ASSUME NEW q, q = s PROVE Follows(q)' /\ Works(q)'
    BY <1>1, <1>3, <1>4, <2>1, <2>3, FollowsStays, WorksStays
  <2>4. PICK q : q = s
    OBVIOUS
  <2> QED BY <2>3, <2>4 DEF Follows, Works, Fresh, Changes, Aborts, Recorded, TableOf
<1>8. BooksMatchTheBalances'
  <2>1. ASSUME NEW a \in Accounts, a \notin torn'
        PROVE  rows'[a] = <<Opening + BookedOf(a)' + unbooked'[a]>>
    <3>1. a \notin torn /\ (a \in D => b.view[a] # <<>>)
      BY <1>2, <2>1
    <3>2. rows[a] = <<Opening + BookedOf(a) + unbooked[a]>>
      BY <3>1 DEF BankInv, BooksMatchTheBalances
    <3>3. /\ BookedOf(a) \in Int /\ BookedOf(a)' \in Int /\ grows[a] \in Int
          /\ unbooked[a] \in Int /\ unbooked'[a] \in Int /\ Opening \in Int
          /\ BookedOf(a)' + unbooked'[a] = BookedOf(a) + unbooked[a] + grows[a]
      BY <1>1, BankAssumption DEF BankTypes
    <3>4. Opening + BookedOf(a)' + unbooked'[a] = (Opening + BookedOf(a) + unbooked[a]) + grows[a]
      BY <3>3
    <3>5. CASE a \in D
      <4>1. b.view[a] = <<rows[a][1] + grows[a]>>
        BY <1>1, <1>4, <1>5, <3>1, <3>5 DEF Works, Changes
      <4>2. rows[a][1] = Opening + BookedOf(a) + unbooked[a]
        BY <3>2
      <4>3. rows'[a] = b.view[a]
        BY <1>2, <3>5
      <4> QED BY <3>4, <4>1, <4>2, <4>3
    <3>6. CASE a \notin D
      <4>1. grows[a] = 0
        BY <3>6
      <4>2. Opening + BookedOf(a)' + unbooked'[a] = Opening + BookedOf(a) + unbooked[a]
        <5> DEFINE all == Opening + BookedOf(a) + unbooked[a]
        <5>1. all \in Int
          BY <3>3
        <5> HIDE DEF all
        <5>2. all + grows[a] = all
          BY <4>1, <5>1
        <5> QED BY <3>4, <5>2 DEF all
      <4>3. rows'[a] = rows[a]
        BY <1>2, <3>6
      <4> QED BY <3>2, <4>2, <4>3
    <3> QED BY <3>5, <3>6
  <2> QED BY <2>1 DEF BooksMatchTheBalances
<1> QED BY <1>6, <1>7, <1>8 DEF BankInv

\* A commit that succeeds: all that was changed is in the log and in the books.
LEMMA CommitSucceedsStep ==
  ASSUME BankInv, NEW c \in Bankers, CommitSucceeds(c), IsFiniteSet(Bankers), Opening \in Int
  PROVE  BankInv'
<1> DEFINE b == banker[c]
           r == Recorded(b)
<1>1. BankTypes /\ b \in BankRecords /\ Follows(b) /\ Works(b)
  BY DEF BankInv, BankTypes
<1>2. /\ b.at = "commit" /\ ~Aborts(b) /\ ~Conflicts(b) /\ Writes(b, b.dirty)
      /\ books' = [books EXCEPT ![c] = [a \in Accounts |-> books[c][a] + r[a]]]
      /\ UNCHANGED <<layout, unbooked>>
  BY DEF CommitSucceeds
<1>3. PICK k : Become(c, k) /\ k \in BankRecords /\ Follows(k) /\ Works(k)
  <2>1. CASE b.op = "transfer" /\ layout = "SeparateTables" /\ b.written
    <3> DEFINE k == [NewBanker EXCEPT !.at = "deposit", !.op = "deposit",
                          !.sender = b.sender, !.amount = b.amount, !.ops = b.ops]
    <3>1. Become(c, k)
      BY <2>1 DEF CommitSucceeds
    <3> HIDE DEF b
    <3>2. b.amount \in Int /\ b.ops \in Int /\ "deposit" \in Steps /\ "deposit" \in Operations \cup {"deposit"}
      BY <1>1 DEF BankRecords, Steps
    <3>3. k \in BankRecords /\ Follows(k) /\ Works(k)
      BY <1>1, <3>2, LeftIs
    <3> QED BY <3>1, <3>3
  <2>2. CASE ~(b.op = "transfer" /\ layout = "SeparateTables" /\ b.written)
    <3>1. Leave(c)
      BY <2>2 DEF CommitSucceeds
    <3> QED BY <1>1, <3>1, LeavesWith
  <2> QED BY <2>1, <2>2
<1>4. r \in [Accounts -> Int] /\ \A a \in Accounts : a \notin b.dirty => r[a] = 0
  <2>1. r \in [Accounts -> Int]
    BY <1>1, RecordedType
  <2>2. \A a \in Accounts : a \notin b.dirty => r[a] = 0
    BY <1>1, <1>2 DEF Works
  <2> QED BY <2>1, <2>2
<1>5. books' \in [Bankers -> [Accounts -> Int]] /\ unbooked' \in [Accounts -> Int]
  <2> HIDE DEF r
  <2>1. \A a \in Accounts : books[c][a] + r[a] \in Int
    BY <1>1, <1>4 DEF BankTypes
  <2>2. [a \in Accounts |-> books[c][a] + r[a]] \in [Accounts -> Int]
    BY <2>1
  <2> QED BY <1>1, <1>2, <2>2 DEF BankTypes
<1>6. \A a \in b.dirty : Fresh(b, a)
  <2> TAKE a \in b.dirty
  <2>1. a \in Accounts
    BY <1>1 DEF BankRecords
  <2> QED BY <1>1, <1>2, <2>1, TableOfType DEF Follows, Conflicts, Stale, Fresh
<1>7. ASSUME NEW a \in Accounts
      PROVE  /\ BookedOf(a) \in Int /\ BookedOf(a)' \in Int
             /\ BookedOf(a)' + unbooked'[a] = BookedOf(a) + unbooked[a] + r[a]
  <2> HIDE DEF r
  <2>1. BookedOf(a) \in Int /\ BookedOf(a)' = BookedOf(a) + r[a]
    BY <1>1, <1>2, <1>4, BookedGrows DEF BankTypes
  <2>2. r[a] \in Int /\ unbooked[a] \in Int /\ unbooked'[a] = unbooked[a]
    BY <1>1, <1>2, <1>4 DEF BankTypes
  <2> QED BY <2>1, <2>2
<1>9. Logs(c, b.dirty, k, r)
  BY <1>2, <1>3, <1>4, <1>5, <1>6, <1>7 DEF Logs
<1> QED BY <1>9, WritesStep

\* One that fails, and has left some of the changes in the log or none
LEMMA CommitFailsStep ==
  ASSUME BankInv, NEW c \in Bankers, CommitFails(c), IsFiniteSet(Bankers)
  PROVE  BankInv'
<1> DEFINE b == banker[c]
<1>1. BankTypes /\ b \in BankRecords /\ Follows(b) /\ Works(b)
  BY DEF BankInv, BankTypes
<1>2. PICK D \in LeftByFailure(b) :
        /\ Writes(b, D)
        /\ unbooked' = [a \in Accounts |-> IF a \in D THEN unbooked[a] + Recorded(b)[a] ELSE unbooked[a]]
  BY DEF CommitFails
<1>3. b.at = "commit" /\ UNCHANGED <<layout, books>> /\ Leave(c)
  BY DEF CommitFails
<1>4. PICK k : Become(c, k) /\ k \in BankRecords /\ Follows(k) /\ Works(k)
  BY <1>1, <1>3, LeavesWith
<1>5. /\ D \in SUBSET b.dirty /\ D \in SUBSET Accounts /\ (D # {} => ~Aborts(b))
      /\ \A a \in D : ~Stale(b, TableOf(a))
  BY <1>1 DEF LeftByFailure, BankRecords
<1>6. \A a \in D : Fresh(b, a)
  <2> TAKE a \in D
  <2>1. a \in Accounts /\ a \in b.dirty /\ ~Stale(b, TableOf(a))
    BY <1>5
  <2> QED BY <1>1, <2>1 DEF Follows, Stale, Fresh
<1>7. PICK r \in [Accounts -> Int] :
        /\ \A a \in D : r[a] = Recorded(b)[a]
        /\ \A a \in Accounts : a \notin D => r[a] = 0
  <2> DEFINE r == [a \in Accounts |-> IF a \in D THEN Recorded(b)[a] ELSE 0]
  <2>1. r \in [Accounts -> Int]
    BY <1>1, RecordedType
  <2>2. /\ \A a \in D : r[a] = Recorded(b)[a]
        /\ \A a \in Accounts : a \notin D => r[a] = 0
    BY <1>5
  <2> QED BY <2>1, <2>2
<1>9. ASSUME NEW a \in Accounts
      PROVE  unbooked'[a] = unbooked[a] + r[a] /\ unbooked[a] \in Int
  <2>1. unbooked[a] \in Int
    BY <1>1 DEF BankTypes
  <2> QED BY <1>2, <1>7, <2>1
<1>10. unbooked' \in [Accounts -> Int] /\ books' \in [Bankers -> [Accounts -> Int]]
  <2>1. \A a \in Accounts : unbooked[a] + r[a] \in Int
    BY <1>7, <1>9
  <2>2. unbooked' = [a \in Accounts |-> unbooked[a] + r[a]]
    BY <1>2, <1>9
  <2> QED BY <1>1, <1>3, <2>1, <2>2 DEF BankTypes
<1>11. ASSUME NEW a \in Accounts
       PROVE  /\ BookedOf(a) \in Int /\ BookedOf(a)' \in Int
              /\ BookedOf(a)' + unbooked'[a] = BookedOf(a) + unbooked[a] + r[a]
  <2> DEFINE zero == [x \in Accounts |-> 0]
  <2>1. zero \in [Accounts -> Int] /\ zero[a] = 0
    OBVIOUS
  <2>2. books' = [books EXCEPT ![c] = [x \in Accounts |-> books[c][x] + zero[x]]]
    <3>1. books[c] \in [Accounts -> Int] /\ books' = books /\ books \in [Bankers -> [Accounts -> Int]]
      BY <1>1, <1>3 DEF BankTypes
    <3>2. [x \in Accounts |-> books[c][x] + zero[x]] = books[c]
      BY <3>1
    <3> QED BY <3>1, <3>2
  <2> HIDE DEF zero
  <2>3. BookedOf(a) \in Int /\ BookedOf(a)' = BookedOf(a) + zero[a]
    BY <1>1, <2>1, <2>2, BookedGrows DEF BankTypes
  <2>4. r[a] \in Int
    BY <1>7
  <2> QED BY <1>9, <2>1, <2>3, <2>4
<1>12. Logs(c, D, k, r)
  BY <1>2, <1>3, <1>4, <1>5, <1>6, <1>7, <1>10, <1>11 DEF Logs
<1> QED BY <1>12, WritesStep

\* The invariant holds at the beginning and in every step.
LEMMA BankInitially ==
  ASSUME BankInit, IsFiniteSet(Bankers), Opening \in Int,
         BankLayouts \subseteq {"Query", "MultiTable", "SeparateTables"}
  PROVE  BankInv
<1> USE DEF BankInit
<1>1. \A a \in Accounts : rows[a] = <<Opening>> /\ <<Opening>> \in Seq(Int)
  OBVIOUS
<1>2. rows \in [Accounts -> Seq(Int)] /\ changed \in [Accounts -> Nat]
  BY <1>1
<1>3. books \in [Bankers -> [Accounts -> Int]] /\ layout \in {"Query", "MultiTable", "SeparateTables"}
  OBVIOUS
<1>4. NewBanker \in BankRecords /\ Follows(NewBanker) /\ Works(NewBanker)
  <2>1. NoSnapshot \in [Accounts -> Seq(Int)]
    BY DEF NoSnapshot
  <2> DEFINE s == [x \in Accounts |-> -1]
  <2>2. s \in [Accounts -> Int] /\ \A x \in Accounts : s[x] = -1
    OBVIOUS
  <2>3. NewBanker = [at |-> "idle", op |-> "read", sender |-> 1, amount |-> 0, ops |-> 0,
                     view |-> NoSnapshot, seen |-> s, dirty |-> {}, written |-> FALSE]
    BY DEF NewBanker
  <2> HIDE DEF s
  <2>4. NewBanker \in BankRecords
    BY <2>1, <2>2, <2>3 DEF BankRecords, Steps, Operations, Accounts
  <2>5. \A a \in Accounts : /\ NewBanker.view[a] = <<>> /\ NewBanker.seen[a] = -1
                            /\ NewBanker.seen[TableOf(a)] = -1
                            /\ changed[a] = 0 /\ changed[TableOf(a)] = 0
    BY <2>2, <2>3, TableOfType DEF NoSnapshot
  <2>6. \A a \in Accounts : ~Fresh(NewBanker, a)
    BY <2>5 DEF Fresh
  <2>7. Follows(NewBanker)
    <3>1. NewBanker.dirty = {}
      BY <2>3
    <3> HIDE DEF BankInit
    <3>2. \A x \in Accounts : NewBanker.seen[x] <= changed[x]
      <4> TAKE x \in Accounts
      <4>1. NewBanker.seen[x] = -1 /\ changed[x] = 0
        BY <2>5
      <4> QED BY <4>1
    <3> QED BY <2>5, <2>6, <3>1, <3>2 DEF Follows
  <2>8. Works(NewBanker)
    BY <2>3 DEF Works
  <2> QED BY <2>4, <2>7, <2>8
<1>5. BankTypes
  <2>1. unbooked \in [Accounts -> Int]
    OBVIOUS
  <2> QED BY <1>2, <1>3, <1>4, <2>1 DEF BankTypes
<1>6. ASSUME NEW a \in Accounts PROVE BookedOf(a) = 0
  <2>1. \A c \in Bankers : Column(a)[c] = 0
    BY DEF Column
  <2>2. Sum(Column(a), Bankers) = 0
    BY <2>1, SumOfZeros
  <2> QED BY <2>2, BookedIs
<1>7. BooksMatchTheBalances
  <2>1. \A a \in Accounts : unbooked[a] = 0
    OBVIOUS
  <2> QED BY <1>1, <1>6, <2>1 DEF BooksMatchTheBalances
<1> QED BY <1>4, <1>5, <1>7 DEF BankInv

LEMMA BankInductive ==
  ASSUME WriteFaults \subseteq {"add"}
  PROVE  /\ BankInit => BankInv
         /\ (BankInv /\ [BankNext]_bankVars => BankInv')
<1>0. IsFiniteSet(Bankers) /\ Amounts \subseteq Int /\ Opening \in Int
      /\ BankLayouts \subseteq {"Query", "MultiTable", "SeparateTables"}
  BY BankAssumption
<1>1. BankInit => BankInv
  BY <1>0, BankInitially
<1>2. ASSUME BankInv, [BankNext]_bankVars PROVE BankInv'
  <2>1. CASE UNCHANGED bankVars
    <3>1. UNCHANGED <<layout, rows, changed, books, torn, unbooked>> /\ banker' = banker
      BY <2>1 DEF bankVars
    <3>2. BankTypes'
      BY <1>2, <3>1 DEF BankInv, BankTypes
    <3>3. \A c \in Bankers : Follows(banker[c])' /\ Works(banker[c])'
      BY <1>2, <3>1 DEF BankInv, Follows, Works, Fresh, TableOf, Changes, Aborts, Recorded
    <3>4. BooksMatchTheBalances'
      <4>1. \A a : Column(a)' = Column(a)
        BY <3>1 DEF Column
      <4>2. \A a : BookedOf(a)' = BookedOf(a)
        BY <4>1, BookedIs, BookedAfter
      <4> QED BY <1>2, <3>1, <4>2 DEF BankInv, BooksMatchTheBalances
    <3> QED BY <3>2, <3>3, <3>4 DEF BankInv
  <2>2. ASSUME NEW c \in Bankers,
               \/ StartOperation(c) \/ OpenReceiver(c) \/ ChangeSender(c) \/ ChangeReceiver(c)
               \/ CommitSucceeds(c) \/ CommitFails(c) \/ BeginDeposit(c)
        PROVE  BankInv'
    BY <1>0, <1>2, <2>2, StartOperationStep, OpenReceiverStep, ChangeSenderStep,
       ChangeReceiverStep, CommitSucceedsStep, CommitFailsStep, BeginDepositStep
  <2> QED BY <1>2, <2>1, <2>2 DEF BankNext
<1> QED BY <1>1, <1>2

\* lhtransactionsBanking, for any number of clients and operations: an account
\* whose row was not lost holds one row, with the opening balance, what all
\* clients have booked and what commits left in the log that reported a failure,
\* as long as the removal of a row does not fail.  A new row that cannot be
\* written loses the row.
THEOREM BooksAreRight ==
  ASSUME WriteFaults \subseteq {"add"}
  PROVE  BankSpec => []BooksMatchTheBalances
<1>1. BankInit => BankInv
  BY BankInductive
<1>2. BankInv /\ [BankNext]_bankVars => BankInv'
  BY BankInductive
<1>3. BankInv => BooksMatchTheBalances
  BY DEF BankInv
<1> QED BY <1>1, <1>2, <1>3, PTL DEF BankSpec
=============================================================================
