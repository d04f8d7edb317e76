----------------------------- MODULE StoreClock -----------------------------
(***************************************************************************)
(* How a client estimates the time of the object store: OffsetClock (from  *)
(* the Date headers of responses) and store_time() of the S3 connector.    *)
(*                                                                         *)
(* Time is in units of the model, not in milliseconds; the local clock of  *)
(* client c shows now - offset[c].  A local clock may be set (Jump).       *)
(***************************************************************************)
EXTENDS Integers

CONSTANTS
  ClockClients,
  Resolution,    \* resolution of the Date header (1000 ms)
  RefreshAfter,  \* age of the last sample that triggers a new one (250 ms)
  Offsets,       \* the offsets of the store's clock to a local clock
  MaxSamples,    \* bound on the requests for the store's time
  MaxJumps,      \* bound on the times that a local clock is set
  ClockMaxTime        \* bound on the store's time

ASSUME ClockAssumption ==
  /\ {Resolution, RefreshAfter, ClockMaxTime, MaxJumps, MaxSamples} \subseteq Nat
  /\ Resolution > 0
  /\ Offsets \subseteq Int

VARIABLES
  now,      \* the time of the store
  offset,   \* offset[c]: the true offset of the store's clock to c's clock
  jumps,    \* the jumps so far
  samples,  \* the requests for the store's time so far
  clock,    \* clock[c]: the OffsetClock of c's connector
  call,     \* call[c]: c's call of store_time()
  steady,   \* history: c's clock was not set since the interval's first sample
  calm      \* history: c has a request under way since which it was not set

clockVars == <<now, offset, jumps, samples, clock, call, steady, calm>>

Clocks == [valid : BOOLEAN, low : Int, high : Int, last : Int]
Calls == [at : {"idle", "sent", "answered", "done"}, sent : Int, date : Int,
          dated : BOOLEAN]

Local(c) == now - offset[c]
Call(a, s, d, b) == [at |-> a, sent |-> s, date |-> d, dated |-> b]
Idle == Call("idle", 0, 0, FALSE)
Done == Call("done", 0, 0, FALSE)

Larger(a, b) == IF a >= b THEN a ELSE b
Smaller(a, b) == IF a <= b THEN a ELSE b

\* Mutant: the local time of the response is taken for that of the request.
SampleOfReceived(date, sent, received) ==
  [low |-> date - received, high |-> date + Resolution - received]

\* The offset as one response bounds it
Sample(date, sent, received) ==
  [low |-> date - received, high |-> date + Resolution - sent]

\* add_sample: the interval narrows, or starts over when it contradicts the
\* new one.
Consistent(k, s) == k.valid /\ s.low <= k.high /\ s.high >= k.low
AddSample(k, s, received) ==
  [valid |-> TRUE,
   low |-> IF Consistent(k, s) THEN Larger(k.low, s.low) ELSE s.low,
   high |-> IF Consistent(k, s) THEN Smaller(k.high, s.high) ELSE s.high,
   last |-> received]

\* Division by two as C++ does it: towards zero.
Half(n) == IF n >= 0 THEN n \div 2 ELSE -((-n) \div 2)

\* OffsetClock::now(): without samples the local time, as if it were exact
NowMs(c) ==
  IF clock[c].valid
  THEN Local(c) + clock[c].low + Half(clock[c].high - clock[c].low)
  ELSE Local(c)
Uncertainty(c) ==
  IF clock[c].valid THEN Half(clock[c].high - clock[c].low + 1) ELSE 0

Earliest(c) == NowMs(c) - Uncertainty(c)
Latest(c) == NowMs(c) + Uncertainty(c)

-----------------------------------------------------------------------------
ClockInit ==
  /\ now = 0
  /\ offset \in [ClockClients -> Offsets]
  /\ jumps = 0
  /\ samples = 0
  /\ clock = [c \in ClockClients |-> [valid |-> FALSE, low |-> 0, high |-> 0, last |-> 0]]
  /\ call = [c \in ClockClients |-> Idle]
  /\ steady = [c \in ClockClients |-> FALSE]
  /\ calm = [c \in ClockClients |-> FALSE]

ClockTick == /\ now < ClockMaxTime
        /\ now' = now + 1
        /\ UNCHANGED <<offset, jumps, samples, clock, call, steady, calm>>

\* Someone sets the local clock of c.
Jump(c) ==
  /\ jumps < MaxJumps
  /\ jumps' = jumps + 1
  /\ \E o \in Offsets \ {offset[c]} : offset' = [offset EXCEPT ![c] = o]
  /\ steady' = [steady EXCEPT ![c] = FALSE]
  /\ calm' = [calm EXCEPT ![c] = FALSE]
  /\ UNCHANGED <<now, samples, clock, call>>

\* store_time(): a sample is due without any, or when the last one is old by
\* the local clock.
SampleDue(c) == ~clock[c].valid \/ Local(c) - clock[c].last > RefreshAfter

RequestSample(c) ==
  /\ call[c].at = "idle"
  /\ SampleDue(c)
  /\ samples < MaxSamples
  /\ samples' = samples + 1
  /\ call' = [call EXCEPT ![c] = Call("sent", Local(c), 0, FALSE)]
  /\ calm' = [calm EXCEPT ![c] = TRUE]
  /\ UNCHANGED <<now, offset, jumps, clock, steady>>

\* The store answers with its time, truncated; or the request fails.
Answer(c) ==
  /\ call[c].at = "sent"
  /\ \E dated \in BOOLEAN :
       call' = [call EXCEPT ![c] =
         Call("answered", @.sent, IF dated THEN now - (now % Resolution) ELSE 0, dated)]
  /\ UNCHANGED <<now, offset, jumps, samples, clock, steady, calm>>

\* The response arrives and becomes a sample if it has a Date header.
Receive(c) ==
  LET s == Sample(call[c].date, call[c].sent, Local(c)) IN
  /\ call[c].at = "answered"
  /\ call' = [call EXCEPT ![c] = Done]
  /\ calm' = [calm EXCEPT ![c] = FALSE]
  /\ IF call[c].dated
     THEN /\ clock' = [clock EXCEPT ![c] = AddSample(@, s, Local(c))]
          /\ steady' = [steady EXCEPT ![c] =
               calm[c] /\ (Consistent(clock[c], s) => @)]
     ELSE UNCHANGED <<clock, steady>>
  /\ UNCHANGED <<now, offset, jumps, samples>>

\* store_time() returns, after the response or without a request (beyond the
\* bound every request fails); the caller uses what the estimate is then.
Return(c) ==
  /\ \/ call[c].at = "done"
     \/ call[c].at = "idle" /\ (~SampleDue(c) \/ samples = MaxSamples)
  /\ call' = [call EXCEPT ![c] = Idle]
  /\ UNCHANGED <<now, offset, jumps, samples, clock, steady, calm>>

ClockNext == \/ ClockTick
        \/ \E c \in ClockClients : \/ Jump(c) \/ RequestSample(c) \/ Answer(c)
                              \/ Receive(c) \/ Return(c)

ClockSpec == ClockInit /\ [][ClockNext]_clockVars

-----------------------------------------------------------------------------
(* Properties *)

ClockTypeOK ==
  /\ now \in Nat
  /\ offset \in [ClockClients -> Int]
  /\ jumps \in Nat
  /\ samples \in Nat
  /\ clock \in [ClockClients -> Clocks]
  /\ call \in [ClockClients -> Calls]
  /\ steady \in [ClockClients -> BOOLEAN]
  /\ calm \in [ClockClients -> BOOLEAN]

Trusted(c) == clock[c].valid /\ steady[c]

\* As long as a local clock is not set, no rounding of the header, delay of a
\* response or order of the samples makes the estimate of OffsetClock wrong:
\* the store's time lies between earliest() and latest().
EstimateHoldsTheTruth ==
  \A c \in ClockClients : Trusted(c) => Earliest(c) <= now /\ now <= Latest(c)
=============================================================================
