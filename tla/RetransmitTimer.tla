-------------------------- MODULE RetransmitTimer --------------------------
(***************************************************************************)
(* The retransmission timers of a tunnel: the round-trip estimator         *)
(* (rpc/libnetStack/lib/rtt.c), the ring of timer buckets                  *)
(* (reliabilityWindow.c) and the parts of tunnel.c that start, stop and    *)
(* act on timers (_tunnelSend, tunnelIsNewPacket, tunnelResend).  Module   *)
(* Tunnel has the packets; there any packet on the window may be found     *)
(* expired.                                                                *)
(*                                                                         *)
(* Time is in milliseconds.  The clock runs on between any two reads of    *)
(* it, also within one call.  The lists are sets: the order in which       *)
(* packets of one bucket are sent again is abstracted.                     *)
(***************************************************************************)
EXTENDS Integers, FiniteSets

CONSTANTS
  Slot,              \* slots of the reliability window
  Buckets,           \* RTT_BUCKETS (65536)
  RttMin,            \* RTT_MIN (1)
  RttMax,            \* RTT_MAX (60000)
  InitialVar,        \* rttVar of rttInit (25)
  MaxTime,           \* bound: last instant of the clock
  Leap,              \* bound: the clock advances by less than Leap between reads
  MaxTransmits,      \* bound: a packet is sent at most MaxTransmits times
  ClockMayGoBack,    \* TRUE: mixinGetTimeOfDay may return an earlier time
  DeviceMayBlock     \* TRUE: netInterfaceSendFull may hold

ASSUME TimerAssumption ==
  /\ IsFiniteSet(Slot)
  /\ Buckets \in Nat /\ RttMax \in Nat /\ RttMin \in Nat \ {0}
  /\ RttMin <= RttMax /\ RttMax < Buckets
  /\ InitialVar \in Nat /\ MaxTime \in Nat /\ Leap \in Nat /\ MaxTransmits \in Nat
  /\ ClockMayGoBack \in BOOLEAN /\ DeviceMayBlock \in BOOLEAN

VARIABLES
  clock,             \* the time of day, in ms since the machine was started
  lastTime,          \* "last time the timer array was checked for expiration"
  timer,             \* timer[b]: the slots in bucket b
  expired,           \* ni->expiredRwSlots
  rw,                \* rw[i]: the ReliabilityWindow of slot i
  rtt,               \* tunnel->rtt
  resending,         \* tunnelResend is running
  toResend           \* slots on expired when tunnelResend began, not yet done

vars == <<clock, lastTime, timer, expired, rw, rtt, resending, toResend>>

Bucket == 0..(Buckets - 1)

-----------------------------------------------------------------------------
(* The round-trip estimator.                                               *)

\* Division of C: towards zero.
Quotient(a, b) == IF a >= 0 THEN a \div b ELSE -((-a) \div b)

\* Mutant: no upper limit.
MinMaxUnbounded(rto) == IF rto < RttMin THEN RttMin ELSE rto

\* _rttMinMax
MinMax(rto) == IF rto < RttMin THEN RttMin ELSE IF rto > RttMax THEN RttMax ELSE rto

rttInit == [srtt |-> 0, rttVar |-> InitialVar, rto |-> MinMax(4 * InitialVar)]

\* rttUpdateRto on a measured round trip.
rttUpdateRto(r, measured) ==
  LET delta  == measured - r.srtt
      srtt   == r.srtt + Quotient(delta, 8)
      rttVar == r.rttVar + Quotient((IF delta < 0 THEN -delta ELSE delta) - r.rttVar, 4)
  IN [srtt |-> srtt, rttVar |-> rttVar, rto |-> MinMax(srtt + 4 * rttVar)]

rttTimeout(r) == [r EXCEPT !.rto = MinMax(2 * @)]

\* rttCurrentTime: the static lastTime that should hold the clock back is never
\* assigned, so it keeps its initial value.
staticLastTime == 0
rttCurrentTime(t) == IF t < staticLastTime THEN staticLastTime ELSE t

-----------------------------------------------------------------------------
(* The ring of buckets.                                                    *)

\* Mutant: only the bucket of the present time is emptied.
PassedLast(from, to) == {t % Buckets : t \in (to - 1)..(to - 1)}

\* The buckets reliabilityWindowDo empties; after Buckets ticks, all of them.
Passed(from, to) ==
  IF to - from > Buckets THEN Bucket ELSE {t % Buckets : t \in from..(to - 1)}

\* reliabilityWindowDo at time t, on the lists ring = [last, timer, expired].
Do(ring, t) ==
  [last |-> t,
   timer |-> [b \in Bucket |-> IF b \in Passed(ring.last, t) THEN {} ELSE ring.timer[b]],
   expired |-> ring.expired \cup UNION {ring.timer[b] : b \in Passed(ring.last, t)}]

\* The end of reliabilityWindowAdd: slot i, to go off at time when.
Insert(ring, i, when) ==
  IF when < ring.last
  THEN [ring EXCEPT !.expired = @ \cup {i}]
  ELSE [ring EXCEPT !.timer[when % Buckets] = @ \cup {i}]

\* Mutant: the timer is inserted before the ring is brought up to date.
AddBeforeDo(ring, i, when, t) == Do(Insert(ring, i, when), t)

\* reliabilityWindowAdd: bring the ring up to time t, then insert.
Add(ring, i, when, t) == Insert(Do(ring, t), i, when)

\* Mutant: a timer that has gone off is not taken off its list.
RemoveFromBucketOnly(ring, i) ==
  [ring EXCEPT !.timer = [b \in Bucket |-> @[b] \ {i}]]

\* reliabilityWindowRemove: list_del_init, whichever list it is.
Remove(ring, i) ==
  [ring EXCEPT !.timer = [b \in Bucket |-> @[b] \ {i}], !.expired = @ \ {i}]

Ring == [last |-> lastTime, timer |-> timer, expired |-> expired]

RingBecomes(ring) ==
  /\ lastTime' = ring.last
  /\ timer' = ring.timer
  /\ expired' = ring.expired

-----------------------------------------------------------------------------
Init ==
  /\ clock \in 0..Leap
  /\ lastTime = rttCurrentTime(clock)
  /\ timer = [b \in Bucket |-> {}]
  /\ expired = {}
  /\ rw = [i \in Slot |-> [packet |-> FALSE, timestamp |-> 0,
                           retransmitTime |-> 0, transmitCount |-> 0]]
  /\ rtt = rttInit
  /\ resending = FALSE
  /\ toResend = {}

\* Instants at which the clock may next be read.
Later(t) == {u \in t..MaxTime : u - t < Leap}

\* The clock is set back.
SetBack ==
  /\ ClockMayGoBack
  /\ clock' \in 0..(clock - 1)
  /\ UNCHANGED <<lastTime, timer, expired, rw, rtt, resending, toResend>>

\* reliabilityWindowAdd reads the clock twice: at t1 for the time stamp and at t2
\* in reliabilityWindowDo, where ASSERT(timeNow >= lastTime) has to hold.
StartTimer(ring, i, count, rto) ==
  \E t1 \in Later(clock) : \E t2 \in Later(t1) :
    /\ rttCurrentTime(t2) >= ring.last
    /\ LET now == rttCurrentTime(t1) IN
         /\ rw' = [rw EXCEPT ![i] = [packet |-> TRUE, timestamp |-> now,
                                     retransmitTime |-> now + rto,
                                     transmitCount |-> count]]
         /\ RingBecomes(Add(ring, i, now + rto, rttCurrentTime(t2)))
    /\ clock' = t2

\* _tunnelSend puts a packet on slot i.
Send(i) ==
  /\ ~resending
  /\ ~rw[i].packet
  /\ StartTimer(Ring, i, 1, rtt.rto)
  /\ UNCHANGED <<rtt, resending, toResend>>

\* tunnelIsNewPacket frees slot i; first says that the frame acknowledges exactly
\* the first packet of the tunnel.
Acknowledge(i, first) ==
  /\ ~resending
  /\ rw[i].packet
  /\ \E t \in Later(clock) :
       LET measured == rttCurrentTime(t) - rw[i].timestamp
           updated  == IF rw[i].transmitCount = 1 THEN rttUpdateRto(rtt, measured) ELSE rtt
       IN /\ rtt' = IF first THEN rttInit ELSE updated
          /\ clock' = IF rw[i].transmitCount = 1 THEN t ELSE clock
  /\ rw' = [rw EXCEPT ![i].packet = FALSE]
  /\ RingBecomes(Remove(Ring, i))
  /\ UNCHANGED <<resending, toResend>>

\* reliabilityWindowDo at the beginning of netInterfacePending.
Check ==
  /\ ~resending
  /\ \E t \in Later(clock) :
       /\ rttCurrentTime(t) >= lastTime
       /\ RingBecomes(Do(Ring, rttCurrentTime(t)))
       /\ clock' = t
  /\ UNCHANGED <<rw, rtt, resending, toResend>>

\* tunnelResend begins to go through the expired slots.
BeginResend ==
  /\ ~resending
  /\ expired # {}
  /\ resending' = TRUE
  /\ toResend' = expired
  /\ UNCHANGED <<clock, lastTime, timer, expired, rw, rtt>>

\* Mutant: every packet that is sent a second time doubles the timeout.
BackedOffAlways(i) == IF rw[i].transmitCount = 1 THEN rttTimeout(rtt) ELSE rtt

\* The estimator after slot i expired: the timeout is doubled for a packet that
\* was sent once, with a timeout not less than the present one.
BackedOff(i) ==
  IF rw[i].transmitCount = 1 /\ rtt.rto <= rw[i].retransmitTime - rw[i].timestamp
  THEN rttTimeout(rtt) ELSE rtt

\* One round of the loop of tunnelResend.  It visits every slot that was on the
\* list when it began, and perhaps slots that reliabilityWindowAdd has appended.
ResendOne(i) ==
  /\ resending
  /\ i \in expired
  /\ rw[i].transmitCount < MaxTransmits
  /\ rtt' = BackedOff(i)
  /\ StartTimer(Remove(Ring, i), i, rw[i].transmitCount + 1, BackedOff(i).rto)
  /\ toResend' = toResend \ {i}
  /\ UNCHANGED resending

\* ... ends, or stops because the device is full.
EndResend ==
  /\ resending
  /\ toResend = {} \/ DeviceMayBlock
  /\ resending' = FALSE
  /\ toResend' = {}
  /\ UNCHANGED <<clock, lastTime, timer, expired, rw, rtt>>

Next ==
  \/ SetBack
  \/ \E i \in Slot : Send(i)
  \/ \E i \in Slot, first \in BOOLEAN : Acknowledge(i, first)
  \/ Check
  \/ BeginResend
  \/ \E i \in Slot : ResendOne(i)
  \/ EndResend

Spec == Init /\ [][Next]_vars

-----------------------------------------------------------------------------
(* Properties.                                                             *)

Window == [packet : BOOLEAN, timestamp : Nat, retransmitTime : Nat, transmitCount : Nat]

\* Types; in particular the timeout is within its limits whatever was measured.
TypeOK ==
  /\ clock \in Nat /\ lastTime \in Nat
  /\ timer \in [Bucket -> SUBSET Slot]
  /\ expired \in SUBSET Slot
  /\ rw \in [Slot -> Window]
  /\ rtt \in [srtt : Int, rttVar : Int, rto : RttMin..RttMax]
  /\ resending \in BOOLEAN
  /\ toResend \in SUBSET Slot

\* A packet on the window has one timer: it waits in the bucket of its time and
\* in no other, or it has expired, never both; a slot without a packet is on no
\* list, where reliabilityWindowDo would follow its null packet.  So no packet is
\* forgotten: each of them will be found.
TimerForEveryPacket ==
  \A i \in Slot :
    LET at == {b \in Bucket : i \in timer[b]} IN
      IF ~rw[i].packet THEN at = {} /\ i \notin expired
      ELSE \/ at = {} /\ i \in expired
           \/ at = {rw[i].retransmitTime % Buckets} /\ i \notin expired

\* A timer in the ring is due neither before the ring's present nor a whole turn
\* or more after it, so its bucket is reached exactly when it is due
\* (ASSERT((rw->retransmitTime - lastTime) < RTT_BUCKETS), reliabilityWindow.c:114).
RingHoldsOneTurn ==
  \A b \in Bucket : \A i \in timer[b] :
    /\ rw[i].retransmitTime >= lastTime
    /\ rw[i].retransmitTime - lastTime < Buckets

\* No packet is sent again before its time has passed.
NeverEarly ==
  [][\A i \in Slot :
       rw'[i].transmitCount > rw[i].transmitCount /\ rw[i].packet
         => rw[i].retransmitTime < lastTime']_vars

\* Packets lost together back off together: however many of them are sent again,
\* the timeout becomes at most twice the one that such a packet had.
BackoffOnce ==
  [][\A i \in Slot :
       rw[i].packet /\ rw'[i].transmitCount = rw[i].transmitCount + 1 /\ rtt' # rtt
         => rtt'.rto <= 2 * (rw[i].retransmitTime - rw[i].timestamp)]_vars

\* ASSERT(timeNow >= lastTime), reliabilityWindow.c:41, at the next check.
TimeNeverBeforeLast == rttCurrentTime(clock) >= lastTime
=============================================================================
