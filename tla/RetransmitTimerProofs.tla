----------------------- MODULE RetransmitTimerProofs -----------------------
(***************************************************************************)
(* What TLAPS proves of module RetransmitTimer, for any number of slots    *)
(* and buckets and any limits of the timeout: every packet on the window   *)
(* has exactly one timer, the ring never holds more than one turn, no      *)
(* packet is sent again early, and a burst of losses doubles the timeout   *)
(* once.  (Where the clock goes back the host stops at an assertion; these *)
(* hold until then.)                                                       *)
(*                                                                         *)
(* The inductive invariant speaks of one slot at a time (Placed).  Each    *)
(* operation on the ring has a lemma that says what it does to Placed, and *)
(* the actions are compositions of these operations.                       *)
(***************************************************************************)
EXTENDS RetransmitTimer, TLAPS

RingType == [last : Nat, timer : [Bucket -> SUBSET Slot], expired : SUBSET Slot]

\* Slot i is on no list.
Absent(ring, i) == i \notin ring.expired /\ \A b \in Bucket : i \notin ring.timer[b]

\* Slot i waits in its bucket, within one turn of the present.
Waiting(ring, i, when) ==
  /\ \A b \in Bucket : i \in ring.timer[b] <=> b = when % Buckets
  /\ i \notin ring.expired
  /\ when >= ring.last
  /\ when - ring.last < Buckets

\* Slot i has expired, and its time has passed.
Expired(ring, i, when) ==
  /\ \A b \in Bucket : i \notin ring.timer[b]
  /\ i \in ring.expired
  /\ when < ring.last

Placed(ring, w, i) ==
  IF w.packet THEN Waiting(ring, i, w.retransmitTime) \/ Expired(ring, i, w.retransmitTime)
  ELSE Absent(ring, i)

\* The inductive invariant.
Sound == TypeOK /\ \A i \in Slot : Placed(Ring, rw[i], i)

-----------------------------------------------------------------------------
(* Arithmetic.                                                             *)

LEMMA Constants ==
  /\ Buckets \in Nat \ {0} /\ RttMax \in Nat /\ RttMin \in Nat \ {0}
  /\ RttMin <= RttMax /\ RttMax < Buckets /\ InitialVar \in Nat
BY TimerAssumption

LEMMA BucketOf ==
  ASSUME NEW t \in Nat
  PROVE  t % Buckets \in Bucket
BY Constants DEF Bucket

\* Two instants of one turn that share a bucket are the same.
LEMMA OneTurn ==
  ASSUME NEW x \in Nat, NEW y \in Nat, NEW m \in Nat \ {0},
         x % m = y % m, x - y < m, y - x < m
  PROVE  x = y
<1> DEFINE q == x \div m
           p == y \div m
<1>1. q \in Int /\ x = m * q + (x % m)
  OBVIOUS
<1>2. p \in Int /\ y = m * p + (y % m)
  OBVIOUS
<1> HIDE DEF q, p
<1>3. x - y = m * (q - p)
  BY <1>1, <1>2
<1>4. \A d \in Int : d >= 1 => m * d >= m
  OBVIOUS
<1>5. ~(q - p >= 1)
  BY <1>1, <1>2, <1>3, <1>4
<1>6. ~(p - q >= 1)
  <2>1. y - x = m * (p - q)
    BY <1>1, <1>2
  <2> QED
    BY <1>1, <1>2, <1>4, <2>1
<1>7. q = p
  BY <1>1, <1>2, <1>5, <1>6
<1> QED
  BY <1>1, <1>2, <1>7

LEMMA MinMaxRange ==
  ASSUME NEW rto \in Int
  PROVE  MinMax(rto) \in RttMin..RttMax
BY Constants DEF MinMax

\* The estimator keeps the timeout within its limits.
Estimator == [srtt : Int, rttVar : Int, rto : RttMin..RttMax]

LEMMA QuotientInt ==
  ASSUME NEW a \in Int, NEW b \in Nat \ {0}
  PROVE  Quotient(a, b) \in Int
BY DEF Quotient

LEMMA EstimatorType ==
  /\ rttInit \in Estimator
  /\ \A r \in Estimator : rttTimeout(r) \in Estimator
  /\ \A r \in Estimator : \A m \in Int : rttUpdateRto(r, m) \in Estimator
<1>1. rttInit \in Estimator
  <2>1. 4 * InitialVar \in Int /\ InitialVar \in Int
    BY Constants
  <2> QED
    BY <2>1, MinMaxRange DEF rttInit, Estimator
<1>2. ASSUME NEW r \in Estimator
      PROVE  rttTimeout(r) \in Estimator
  <2>1. 2 * r.rto \in Int
    BY Constants DEF Estimator
  <2> QED
    BY <2>1, MinMaxRange DEF rttTimeout, Estimator
<1>3. ASSUME NEW r \in Estimator, NEW m \in Int
      PROVE  rttUpdateRto(r, m) \in Estimator
  <2> DEFINE delta  == m - r.srtt
             change == (IF delta < 0 THEN -delta ELSE delta) - r.rttVar
             srtt   == r.srtt + Quotient(delta, 8)
             rttVar == r.rttVar + Quotient(change, 4)
  <2>1. r.srtt \in Int /\ r.rttVar \in Int
    BY DEF Estimator
  <2>2. delta \in Int /\ change \in Int
    BY <2>1
  <2>3. srtt \in Int /\ rttVar \in Int
    <3> HIDE DEF delta, change
    <3>1. Quotient(delta, 8) \in Int /\ Quotient(change, 4) \in Int
      BY <2>2, QuotientInt
    <3> QED
      BY <2>1, <3>1
  <2>4. MinMax(srtt + 4 * rttVar) \in RttMin..RttMax
    BY <2>3, MinMaxRange
  <2> QED
    BY <2>3, <2>4 DEF rttUpdateRto, Estimator
<1> QED
  BY <1>1, <1>2, <1>3

-----------------------------------------------------------------------------
(* Operations on the ring.                                                 *)

LEMMA PassedType ==
  ASSUME NEW from \in Nat, NEW to \in Nat
  PROVE  Passed(from, to) \subseteq Bucket
BY BucketOf DEF Passed

\* reliabilityWindowDo moves a timer to expired exactly when its time has passed.
LEMMA DoPlaces ==
  ASSUME NEW ring \in RingType, NEW t \in Nat, t >= ring.last,
         NEW i \in Slot, NEW w, w.retransmitTime \in Nat,
         Placed(ring, w, i)
  PROVE  Do(ring, t) \in RingType /\ Placed(Do(ring, t), w, i)
<1> DEFINE r == Do(ring, t)
           when == w.retransmitTime
           P == Passed(ring.last, t)
<1>1. /\ r \in RingType
      /\ r.last = t
      /\ \A b \in Bucket : r.timer[b] = IF b \in P THEN {} ELSE ring.timer[b]
      /\ r.expired = ring.expired \cup UNION {ring.timer[b] : b \in P}
      /\ P \subseteq Bucket
      /\ ring.last \in Nat
  BY PassedType DEF Do, RingType
<1> SUFFICES Placed(r, w, i)
  BY <1>1
<1> HIDE DEF r, P
<1>2. CASE ~w.packet
  BY <1>1, <1>2 DEF Placed, Absent
<1>3. CASE w.packet /\ Expired(ring, i, when)
  <2>1. Expired(r, i, when)
    BY <1>1, <1>3 DEF Expired
  <2> QED
    BY <1>3, <2>1 DEF Placed
<1>4. CASE w.packet /\ Waiting(ring, i, when) /\ when < t
  <2>1. when % Buckets \in P
    BY <1>1, <1>4, BucketOf DEF P, Passed, Waiting
  <2>2. Expired(r, i, when)
    BY <1>1, <1>4, <2>1 DEF Expired, Waiting
  <2> QED
    BY <1>4, <2>2 DEF Placed
<1>5. CASE w.packet /\ Waiting(ring, i, when) /\ when >= t
  <2>1. t - ring.last < Buckets /\ when - ring.last < Buckets
    BY <1>1, <1>5, Constants DEF Waiting
  <2>2. when % Buckets \notin P
    <3>1. SUFFICES ASSUME NEW s \in ring.last..(t - 1), s % Buckets = when % Buckets
                   PROVE  FALSE
      BY <1>1, <2>1, Constants DEF P, Passed
    <3>2. s \in Nat /\ s < when /\ when - s < Buckets /\ s - when < Buckets
      BY <1>1, <1>5, <2>1, Constants
    <3> QED
      BY <3>1, <3>2, OneTurn, Constants
  <2>3. Waiting(r, i, when)
    BY <1>1, <1>5, <2>1, <2>2, Constants DEF Waiting
  <2> QED
    BY <1>5, <2>3 DEF Placed
<1> QED
  BY <1>1, <1>2, <1>3, <1>4, <1>5 DEF Placed

LEMMA DoTakesNothingIn ==
  ASSUME NEW ring \in RingType, NEW t \in Nat, NEW i \in Slot, Absent(ring, i)
  PROVE  Absent(Do(ring, t), i) /\ Do(ring, t) \in RingType /\ Do(ring, t).last = t
BY PassedType DEF Do, RingType, Absent

\* Taking slot i off its list leaves the others where they are.
LEMMA RemovePlaces ==
  ASSUME NEW ring \in RingType, NEW i \in Slot
  PROVE  /\ Remove(ring, i) \in RingType
         /\ Remove(ring, i).last = ring.last
         /\ Absent(Remove(ring, i), i)
         /\ \A j \in Slot \ {i} : \A w : Placed(ring, w, j) => Placed(Remove(ring, i), w, j)
<1>1. /\ Remove(ring, i) \in RingType
      /\ Remove(ring, i).last = ring.last
      /\ \A b \in Bucket : Remove(ring, i).timer[b] = ring.timer[b] \ {i}
      /\ Remove(ring, i).expired = ring.expired \ {i}
  BY DEF Remove, RingType
<1> QED
  BY <1>1 DEF Absent, Placed, Waiting, Expired

\* Inserting slot i, due within a turn, places it and leaves the others.
LEMMA InsertPlaces ==
  ASSUME NEW ring \in RingType, NEW i \in Slot, Absent(ring, i),
         NEW when \in Nat, when - ring.last < Buckets
  PROVE  /\ Insert(ring, i, when) \in RingType
         /\ Insert(ring, i, when).last = ring.last
         /\ Waiting(Insert(ring, i, when), i, when) \/ Expired(Insert(ring, i, when), i, when)
         /\ \A j \in Slot \ {i} : \A w : Placed(ring, w, j) => Placed(Insert(ring, i, when), w, j)
<1>0. when % Buckets \in Bucket
  BY BucketOf
<1>1. CASE when < ring.last
  <2>1. /\ Insert(ring, i, when) \in RingType
        /\ Insert(ring, i, when).last = ring.last
        /\ Insert(ring, i, when).timer = ring.timer
        /\ Insert(ring, i, when).expired = ring.expired \cup {i}
    BY <1>1 DEF Insert, RingType
  <2> QED
    BY <1>1, <2>1 DEF Absent, Placed, Waiting, Expired
<1>2. CASE when >= ring.last
  <2>1. /\ Insert(ring, i, when) \in RingType
        /\ Insert(ring, i, when).last = ring.last
        /\ \A b \in Bucket : Insert(ring, i, when).timer[b] =
             IF b = when % Buckets THEN ring.timer[b] \cup {i} ELSE ring.timer[b]
        /\ Insert(ring, i, when).expired = ring.expired
    <3>1. ring.timer \in [Bucket -> SUBSET Slot]
      BY DEF RingType
    <3> DEFINE timers == [ring.timer EXCEPT ![when % Buckets] = @ \cup {i}]
    <3>2. /\ timers \in [Bucket -> SUBSET Slot]
          /\ \A b \in Bucket : timers[b] =
               IF b = when % Buckets THEN ring.timer[b] \cup {i} ELSE ring.timer[b]
      BY <1>0, <3>1
    <3> HIDE DEF timers
    <3>3. Insert(ring, i, when) = [ring EXCEPT !.timer = timers]
      BY <1>2 DEF Insert, RingType, timers
    <3> QED
      BY <3>2, <3>3 DEF RingType
  <2> QED
    BY <1>2, <2>1 DEF Absent, Placed, Waiting, Expired
<1> QED
  BY <1>1, <1>2 DEF RingType

-----------------------------------------------------------------------------
(* The clock and the timers that are started.                              *)

\* The clock only shows natural numbers, so rttCurrentTime returns what it shows.
LEMMA ClockReads ==
  ASSUME NEW t \in Nat
  PROVE  rttCurrentTime(t) = t /\ \A u \in Later(t) : u \in Nat /\ u >= t
BY TimerAssumption DEF rttCurrentTime, staticLastTime, Later

\* StartTimer on a slot that is on no list places that slot and keeps the others.
LEMMA StartTimerPlaces ==
  ASSUME NEW ring \in RingType, NEW i \in Slot, Absent(ring, i),
         NEW count \in Nat, NEW rto \in RttMin..RttMax,
         clock \in Nat, rw \in [Slot -> Window],
         \A j \in Slot \ {i} : Placed(ring, rw[j], j),
         StartTimer(ring, i, count, rto)
  PROVE  /\ clock' \in Nat
         /\ Ring' \in RingType
         /\ Ring'.last >= ring.last
         /\ rw' \in [Slot -> Window]
         /\ \A j \in Slot : Placed(Ring', rw'[j], j)
<1> DEFINE Started(t1, t2) ==
        /\ rttCurrentTime(t2) >= ring.last
        /\ rw' = [rw EXCEPT ![i] = [packet |-> TRUE, timestamp |-> rttCurrentTime(t1),
                                    retransmitTime |-> rttCurrentTime(t1) + rto,
                                    transmitCount |-> count]]
        /\ RingBecomes(Add(ring, i, rttCurrentTime(t1) + rto, rttCurrentTime(t2)))
        /\ clock' = t2
<1>0. PICK t1 \in Later(clock) : \E t2 \in Later(t1) : Started(t1, t2)
  BY DEF StartTimer
<1>1. PICK t2 \in Later(t1) : Started(t1, t2)
  BY <1>0
<1> DEFINE when == t1 + rto
           done == Do(ring, t2)
           added == Insert(done, i, when)
<1>2. t1 \in Nat /\ t2 \in Nat /\ t1 <= t2
  BY <1>0, <1>1, ClockReads
<1>3. rttCurrentTime(t1) = t1 /\ rttCurrentTime(t2) = t2
  BY <1>2, ClockReads
<1>4. rto \in Nat /\ when \in Nat /\ when - t2 < Buckets
  BY <1>2, Constants
<1>5. /\ done \in RingType /\ done.last = t2 /\ Absent(done, i)
  BY <1>2, DoTakesNothingIn
<1>6. /\ rw' = [rw EXCEPT ![i] = [packet |-> TRUE, timestamp |-> t1,
                                  retransmitTime |-> when, transmitCount |-> count]]
      /\ t2 >= ring.last
      /\ Ring' = added
  <2>1. RingBecomes(added)
    BY <1>1, <1>3 DEF Add
  <2>2. added \in RingType
    BY <1>4, <1>5, InsertPlaces
  <2> HIDE DEF added
  <2>3. added = [last |-> added.last, timer |-> added.timer, expired |-> added.expired]
    BY <2>2 DEF RingType
  <2> QED
    BY <1>1, <1>3, <2>1, <2>3 DEF RingBecomes, Ring
<1> HIDE DEF when, done
<1>7. /\ added \in RingType /\ added.last = t2
      /\ Waiting(added, i, when) \/ Expired(added, i, when)
      /\ \A j \in Slot \ {i} : \A w : Placed(done, w, j) => Placed(added, w, j)
  BY <1>4, <1>5, InsertPlaces
<1> HIDE DEF added
<1>8. rw' \in [Slot -> Window]
  BY <1>2, <1>4, <1>6 DEF Window
<1>9. Placed(Ring', rw'[i], i)
  BY <1>6, <1>7 DEF Placed
<1>10. ASSUME NEW j \in Slot \ {i}
       PROVE  Placed(Ring', rw'[j], j)
  <2>1. rw[j].retransmitTime \in Nat /\ Placed(ring, rw[j], j) /\ rw'[j] = rw[j]
    BY <1>6 DEF Window
  <2>2. Placed(done, rw[j], j)
    BY <1>2, <1>6, <2>1, DoPlaces DEF done
  <2> QED
    BY <1>6, <1>7, <2>1, <2>2
<1> QED
  BY <1>1, <1>2, <1>6, <1>7, <1>8, <1>9, <1>10

-----------------------------------------------------------------------------
(* The inductive invariant.                                                *)

LEMMA SoundInit == Init => Sound
<1> SUFFICES ASSUME Init PROVE Sound
  OBVIOUS
<1>1. clock \in Nat /\ lastTime \in Nat
  BY TimerAssumption, ClockReads DEF Init
<1>2. TypeOK
  BY <1>1, EstimatorType DEF Init, TypeOK, Window, Estimator
<1>3. \A i \in Slot : Placed(Ring, rw[i], i)
  BY DEF Init, Placed, Absent, Ring
<1> QED
  BY <1>2, <1>3 DEF Sound

\* The parts of Sound under names that the steps below use.
LEMMA SoundParts ==
  ASSUME Sound
  PROVE  /\ clock \in Nat /\ Ring \in RingType /\ rtt \in Estimator
         /\ rw \in [Slot -> Window]
         /\ resending \in BOOLEAN /\ toResend \in SUBSET Slot
         /\ \A i \in Slot : Placed(Ring, rw[i], i)
BY DEF Sound, TypeOK, Ring, RingType, Estimator

LEMMA SoundFromParts ==
  ASSUME clock' \in Nat, Ring' \in RingType, rtt' \in Estimator,
         rw' \in [Slot -> Window],
         resending' \in BOOLEAN, toResend' \in SUBSET Slot,
         \A i \in Slot : Placed(Ring', rw'[i], i)
  PROVE  Sound'
BY DEF Sound, TypeOK, Ring, RingType, Estimator

\* A packet that has expired is past its time.
LEMMA ExpiredIsPast ==
  ASSUME Sound, NEW i \in expired
  PROVE  i \in Slot /\ rw[i].packet /\ rw[i].retransmitTime < lastTime
BY DEF Sound, TypeOK, Placed, Absent, Waiting, Expired, Ring

LEMMA SoundSend ==
  ASSUME Sound, NEW i \in Slot, Send(i)
  PROVE  Sound'
<1>1. Absent(Ring, i)
  BY SoundParts DEF Send, Placed
<1>2. /\ clock' \in Nat /\ Ring' \in RingType /\ rw' \in [Slot -> Window]
      /\ \A j \in Slot : Placed(Ring', rw'[j], j)
  <2>1. rtt.rto \in RttMin..RttMax
    BY SoundParts DEF Estimator
  <2>2. StartTimer(Ring, i, 1, rtt.rto)
    BY DEF Send
  <2> QED
    BY <1>1, <2>1, <2>2, SoundParts, StartTimerPlaces
<1> QED
  BY <1>2, SoundParts, SoundFromParts DEF Send

LEMMA SoundAcknowledge ==
  ASSUME Sound, NEW i \in Slot, NEW first \in BOOLEAN, Acknowledge(i, first)
  PROVE  Sound'
<1> DEFINE ring == Remove(Ring, i)
<1>1. /\ ring \in RingType /\ Absent(ring, i)
      /\ \A j \in Slot \ {i} : \A w : Placed(Ring, w, j) => Placed(ring, w, j)
  BY SoundParts, RemovePlaces
<1>2. RingBecomes(ring)
  BY DEF Acknowledge
<1> HIDE DEF ring
<1>3. Ring' = ring
  BY <1>1, <1>2 DEF RingBecomes, Ring, RingType
<1>4. PICK t \in Later(clock) :
        /\ rtt' = IF first THEN rttInit
                  ELSE IF rw[i].transmitCount = 1
                       THEN rttUpdateRto(rtt, rttCurrentTime(t) - rw[i].timestamp) ELSE rtt
        /\ clock' = IF rw[i].transmitCount = 1 THEN t ELSE clock
  BY DEF Acknowledge
<1>5. t \in Nat /\ rttCurrentTime(t) - rw[i].timestamp \in Int
  BY SoundParts, ClockReads DEF Window
<1>6. clock' \in Nat /\ rtt' \in Estimator
  BY <1>4, <1>5, SoundParts, EstimatorType
<1>7. rw' = [rw EXCEPT ![i].packet = FALSE]
  BY DEF Acknowledge
<1>8. rw' \in [Slot -> Window]
  BY <1>7, SoundParts DEF Window
<1>9. \A j \in Slot : Placed(Ring', rw'[j], j)
  BY <1>1, <1>3, <1>7, SoundParts DEF Placed, Window
<1>10. resending' \in BOOLEAN /\ toResend' \in SUBSET Slot
  BY SoundParts DEF Acknowledge
<1> QED
  BY <1>1, <1>3, <1>6, <1>8, <1>9, <1>10, SoundFromParts

LEMMA SoundCheck ==
  ASSUME Sound, Check
  PROVE  Sound'
<1>1. PICK t \in Later(clock) :
        /\ rttCurrentTime(t) >= lastTime
        /\ RingBecomes(Do(Ring, rttCurrentTime(t)))
        /\ clock' = t
  BY DEF Check
<1>2. t \in Nat /\ rttCurrentTime(t) = t
  BY SoundParts, ClockReads
<1> DEFINE ring == Do(Ring, t)
<1>3. t >= Ring.last
  BY <1>1, <1>2 DEF Ring
<1>4. \A i \in Slot : ring \in RingType /\ Placed(ring, rw[i], i)
  BY <1>2, <1>3, SoundParts, DoPlaces DEF Window
<1>5. ring \in RingType
  BY <1>2, SoundParts, PassedType DEF Do, RingType
<1>6. RingBecomes(ring)
  BY <1>1, <1>2
<1> HIDE DEF ring
<1>7. Ring' = ring
  BY <1>5, <1>6 DEF RingBecomes, Ring, RingType
<1> QED
  BY <1>1, <1>2, <1>4, <1>5, <1>7, SoundParts, SoundFromParts DEF Check

LEMMA BackedOffType ==
  ASSUME Sound, NEW i \in Slot
  PROVE  BackedOff(i) \in Estimator
BY SoundParts, EstimatorType DEF BackedOff

LEMMA SoundResendOne ==
  ASSUME Sound, NEW i \in Slot, ResendOne(i)
  PROVE  Sound' /\ lastTime' >= lastTime
<1> DEFINE ring == Remove(Ring, i)
           count == rw[i].transmitCount + 1
           rto == BackedOff(i).rto
<1>1. /\ ring \in RingType /\ ring.last = lastTime /\ Absent(ring, i)
      /\ \A j \in Slot \ {i} : \A w : Placed(Ring, w, j) => Placed(ring, w, j)
  BY SoundParts, RemovePlaces DEF Ring
<1>2. count \in Nat /\ rto \in RttMin..RttMax
  BY SoundParts, BackedOffType DEF Window, Estimator
<1>3. StartTimer(ring, i, count, rto)
  BY DEF ResendOne
<1> HIDE DEF ring, count, rto
<1>4. \A j \in Slot \ {i} : Placed(ring, rw[j], j)
  BY <1>1, SoundParts
<1>5. /\ clock' \in Nat /\ Ring' \in RingType /\ Ring'.last >= ring.last
      /\ rw' \in [Slot -> Window]
      /\ \A j \in Slot : Placed(Ring', rw'[j], j)
  BY <1>1, <1>2, <1>3, <1>4, SoundParts, StartTimerPlaces
<1>6. rtt' \in Estimator /\ resending' \in BOOLEAN /\ toResend' \in SUBSET Slot
  BY SoundParts, BackedOffType DEF ResendOne
<1>7. lastTime' >= lastTime
  BY <1>1, <1>5 DEF Ring
<1> QED
  BY <1>5, <1>6, <1>7, SoundFromParts

LEMMA SoundRest ==
  ASSUME Sound, SetBack \/ BeginResend \/ EndResend \/ UNCHANGED vars
  PROVE  Sound'
<1>1. clock' \in Nat
  BY SoundParts DEF SetBack, BeginResend, EndResend, vars
<1>2. Ring' = Ring /\ rw' = rw /\ rtt' = rtt
  BY DEF SetBack, BeginResend, EndResend, vars, Ring
<1>3. resending' \in BOOLEAN /\ toResend' \in SUBSET Slot
  BY SoundParts DEF SetBack, BeginResend, EndResend, vars, Ring, RingType
<1> QED
  BY <1>1, <1>2, <1>3, SoundParts, SoundFromParts

\* The count of a packet on the window grows only when tunnelResend sends it.
LEMMA OnlyResendCounts ==
  ASSUME Sound, [Next]_vars, NEW i \in Slot, rw[i].packet,
         rw'[i].transmitCount > rw[i].transmitCount
  PROVE  ResendOne(i)
<1>1. rw \in [Slot -> Window] /\ \A j \in Slot : rw[j].transmitCount \in Nat
  BY SoundParts DEF Window
<1>2. ASSUME NEW j \in Slot, Send(j) PROVE FALSE
  BY <1>1, <1>2 DEF Send, StartTimer, Window
<1>3. ASSUME NEW j \in Slot, NEW first \in BOOLEAN, Acknowledge(j, first) PROVE FALSE
  BY <1>1, <1>3 DEF Acknowledge, Window
<1>4. ASSUME NEW j \in Slot, ResendOne(j) PROVE j = i
  BY <1>1, <1>4 DEF ResendOne, StartTimer, Window
<1>5. CASE Check \/ SetBack \/ BeginResend \/ EndResend \/ UNCHANGED vars
  BY <1>1, <1>5 DEF Check, SetBack, BeginResend, EndResend, vars
<1> QED
  BY <1>2, <1>3, <1>4, <1>5 DEF Next

LEMMA SoundStep == Sound /\ [Next]_vars => Sound'
<1> SUFFICES ASSUME Sound, [Next]_vars PROVE Sound'
  OBVIOUS
<1>1. ASSUME NEW i \in Slot, Send(i) PROVE Sound'
  BY <1>1, SoundSend
<1>2. ASSUME NEW i \in Slot, NEW first \in BOOLEAN, Acknowledge(i, first) PROVE Sound'
  BY <1>2, SoundAcknowledge
<1>3. CASE Check
  BY <1>3, SoundCheck
<1>4. ASSUME NEW i \in Slot, ResendOne(i) PROVE Sound'
  BY <1>4, SoundResendOne
<1>5. CASE SetBack \/ BeginResend \/ EndResend \/ UNCHANGED vars
  BY <1>5, SoundRest
<1> QED
  BY <1>1, <1>2, <1>3, <1>4, <1>5 DEF Next

-----------------------------------------------------------------------------
(* Theorems.                                                               *)

LEMMA SoundAlways == Spec => []Sound
BY SoundInit, SoundStep, PTL DEF Spec

\* Types, and the timeout within its limits (_rttMinMax after every change).
THEOREM TypeCorrect == Spec => []TypeOK
<1>1. Sound => TypeOK
  BY DEF Sound
<1> QED
  BY <1>1, SoundAlways, PTL

\* Every packet on the window has exactly one timer, in its own bucket or
\* expired, and no other slot has one (reliabilityWindowAdd, Do and Remove).
THEOREM OneTimerForEveryPacket == Spec => []TimerForEveryPacket
<1>1. ASSUME Sound PROVE TimerForEveryPacket
  <2>1. SUFFICES ASSUME NEW i \in Slot
                 PROVE  LET at == {b \in Bucket : i \in timer[b]} IN
                          IF ~rw[i].packet THEN at = {} /\ i \notin expired
                          ELSE \/ at = {} /\ i \in expired
                               \/ /\ at = {rw[i].retransmitTime % Buckets}
                                  /\ i \notin expired
    BY DEF TimerForEveryPacket
  <2>2. rw[i].retransmitTime % Buckets \in Bucket
    BY <1>1, SoundParts, BucketOf DEF Window
  <2>3. Placed(Ring, rw[i], i)
    BY <1>1, SoundParts
  <2> QED
    BY <2>2, <2>3 DEF Placed, Absent, Waiting, Expired, Ring
<1> QED
  BY <1>1, SoundAlways, PTL

\* The ring never holds a timer that is overdue or a turn away, so a bucket never
\* mixes two turns (the ASSERT of reliabilityWindowAdd holds).
THEOREM RingNeverOverrun == Spec => []RingHoldsOneTurn
<1>1. ASSUME Sound PROVE RingHoldsOneTurn
  <2>1. SUFFICES ASSUME NEW b \in Bucket, NEW i \in timer[b]
                 PROVE  /\ rw[i].retransmitTime >= lastTime
                        /\ rw[i].retransmitTime - lastTime < Buckets
    BY DEF RingHoldsOneTurn
  <2>2. i \in Slot
    BY <1>1 DEF Sound, TypeOK
  <2>3. Placed(Ring, rw[i], i)
    BY <1>1, <2>2, SoundParts
  <2> QED
    BY <2>1, <2>2, <2>3 DEF Placed, Absent, Waiting, Expired, Ring
<1> QED
  BY <1>1, SoundAlways, PTL

\* Only tunnelResend sends a packet again, and what it finds is past its time.
THEOREM NothingResentEarly == Spec => NeverEarly
<1> DEFINE Step == \A i \in Slot :
             rw'[i].transmitCount > rw[i].transmitCount /\ rw[i].packet
               => rw[i].retransmitTime < lastTime'
<1>1. ASSUME Sound, [Next]_vars PROVE Step
  <2>1. SUFFICES ASSUME NEW i \in Slot, rw[i].packet,
                        rw'[i].transmitCount > rw[i].transmitCount
                 PROVE  rw[i].retransmitTime < lastTime'
    OBVIOUS
  <2>2. ResendOne(i)
    BY <1>1, <2>1, OnlyResendCounts
  <2>3. i \in expired
    BY <2>2 DEF ResendOne
  <2>4. rw[i].retransmitTime < lastTime /\ lastTime' >= lastTime
    BY <1>1, <2>2, <2>3, ExpiredIsPast, SoundResendOne
  <2>5. rw[i].retransmitTime \in Int /\ lastTime \in Int /\ lastTime' \in Int
    BY <1>1, SoundStep DEF Sound, TypeOK, Window
  <2> QED
    BY <2>4, <2>5
<1> QED
  BY <1>1, SoundAlways, PTL DEF Spec, NeverEarly

\* In a burst of losses only the packets that had the present timeout, or a
\* longer one, double it: it never exceeds twice what such a packet had.
THEOREM BurstBacksOffOnce == Spec => BackoffOnce
<1> DEFINE Step == \A i \in Slot :
             rw[i].packet /\ rw'[i].transmitCount = rw[i].transmitCount + 1 /\ rtt' # rtt
               => rtt'.rto <= 2 * (rw[i].retransmitTime - rw[i].timestamp)
<1>1. ASSUME Sound, [Next]_vars PROVE Step
  <2>1. SUFFICES ASSUME NEW i \in Slot, rw[i].packet, rtt' # rtt,
                        rw'[i].transmitCount = rw[i].transmitCount + 1
                 PROVE  rtt'.rto <= 2 * (rw[i].retransmitTime - rw[i].timestamp)
    OBVIOUS
  <2>2. rw[i] \in Window /\ rw[i].transmitCount \in Nat
    BY <1>1, SoundParts DEF Window
  <2>3. ResendOne(i)
    BY <1>1, <2>1, <2>2, OnlyResendCounts
  <2> DEFINE interval == rw[i].retransmitTime - rw[i].timestamp
  <2>4. rtt' = rttTimeout(rtt) /\ rtt.rto <= interval
    BY <2>1, <2>3 DEF ResendOne, BackedOff
  <2>5. rtt'.rto = MinMax(2 * rtt.rto)
    BY <1>1, <2>4, SoundParts DEF rttTimeout, Estimator
  <2>6. rtt.rto \in RttMin..RttMax /\ interval \in Int
    BY <1>1, <2>2, SoundParts DEF Estimator, Window
  <2>7. /\ rtt.rto \in Int /\ MinMax(2 * rtt.rto) \in Int
        /\ MinMax(2 * rtt.rto) <= 2 * rtt.rto
    BY <2>6, Constants DEF MinMax
  <2> HIDE DEF interval
  <2>8. rtt'.rto <= 2 * interval
    <3>1. \A a, b, c \in Int : a <= b /\ c <= 2 * a => c <= 2 * b
      OBVIOUS
    <3> QED
      BY <2>4, <2>5, <2>6, <2>7, <3>1
  <2> QED
    BY <2>8 DEF interval
<1> QED
  BY <1>1, SoundAlways, PTL DEF Spec, BackoffOnce
=============================================================================
