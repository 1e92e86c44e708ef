---------------------------- MODULE TunnelProofs ----------------------------
(***************************************************************************)
(* What TLAPS proves of module Tunnel, for every window size, word size    *)
(* and number of packets.                                                  *)
(*                                                                         *)
(* First, lemmas about the operators of Tunnel: what each of them returns  *)
(* when it is given a well-typed tunnel.  Then type correctness, which     *)
(* only needs these; the two duties of a side that hold whatever the       *)
(* sequence numbers are, wraps included: it remembers that it owes an      *)
(* acknowledgement, and that its queue could move.  Last, safety and the   *)
(* refinement of ReliableChannel, while the sequence numbers do not wrap.  *)
(***************************************************************************)
EXTENDS Tunnel, FiniteSetTheorems, SequenceTheorems, TLAPS

-----------------------------------------------------------------------------
(* Constants and arithmetic.                                               *)

\* What the proofs use of TunnelAssumption.
LEMMA Constants ==
  /\ WindowSize \in Nat \ {0}
  /\ Word \in Nat \ {0}
  /\ Capacity \in Nat \ {0}
  /\ WindowSize < Word
  /\ Ordered \in BOOLEAN
  /\ \E k \in Nat : k >= 2 /\ Word = k * WindowSize
<1>1. PICK k \in 2..Word : Word = k * WindowSize
  BY TunnelAssumption
<1>2. k * WindowSize > WindowSize
  BY <1>1, TunnelAssumption
<1> QED
  BY <1>1, <1>2, TunnelAssumption

\* A number has one remainder.
LEMMA ModUnique ==
  ASSUME NEW x \in Int, NEW m \in Nat \ {0}, NEW q \in Int, NEW r \in 0..(m - 1),
         x = m * q + r
  PROVE  x % m = r
<1> DEFINE p == x \div m
           d == x % m
<1>1. p \in Int /\ d \in 0..(m - 1) /\ x = m * p + d
  OBVIOUS
<1> HIDE DEF p, d
<1>2. m * (p - q) = r - d
  BY <1>1
<1>3. \A e \in Int : e >= 1 => m * e >= m
  OBVIOUS
<1>4. ~(p - q >= 1)
  BY <1>1, <1>2, <1>3
<1>5. ~(q - p >= 1)
  <2>1. m * (q - p) = d - r
    BY <1>1
  <2> QED
    BY <1>1, <1>3, <2>1
<1>6. d = r
  BY <1>1, <1>2, <1>4, <1>5
<1> QED
  BY <1>6 DEF d

LEMMA ModShift ==
  ASSUME NEW x \in Int, NEW m \in Nat \ {0}, NEW r \in 0..(m - 1),
         x = r \/ x = r - m \/ x = r + m
  PROVE  x % m = r
<1>1. CASE x = r
  <2>1. x = m * 0 + r
    BY <1>1
  <2> QED
    BY <2>1, ModUnique
<1>2. CASE x = r - m
  <2>1. x = m * (-1) + r
    BY <1>2
  <2> QED
    BY <2>1, ModUnique
<1>3. CASE x = r + m
  <2>1. x = m * 1 + r
    BY <1>3
  <2> QED
    BY <2>1, ModUnique
<1> QED
  BY <1>1, <1>2, <1>3

\* Arithmetic on sequence numbers and slots stays within their range.
LEMMA ModRange ==
  ASSUME NEW x \in Int, NEW m \in Nat \ {0}
  PROVE  x % m \in 0..(m - 1)
OBVIOUS

LEMMA WordArithmetic ==
  ASSUME NEW a \in Int, NEW b \in Int
  PROVE  Plus(a, b) \in Words /\ Minus(a, b) \in Words /\ Slot(a) \in Slots
         /\ Offset(a, b) \in Slots
<1>1. a + b \in Int /\ a - b \in Int
  OBVIOUS
<1> QED
  BY <1>1, ModRange, Constants DEF Plus, Minus, Slot, Offset, Words, Slots

LEMMA WordsSlotsInt ==
  /\ 0 \in Words
  /\ \A x \in Words : x \in Nat /\ x \in Int
  /\ \A x \in Slots : x \in Nat /\ x \in Int
BY Constants DEF Words, Slots

\* The fields of a well-typed tunnel.
LEMMA Fields ==
  ASSUME NEW t \in TunnelRecord
  PROVE  /\ t.start \in Words /\ t.start \in Int
         /\ t.next \in Words /\ t.next \in Int
         /\ t.sequence \in Words /\ t.sequence \in Int
         /\ t.acknowledge \in Words /\ t.acknowledge \in Int
         /\ t.reliabilityWindow \in [Slots -> Packet \cup {NULL}]
         /\ t.incoming \in [Slots -> Packet \cup {NULL}]
         /\ t.pendingOut \in Seq(Packet)
         /\ Len(t.pendingOut) \in Nat
<1>1. /\ t.start \in Words /\ t.next \in Words /\ t.sequence \in Words
      /\ t.acknowledge \in Words
      /\ t.reliabilityWindow \in [Slots -> Packet \cup {NULL}]
      /\ t.incoming \in [Slots -> Packet \cup {NULL}]
      /\ t.pendingOut \in Seq(Packet)
  BY DEF TunnelRecord
<1> QED
  BY <1>1, WordsSlotsInt

\* A sequence is a function of an interval that begins at 1.
LEMMA IntervalSeq ==
  ASSUME NEW n \in Nat, NEW S, NEW f \in [1..n -> S]
  PROVE  f \in Seq(S) /\ Len(f) = n
BY IsASeq

-----------------------------------------------------------------------------
(* Frames and outcomes.                                                    *)

Outcome == [tunnel : TunnelRecord, frames : Seq(Frame)]

ReceiveOutcome ==
  [tunnel : TunnelRecord, frames : Seq(Frame), new : BOOLEAN, payloads : Seq(Nat)]

LEMMA NullPacket ==
  /\ NULL.sequence \in Words /\ NULL.data \in Nat
  /\ \A p \in Packet \cup {NULL} : p.sequence \in Words /\ p.data \in Nat
  /\ \A p \in Packet : p # NULL
BY WordsSlotsInt DEF NULL, NoData, Packet

LEMMA FrameType ==
  ASSUME NEW t \in TunnelRecord, NEW p \in Packet \cup {NULL}
  PROVE  FrameOf(t, p) \in Frame /\ EmptyFrame(t) \in Frame
BY NullPacket DEF FrameOf, EmptyFrame, Frame, TunnelRecord, NoData

LEMMA RoomType ==
  ASSUME NEW t \in TunnelRecord
  PROVE  /\ InFlight(t) \in Words
         /\ Room(t) \in 0..WindowSize
         /\ Lesser(1, Room(t)) \in {0, 1}
         /\ \A n \in Nat : Lesser(n, Room(t)) \in 0..n
<1>1. InFlight(t) \in Words /\ InFlight(t) \in Nat
  BY Fields, WordArithmetic, WordsSlotsInt DEF InFlight
<1>2. Room(t) \in 0..WindowSize
  BY <1>1, Constants DEF Room
<1> QED
  BY <1>1, <1>2, Constants DEF Lesser

\* _tunnelSend puts at least as many packets on the window as leave the host.
LEMMA AttemptsType ==
  ASSUME NEW n \in Nat, NEW a \in Attempts(n)
  PROVE  a[1] \in 0..n /\ a[2] \in 0..a[1]
BY DEF Attempts

LEMMA SendsNothing ==
  ASSUME NEW t \in TunnelRecord
  PROVE  [tunnel |-> t, frames |-> <<>>] \in Outcome
BY DEF Outcome

LEMMA PlaceType ==
  ASSUME NEW t \in TunnelRecord, NEW n \in 0..Len(t.pendingOut)
  PROVE  Place(t, n) \in TunnelRecord
<1> DEFINE window == [i \in Slots |-> IF Offset(i, t.next) < n
                                      THEN t.pendingOut[Offset(i, t.next) + 1]
                                      ELSE t.reliabilityWindow[i]]
           queue  == SubSeq(t.pendingOut, n + 1, Len(t.pendingOut))
<1>1. t.pendingOut \in Seq(Packet) /\ t.next \in Words
      /\ t.reliabilityWindow \in [Slots -> Packet \cup {NULL}] /\ t.next \in Int
  BY Fields
<1>2. window \in [Slots -> Packet \cup {NULL}]
  <2> SUFFICES ASSUME NEW i \in Slots
               PROVE  window[i] \in Packet \cup {NULL}
    OBVIOUS
  <2>1. Offset(i, t.next) \in Nat
    <3>1. i \in Int /\ t.next \in Int
      BY Fields, WordsSlotsInt
    <3>2. Offset(i, t.next) \in Slots
      BY <3>1, WordArithmetic
    <3> QED
      BY <3>2, WordsSlotsInt
  <2>2. CASE Offset(i, t.next) < n
    <3>1. Offset(i, t.next) + 1 \in 1..Len(t.pendingOut)
      BY <2>1, <2>2, <1>1
    <3> QED
      BY <3>1, <2>2, <1>1
  <2> QED
    BY <2>1, <2>2, <1>1
<1>3. queue \in Seq(Packet)
  BY <1>1, SubSeqProperties
<1>4. Plus(t.next, n) \in Words
  <2>1. n \in Int
    BY Fields
  <2> QED
    BY <2>1, <1>1, WordArithmetic
<1> HIDE DEF window, queue
<1>5. Place(t, n) = [t EXCEPT !.reliabilityWindow = window, !.next = Plus(@, n),
                              !.pendingOut = queue,
                              !.unackedPacket = IF n > 0 THEN FALSE ELSE @]
  BY DEF Place, window, queue
<1> QED
  BY <1>2, <1>3, <1>4, <1>5 DEF TunnelRecord

LEMMA SendEmptyType ==
  ASSUME NEW t \in TunnelRecord, NEW r \in SendEmpty(t)
  PROVE  r \in Outcome
<1>1. Lesser(1, Room(t)) \in Nat
  BY RoomType
<1>2. PICK a \in Attempts(Lesser(1, Room(t))) :
        r = [tunnel |-> [t EXCEPT !.unackedPacket = IF a[1] = 1 THEN FALSE ELSE @],
             frames |-> IF a[2] = 1 THEN <<EmptyFrame(t)>> ELSE <<>>]
  BY DEF SendEmpty
<1>3. (IF a[2] = 1 THEN <<EmptyFrame(t)>> ELSE <<>>) \in Seq(Frame)
  BY FrameType
<1>4. [t EXCEPT !.unackedPacket = IF a[1] = 1 THEN FALSE ELSE @] \in TunnelRecord
  BY DEF TunnelRecord
<1> QED
  BY <1>2, <1>3, <1>4 DEF Outcome

LEMMA SendBacklogType ==
  ASSUME NEW t \in TunnelRecord, NEW r \in SendBacklog(t)
  PROVE  r \in Outcome
<1> DEFINE n == Lesser(Len(t.pendingOut), Room(t))
           frames(k) == [i \in 1..k |-> FrameOf(t, t.pendingOut[i])]
<1>1. CASE t.pendingOut # <<>>
  <2>1. n \in 0..Len(t.pendingOut) /\ n \in Nat
    BY Fields, RoomType
  <2> HIDE DEF n
  <2>2. PICK a \in Attempts(n) : r = [tunnel |-> Place(t, a[1]), frames |-> frames(a[2])]
    BY <1>1 DEF SendBacklog, n
  <2>3. a[1] \in 0..Len(t.pendingOut) /\ a[2] \in 0..Len(t.pendingOut)
    BY <2>1, AttemptsType, Fields
  <2>4. Place(t, a[1]) \in TunnelRecord
    BY <2>3, PlaceType
  <2>5. frames(a[2]) \in Seq(Frame)
    <3>1. ASSUME NEW i \in 1..a[2]
          PROVE  FrameOf(t, t.pendingOut[i]) \in Frame
      <4>1. i \in 1..Len(t.pendingOut)
        BY <2>3, Fields
      <4>2. t.pendingOut[i] \in Packet
        BY <4>1, Fields, ElementOfSeq
      <4> QED
        BY <4>2, FrameType
    <3>2. a[2] \in Nat
      BY <2>3
    <3> QED
      BY <3>1, <3>2, IntervalSeq
  <2> HIDE DEF frames
  <2> QED
    BY <2>2, <2>4, <2>5 DEF Outcome
<1>2. CASE t.pendingOut = <<>> /\ t.unackedPacket
  BY <1>2, SendEmptyType DEF SendBacklog
<1>3. CASE t.pendingOut = <<>> /\ ~t.unackedPacket
  BY <1>3, SendsNothing DEF SendBacklog
<1> QED
  BY <1>1, <1>2, <1>3

LEMMA SendOrQueueType ==
  ASSUME NEW t \in TunnelRecord, NEW packet \in Packet, NEW r \in SendOrQueue(t, packet)
  PROVE  r \in Outcome
<1> DEFINE queued == [t EXCEPT !.pendingOut = <<packet>>]
           stays(u) == [u EXCEPT !.pendingOut = <<packet>>, !.hasPendingOut = TRUE]
<1>1. Lesser(1, Room(t)) \in Nat
  BY RoomType
<1>2. PICK a \in Attempts(Lesser(1, Room(t))) :
        r = [tunnel |-> IF a[2] = 1 THEN Place(queued, 1)
                        ELSE stays(IF a[1] = 1 THEN Place(queued, 1) ELSE t),
             frames |-> IF a[2] = 1 THEN <<FrameOf(t, packet)>> ELSE <<>>]
  BY DEF SendOrQueue
<1>3. queued \in TunnelRecord /\ Len(queued.pendingOut) = 1
  <2>1. <<packet>> \in Seq(Packet)
    OBVIOUS
  <2> QED
    BY <2>1 DEF TunnelRecord
<1>4. Place(queued, 1) \in TunnelRecord
  <2> HIDE DEF queued
  <2>1. 1 \in 0..Len(queued.pendingOut)
    BY <1>3
  <2> QED
    BY <1>3, <2>1, PlaceType
<1>5. \A u \in TunnelRecord : stays(u) \in TunnelRecord
  <2>1. <<packet>> \in Seq(Packet)
    OBVIOUS
  <2> QED
    BY <2>1 DEF TunnelRecord
<1>6. (IF a[2] = 1 THEN <<FrameOf(t, packet)>> ELSE <<>>) \in Seq(Frame)
  BY FrameType
<1> HIDE DEF queued, stays
<1> QED
  BY <1>2, <1>4, <1>5, <1>6 DEF Outcome

LEMMA SendOutType ==
  ASSUME NEW t \in TunnelRecord, NEW packet \in Packet, NEW r \in SendOut(t, packet)
  PROVE  r \in Outcome
<1>1. PICK b \in SendBacklog(t) :
        r \in IF b.tunnel.pendingOut # <<>>
              THEN {[b EXCEPT !.tunnel.pendingOut = Append(@, packet),
                              !.tunnel.hasPendingOut = TRUE]}
              ELSE {[c EXCEPT !.frames = b.frames \o @] : c \in SendOrQueue(b.tunnel, packet)}
  BY DEF SendOut
<1>2. b \in Outcome
  BY SendBacklogType
<1>3. b.tunnel \in TunnelRecord /\ b.frames \in Seq(Frame)
  BY <1>2 DEF Outcome
<1>4. CASE b.tunnel.pendingOut # <<>>
  <2>1. Append(b.tunnel.pendingOut, packet) \in Seq(Packet)
    BY <1>3, Fields, AppendProperties
  <2>2. [b.tunnel EXCEPT !.pendingOut = Append(@, packet), !.hasPendingOut = TRUE] \in TunnelRecord
    BY <1>3, <2>1 DEF TunnelRecord
  <2>3. r = [tunnel |-> [b.tunnel EXCEPT !.pendingOut = Append(@, packet),
                                         !.hasPendingOut = TRUE],
             frames |-> b.frames]
    BY <1>1, <1>2, <1>4 DEF Outcome, TunnelRecord
  <2> QED
    BY <1>3, <2>2, <2>3 DEF Outcome
<1>5. CASE b.tunnel.pendingOut = <<>>
  <2>1. PICK c \in SendOrQueue(b.tunnel, packet) : r = [c EXCEPT !.frames = b.frames \o @]
    BY <1>1, <1>5
  <2>2. c \in Outcome
    BY <1>3, SendOrQueueType
  <2>3. b.frames \o c.frames \in Seq(Frame)
    BY <1>3, <2>2, ConcatProperties DEF Outcome
  <2> QED
    BY <2>1, <2>2, <2>3 DEF Outcome
<1> QED
  BY <1>4, <1>5

\* Which slots may have expired, and in which order.
LEMMA ExpiredType ==
  ASSUME NEW t \in TunnelRecord, NEW slots \in SUBSET Occupied(t),
         NEW expired \in SetToSeqs(slots)
  PROVE  /\ expired \in Seq(Occupied(t))
         /\ \A k \in 1..Len(expired) : expired[k] \in Slots
                                      /\ t.reliabilityWindow[expired[k]] \in Packet
<1>1. slots \subseteq Slots /\ Occupied(t) \subseteq Slots
  BY DEF Occupied
<1>2. IsFiniteSet(Slots)
  BY Constants, FS_Interval DEF Slots
<1>3. IsFiniteSet(slots)
  BY <1>1, <1>2, FS_Subset
<1>4. Cardinality(slots) \in Nat
  BY <1>3, FS_CardinalityType
<1>5. expired \in [1..Cardinality(slots) -> slots]
  BY DEF SetToSeqs
<1>6. expired \in Seq(slots)
  BY <1>4, <1>5, IntervalSeq
<1>7. expired \in Seq(Occupied(t))
  BY <1>6, SeqMonotonic
<1>8. \A k \in 1..Len(expired) : expired[k] \in Occupied(t)
  BY <1>7, ElementOfSeq
<1> QED
  BY <1>7, <1>8, Fields DEF Occupied

LEMMA FlushType ==
  ASSUME NEW t \in TunnelRecord, NEW slots \in SUBSET Occupied(t),
         NEW expired \in SetToSeqs(slots), NEW b \in Flush(t, expired)
  PROVE  b \in Outcome
<1> DEFINE frames == [k \in 1..Len(expired) |-> FrameOf(t, t.reliabilityWindow[expired[k]])]
           after  == [t EXCEPT !.unackedPacket = IF expired = <<>> THEN @ ELSE FALSE]
           r == Resend(t, expired)
<1>1. r = [tunnel |-> after, frames |-> frames]
  BY DEF Resend
<1>2. frames \in Seq(Frame)
  <2>1. Len(expired) \in Nat
    BY ExpiredType, LenProperties
  <2>2. \A k \in 1..Len(expired) : FrameOf(t, t.reliabilityWindow[expired[k]]) \in Frame
    BY ExpiredType, FrameType
  <2> QED
    BY <2>1, <2>2, IntervalSeq
<1>3. after \in TunnelRecord
  BY DEF TunnelRecord
<1> HIDE DEF frames, after
<1>4. r \in Outcome
  BY <1>1, <1>2, <1>3 DEF Outcome
<1> HIDE DEF r
<1>5. CASE t.hasPendingOut
  <2>1. PICK c \in SendBacklog(r.tunnel) :
          b = [tunnel |-> [c.tunnel EXCEPT !.hasPendingOut = FALSE],
               frames |-> r.frames \o c.frames]
    BY <1>5 DEF Flush, r
  <2>2. c \in Outcome
    BY <1>4, SendBacklogType DEF Outcome
  <2>3. [c.tunnel EXCEPT !.hasPendingOut = FALSE] \in TunnelRecord
    BY <2>2 DEF Outcome, TunnelRecord
  <2>4. r.frames \o c.frames \in Seq(Frame)
    BY <1>4, <2>2, ConcatProperties DEF Outcome
  <2> QED
    BY <2>1, <2>3, <2>4 DEF Outcome
<1>6. CASE ~t.hasPendingOut
  BY <1>4, <1>6 DEF Flush, r
<1> QED
  BY <1>5, <1>6

-----------------------------------------------------------------------------
(* Receiving.                                                              *)

LEMMA AcknowledgedType ==
  ASSUME NEW t \in TunnelRecord, NEW acknowledge \in Words
  PROVE  Acknowledged(t, acknowledge) \in TunnelRecord
<1> DEFINE acked == WindowDiff(Minus(acknowledge, t.start))
           window == [i \in Slots |-> IF Offset(i, t.start) < acked
                                      THEN NULL ELSE t.reliabilityWindow[i]]
<1>1. acked \in Int
  <2>1. Minus(acknowledge, t.start) \in Int
    BY Fields, WordArithmetic, WordsSlotsInt
  <2> QED
    BY <2>1 DEF WindowDiff
<1> HIDE DEF acked
<1>2. Plus(t.start, acked) \in Words
  BY <1>1, Fields, WordArithmetic
<1>3. window \in [Slots -> Packet \cup {NULL}]
  BY Fields
<1> HIDE DEF window
<1>4. Acknowledged(t, acknowledge) =
        [t EXCEPT !.start = Plus(@, acked), !.reliabilityWindow = window]
  BY DEF Acknowledged, acked, window
<1> QED
  BY <1>2, <1>3, <1>4 DEF TunnelRecord

LEMMA TakeWaitingType ==
  ASSUME NEW t \in TunnelRecord, NEW n \in Nat
  PROVE  TakeWaiting(t, n) \in TunnelRecord
<1> DEFINE kept == [i \in Slots |-> IF Offset(i, t.acknowledge) < n
                                    THEN NULL ELSE t.incoming[i]]
<1>1. Plus(t.acknowledge, n) \in Words
  BY Fields, WordArithmetic
<1>2. kept \in [Slots -> Packet \cup {NULL}]
  BY Fields
<1> HIDE DEF kept
<1>3. TakeWaiting(t, n) = [t EXCEPT !.acknowledge = Plus(@, n), !.incoming = kept]
  BY DEF TakeWaiting, kept
<1> QED
  BY <1>1, <1>2, <1>3 DEF TunnelRecord

LEMMA AcceptType ==
  ASSUME NEW t \in TunnelRecord, NEW data \in Nat, NEW r \in Accept(t, data)
  PROVE  r \in ReceiveOutcome
<1> DEFINE u == [t EXCEPT !.acknowledge = Plus(@, 1)]
           waiting(n) == [k \in 1..n |-> u.incoming[Slot(Plus(u.acknowledge, k - 1))].data]
<1>1. u \in TunnelRecord
  <2>1. Plus(t.acknowledge, 1) \in Words
    BY Fields, WordArithmetic
  <2> QED
    BY <2>1 DEF TunnelRecord
<1>2. PICK n \in Waiting(u) :
        \E b \in IF n > 0 THEN SendBacklog(TakeWaiting(u, n))
                 ELSE {[tunnel |-> u, frames |-> <<>>]} :
          r = [tunnel |-> b.tunnel, frames |-> b.frames, new |-> TRUE,
               payloads |-> <<data>> \o waiting(n)]
  BY DEF Accept
<1> HIDE DEF u
<1>3. n \in Nat
  BY Constants DEF Waiting
<1>4. PICK b \in IF n > 0 THEN SendBacklog(TakeWaiting(u, n))
                ELSE {[tunnel |-> u, frames |-> <<>>]} :
        r = [tunnel |-> b.tunnel, frames |-> b.frames, new |-> TRUE,
             payloads |-> <<data>> \o waiting(n)]
  BY <1>2
<1>5. b \in Outcome
  <2>1. TakeWaiting(u, n) \in TunnelRecord
    BY <1>1, <1>3, TakeWaitingType
  <2> QED
    BY <1>1, <1>4, <2>1, SendBacklogType, SendsNothing
<1>6. waiting(n) \in Seq(Nat)
  <2>1. ASSUME NEW k \in 1..n
        PROVE  u.incoming[Slot(Plus(u.acknowledge, k - 1))].data \in Nat
    <3>1. k - 1 \in Int /\ u.acknowledge \in Int
      BY <1>1, <1>3, Fields
    <3>2. Plus(u.acknowledge, k - 1) \in Int
      BY <3>1, WordArithmetic, WordsSlotsInt
    <3>3. Slot(Plus(u.acknowledge, k - 1)) \in Slots
      BY <3>2, WordArithmetic
    <3> QED
      BY <1>1, <3>3, Fields, NullPacket
  <2> QED
    BY <1>3, <2>1, IntervalSeq
<1> HIDE DEF waiting
<1>7. <<data>> \o waiting(n) \in Seq(Nat)
  BY <1>6, ConcatProperties
<1> QED
  BY <1>4, <1>5, <1>7 DEF Outcome, ReceiveOutcome

LEMMA DiscardType ==
  ASSUME NEW t \in TunnelRecord, NEW frame \in Frame, frame.data # NoData,
         NEW wasUnacked, NEW r \in Discard(t, frame, wasUnacked)
  PROVE  r \in ReceiveOutcome
<1> DEFINE ahead == frame.sequence > t.acknowledge
           early == ahead /\ frame.sequence - t.acknowledge < WindowSize
           packet == [sequence |-> frame.sequence, data |-> frame.data]
           kept  == [t EXCEPT !.incoming[Slot(frame.sequence)] = packet]
<1>1. PICK b \in IF early THEN {[tunnel |-> kept, frames |-> <<>>]}
                ELSE IF ~ahead /\ wasUnacked /\ t.start = t.next THEN SendEmpty(t)
                ELSE {[tunnel |-> t, frames |-> <<>>]} :
        r = [tunnel |-> b.tunnel, frames |-> b.frames, new |-> FALSE, payloads |-> <<>>]
  BY DEF Discard
<1>2. kept \in TunnelRecord
  <2>1. packet \in Packet
    BY DEF Frame, Packet
  <2> HIDE DEF packet
  <2>2. [t.incoming EXCEPT ![Slot(frame.sequence)] = packet] \in [Slots -> Packet \cup {NULL}]
    BY <2>1, Fields
  <2> QED
    BY <2>2 DEF TunnelRecord
<1> HIDE DEF kept
<1>3. b \in Outcome
  BY <1>1, <1>2, SendEmptyType, SendsNothing
<1> QED
  BY <1>1, <1>3 DEF Outcome, ReceiveOutcome

LEMMA ReceiveType ==
  ASSUME NEW t \in TunnelRecord, NEW frame \in Frame, NEW r \in Receive(t, frame)
  PROVE  r \in ReceiveOutcome
<1> DEFINE noted == [t EXCEPT !.unackedPacket = @ \/ frame.data # NoData,
                              !.hasPendingOut = TRUE]
           u == Acknowledged(noted, frame.acknowledge)
<1>1. noted \in TunnelRecord
  BY DEF TunnelRecord
<1>2. frame.acknowledge \in Words /\ frame.data \in Nat
  BY DEF Frame
<1>3. u \in TunnelRecord
  BY <1>1, <1>2, AcknowledgedType
<1>4. CASE frame.data = NoData
  <2>1. r = [tunnel |-> u, frames |-> <<>>, new |-> FALSE, payloads |-> <<>>]
    BY <1>4 DEF Receive
  <2> HIDE DEF u
  <2> QED
    BY <1>3, <2>1 DEF ReceiveOutcome
<1>5. CASE frame.data # NoData /\ frame.sequence = u.acknowledge
  <2>1. r \in Accept(u, frame.data)
    BY <1>5 DEF Receive
  <2> HIDE DEF u
  <2> QED
    BY <1>2, <1>3, <2>1, AcceptType
<1>6. CASE frame.data # NoData /\ frame.sequence # u.acknowledge
  <2>1. r \in Discard(u, frame, t.unackedPacket)
    BY <1>6 DEF Receive
  <2> HIDE DEF u
  <2> QED
    BY <1>3, <1>6, <2>1, DiscardType
<1> QED
  BY <1>4, <1>5, <1>6

-----------------------------------------------------------------------------
(* The network and the hosts.                                              *)

NetType(n) == IF Ordered THEN n \in Seq(Frame) ELSE n \subseteq Frame

LEMMA CarryType ==
  ASSUME NEW n, NetType(n), NEW frames \in Seq(Frame)
  PROVE  NetType(Carry(n, frames))
<1>1. CASE Ordered
  <2> DEFINE all == n \o frames
             first == IF Len(all) > Capacity THEN Len(all) - Capacity + 1 ELSE 1
  <2>1. all \in Seq(Frame) /\ Len(all) \in Nat
    BY <1>1, ConcatProperties, LenProperties DEF NetType
  <2>2. first \in 1..(Len(all) + 1)
    BY <2>1, Constants
  <2>3. Carry(n, frames) = SubSeq(all, first, Len(all))
    BY <1>1 DEF Carry
  <2> HIDE DEF all, first
  <2>4. \A i \in first..Len(all) : all[i] \in Frame
    BY <2>1, <2>2, ElementOfSeq
  <2>5. SubSeq(all, first, Len(all)) \in Seq(Frame)
    BY <2>1, <2>2, <2>4, SubSeqProperties
  <2> QED
    BY <1>1, <2>3, <2>5 DEF NetType
<1>2. CASE ~Ordered
  <2>1. {frames[i] : i \in 1..Len(frames)} \subseteq Frame
    BY ElementOfSeq
  <2> QED
    BY <1>2, <2>1 DEF NetType, Carry
<1> QED
  BY <1>1, <1>2

LEMMA ArrivalType ==
  ASSUME NEW n, NetType(n), NEW a \in Arrivals(n)
  PROVE  a.frame \in Frame /\ NetType(a.rest)
<1>1. CASE Ordered
  <2>1. PICK i \in 1..Len(n) : a = [frame |-> n[i], rest |-> SubSeq(n, i + 1, Len(n))]
    BY <1>1 DEF Arrivals
  <2>2. n \in Seq(Frame) /\ Len(n) \in Nat
    BY <1>1, LenProperties DEF NetType
  <2>3. \A j \in (i + 1)..Len(n) : n[j] \in Frame
    BY <2>2, ElementOfSeq
  <2>4. SubSeq(n, i + 1, Len(n)) \in Seq(Frame)
    BY <2>2, <2>3, SubSeqProperties
  <2> QED
    BY <1>1, <2>1, <2>2, <2>4, ElementOfSeq DEF NetType
<1>2. CASE ~Ordered
  BY <1>2 DEF Arrivals, NetType
<1> QED
  BY <1>1, <1>2

LEMMA PeerType ==
  \A s \in Side : Peer(s) \in Side /\ Peer(s) # s /\ Peer(Peer(s)) = s
BY DEF Side, Peer

LEMMA TypeInit == Init => TypeOK
<1> SUFFICES ASSUME Init PROVE TypeOK
  OBVIOUS
<1>1. NewTunnel \in TunnelRecord
  BY WordsSlotsInt DEF NewTunnel, TunnelRecord
<1>2. net \in [Side -> IF Ordered THEN Seq(Frame) ELSE SUBSET Frame]
  <2>1. EmptyNet \in IF Ordered THEN Seq(Frame) ELSE SUBSET Frame
    <3>1. CASE Ordered
      BY <3>1 DEF EmptyNet
    <3>2. CASE ~Ordered
      BY <3>2 DEF EmptyNet
    <3> QED
      BY <3>1, <3>2
  <2> QED
    BY <2>1 DEF Init
<1>3. /\ tunnel \in [Side -> TunnelRecord]
      /\ pc \in [Side -> {"idle", "incoming", "pending", "flush", "out"}]
      /\ \A s \in Side : pc[s] = "idle"
      /\ outPacket \in [Side -> Packet \cup {NULL}]
      /\ \A s \in Side : outPacket[s] = NULL
      /\ pendingIn \in [Side -> Seq(Nat)] /\ delivered \in [Side -> Seq(Nat)]
      /\ submitted \in [Side -> Nat]
  BY <1>1 DEF Init
<1> QED
  BY <1>2, <1>3 DEF TypeOK

LEMMA TypeStep == TypeOK /\ [Next]_vars => TypeOK'
<1> SUFFICES ASSUME TypeOK, [Next]_vars PROVE TypeOK'
  OBVIOUS
<1> USE DEF TypeOK
<1>1. ASSUME NEW s \in Side, Send(s) PROVE TypeOK'
  <2>1. tunnel[s].sequence \in Words /\ Plus(tunnel[s].sequence, 1) \in Words
    BY Fields, WordArithmetic
  <2>2. [tunnel[s] EXCEPT !.sequence = Plus(@, 1)] \in TunnelRecord
    <3>1. tunnel[s] \in TunnelRecord
      OBVIOUS
    <3> HIDE DEF TypeOK
    <3> QED
      BY <2>1, <3>1 DEF TunnelRecord
  <2>3. tunnel' \in [Side -> TunnelRecord]
    BY <1>1, <2>2 DEF Send
  <2>4. [sequence |-> tunnel[s].sequence, data |-> submitted[s] + 1] \in Packet
    BY <2>1 DEF Packet, NoData
  <2>5. /\ outPacket'[s] \in Packet /\ outPacket' \in [Side -> Packet \cup {NULL}]
        /\ \A q \in Side : q # s => outPacket'[q] = outPacket[q]
    BY <1>1, <2>4 DEF Send
  <2>6. /\ pc'[s] \in {"incoming", "pending"} /\ \A q \in Side : q # s => pc'[q] = pc[q]
        /\ pc' \in [Side -> {"idle", "incoming", "pending", "flush", "out"}]
    BY <1>1 DEF Send
  <2>7. submitted' \in [Side -> Nat]
    BY <1>1 DEF Send
  <2>8. pendingIn' = pendingIn /\ delivered' = delivered /\ net' = net
    BY <1>1 DEF Send
  <2> QED
    BY <2>3, <2>5, <2>6, <2>7, <2>8, NullPacket
<1>2. ASSUME NEW s \in Side, Pending(s) PROVE TypeOK'
  BY <1>2 DEF Pending
<1>3. ASSUME NEW s \in Side, Process(s) PROVE TypeOK'
  <2>1. Append(delivered[s], Head(pendingIn[s])) \in Seq(Nat) /\ Tail(pendingIn[s]) \in Seq(Nat)
    BY <1>3, HeadTailProperties, AppendProperties DEF Process
  <2> QED
    BY <1>3, <2>1 DEF Process
<1>4. ASSUME NEW s \in Side, Incoming(s) PROVE TypeOK'
  <2>1. PICK a \in Arrivals(net[Peer(s)]) : IncomingOne(s, a)
    BY <1>4 DEF Incoming
  <2>2. \A q \in Side : NetType(net[q])
    BY DEF NetType
  <2>3. a.frame \in Frame /\ NetType(a.rest)
    BY <2>2, PeerType, ArrivalType
  <2>4. PICK r \in Receive(tunnel[s], a.frame) :
          /\ tunnel' = [tunnel EXCEPT ![s] = r.tunnel]
          /\ pendingIn' = [pendingIn EXCEPT ![s] = @ \o r.payloads]
          /\ net' = [net EXCEPT ![Peer(s)] = a.rest, ![s] = Carry(@, r.frames)]
          /\ pc' = [pc EXCEPT ![s] = IF r.new THEN @
                                     ELSE IF @ = "pending" THEN "flush" ELSE "out"]
    BY <2>1 DEF IncomingOne
  <2>5. r \in ReceiveOutcome
    BY <2>3, ReceiveType
  <2>6. /\ r.tunnel \in TunnelRecord /\ r.payloads \in Seq(Nat) /\ r.frames \in Seq(Frame)
        /\ r.new \in BOOLEAN
    BY <2>5 DEF ReceiveOutcome
  <2>7. pendingIn[s] \o r.payloads \in Seq(Nat)
    BY <2>6, ConcatProperties
  <2>8. NetType(Carry(net[s], r.frames))
    BY <2>2, <2>6, CarryType
  <2>9. \A q \in Side : NetType(net'[q])
    <3>1. net'[s] = Carry(net[s], r.frames) /\ net'[Peer(s)] = a.rest
      BY <2>4, PeerType
    <3> QED
      BY <2>3, <2>8, <3>1, PeerType DEF Side, Peer
  <2>10. pc[s] \in {"incoming", "pending"} /\ UNCHANGED <<outPacket, delivered, submitted>>
    BY <2>1 DEF IncomingOne
  <2>11. /\ pc' \in [Side -> {"idle", "incoming", "pending", "flush", "out"}]
         /\ \A q \in Side : /\ pc'[q] = "idle" => outPacket[q] = NULL
                            /\ pc'[q] \in {"incoming", "out"} => outPacket[q] # NULL
    BY <2>4, <2>10
  <2> QED
    BY <2>4, <2>6, <2>7, <2>9, <2>10, <2>11 DEF NetType
<1>5. ASSUME NEW s \in Side, Lose(s) PROVE TypeOK'
  <2>1. Ordered /\ Peer(s) \in Side /\ net[Peer(s)] \in Seq(Frame) /\ net[Peer(s)] # <<>>
    BY <1>5, PeerType DEF Lose
  <2>2. Tail(net[Peer(s)]) \in Seq(Frame)
    BY <2>1, HeadTailProperties
  <2>3. \A q \in Side : net'[q] \in Seq(Frame)
    BY <1>5, <2>1, <2>2, PeerType DEF Lose, Side, Peer
  <2> QED
    BY <1>5, <2>1, <2>3 DEF Lose
<1>6. ASSUME NEW s \in Side, FinishPending(s) PROVE TypeOK'
  <2> PICK slots \in SUBSET Occupied(tunnel[s]) :
        \E expired \in SetToSeqs(slots) : FlushPending(s, expired)
    BY <1>6 DEF FinishPending
  <2>1. PICK expired \in SetToSeqs(slots) : FlushPending(s, expired)
    OBVIOUS
  <2>2. PICK b \in Flush(tunnel[s], expired) :
          /\ tunnel' = [tunnel EXCEPT ![s] = b.tunnel]
          /\ net' = [net EXCEPT ![s] = Carry(@, b.frames)]
    BY <2>1 DEF FlushPending
  <2>3. b.tunnel \in TunnelRecord /\ b.frames \in Seq(Frame)
    <3>1. tunnel[s] \in TunnelRecord
      OBVIOUS
    <3> HIDE DEF TypeOK
    <3>2. b \in Outcome
      BY <3>1, FlushType
    <3> QED
      BY <3>2 DEF Outcome
  <2>4. \A q \in Side : NetType(net'[q])
    BY <2>2, <2>3, CarryType DEF NetType
  <2>5. /\ pc' \in [Side -> {"idle", "incoming", "pending", "flush", "out"}]
        /\ \A q \in Side : /\ pc'[q] = "idle" => outPacket[q] = NULL
                           /\ pc'[q] \in {"incoming", "out"} => outPacket[q] # NULL
    BY <2>1 DEF FlushPending
  <2> QED
    BY <2>1, <2>2, <2>3, <2>4, <2>5 DEF NetType, FlushPending
<1>7. ASSUME NEW s \in Side, FinishOut(s) PROVE TypeOK'
  <2>1. outPacket[s] \in Packet
    BY <1>7 DEF FinishOut
  <2>2. PICK b \in SendOut(tunnel[s], outPacket[s]) :
          /\ tunnel' = [tunnel EXCEPT ![s] = b.tunnel]
          /\ net' = [net EXCEPT ![s] = Carry(@, b.frames)]
    BY <1>7 DEF FinishOut
  <2>3. b.tunnel \in TunnelRecord /\ b.frames \in Seq(Frame)
    BY <2>1, SendOutType DEF Outcome
  <2>4. \A q \in Side : NetType(net'[q])
    BY <2>2, <2>3, CarryType DEF NetType
  <2>5. /\ pc' \in [Side -> {"idle", "incoming", "pending", "flush", "out"}]
        /\ outPacket' \in [Side -> Packet \cup {NULL}]
        /\ \A q \in Side : /\ pc'[q] = "idle" => outPacket'[q] = NULL
                           /\ pc'[q] \in {"incoming", "out"} => outPacket'[q] # NULL
    BY <1>7 DEF FinishOut
  <2> QED
    BY <1>7, <2>2, <2>3, <2>4, <2>5 DEF NetType, FinishOut
<1>8. CASE UNCHANGED vars
  BY <1>8 DEF vars
<1> QED
  BY <1>1, <1>2, <1>3, <1>4, <1>5, <1>6, <1>7, <1>8 DEF Next

\* TypeOK is inductive: whatever arrives, and in whatever order, no handler of
\* tunnel.c leaves a field out of its range, an ill-formed packet in a slot, or
\* tunnelOut without the packet it has in hand.
THEOREM TypeCorrect == Spec => []TypeOK
<1> QED
  BY TypeInit, TypeStep, PTL DEF Spec
-----------------------------------------------------------------------------
(* Acknowledgements owed.                                                  *)

\* The latest acknowledgement of the tunnel is remembered, or leaves with r.
Settled(r) ==
  r.tunnel.unackedPacket \/ \E k \in 1..Len(r.frames) : r.frames[k].acknowledge = r.tunnel.acknowledge

\* A send does not forget what the tunnel owed.
Honours(t, r) ==
  r.tunnel.acknowledge = t.acknowledge /\ (t.unackedPacket => Settled(r))

\* Where netInterfaceSend does not fail, the packets placed are those that left;
\* where the device takes every packet, they are all that fit.
LEMMA AttemptsSent ==
  ASSUME NEW n \in Nat, NEW a \in Attempts(n), ~SendMayFail
  PROVE  a[1] \in 0..n /\ a[2] = a[1] /\ (~DeviceMayBlock => a[1] = n)
BY DEF Attempts

LEMMA PlaceFields ==
  ASSUME NEW t \in TunnelRecord, NEW n \in Nat
  PROVE  /\ Place(t, n).acknowledge = t.acknowledge
         /\ Place(t, n).start = t.start
         /\ Place(t, n).next = Plus(t.next, n)
         /\ Place(t, n).hasPendingOut = t.hasPendingOut
         /\ Place(t, n).pendingOut = SubSeq(t.pendingOut, n + 1, Len(t.pendingOut))
         /\ n = 0 => Place(t, n).unackedPacket = t.unackedPacket
<1>1. ASSUME n = 0
      PROVE  Place(t, n).unackedPacket = t.unackedPacket
  BY <1>1 DEF Place, TunnelRecord
<1> QED
  BY <1>1 DEF Place, TunnelRecord

LEMMA SendEmptyHonours ==
  ASSUME NEW t \in TunnelRecord, NEW r \in SendEmpty(t), ~SendMayFail
  PROVE  Honours(t, r)
<1>1. Lesser(1, Room(t)) \in Nat
  BY RoomType
<1>2. PICK a \in Attempts(Lesser(1, Room(t))) :
        r = [tunnel |-> [t EXCEPT !.unackedPacket = IF a[1] = 1 THEN FALSE ELSE @],
             frames |-> IF a[2] = 1 THEN <<EmptyFrame(t)>> ELSE <<>>]
  BY DEF SendEmpty
<1>3. a[2] = a[1]
  BY <1>1, AttemptsSent
<1>4. r.tunnel.acknowledge = t.acknowledge
  BY <1>2 DEF TunnelRecord
<1>5. CASE a[1] = 1
  <2>1. r.frames = <<EmptyFrame(t)>>
    BY <1>2, <1>3, <1>5
  <2>2. Len(r.frames) = 1 /\ r.frames[1].acknowledge = t.acknowledge
    BY <2>1 DEF EmptyFrame
  <2>3. 1 \in 1..Len(r.frames)
    BY <2>2
  <2> QED
    BY <1>4, <2>2, <2>3 DEF Honours, Settled
<1>6. CASE a[1] # 1
  <2>1. r.tunnel.unackedPacket = t.unackedPacket
    BY <1>2, <1>6 DEF TunnelRecord
  <2> QED
    BY <1>4, <2>1 DEF Honours, Settled
<1> QED
  BY <1>5, <1>6

LEMMA SendBacklogHonours ==
  ASSUME NEW t \in TunnelRecord, NEW r \in SendBacklog(t), ~SendMayFail
  PROVE  Honours(t, r)
<1> DEFINE n == Lesser(Len(t.pendingOut), Room(t))
           frames(k) == [i \in 1..k |-> FrameOf(t, t.pendingOut[i])]
<1>1. CASE t.pendingOut # <<>>
  <2>1. n \in Nat
    BY Fields, RoomType
  <2> HIDE DEF n
  <2>2. PICK a \in Attempts(n) : r = [tunnel |-> Place(t, a[1]), frames |-> frames(a[2])]
    BY <1>1 DEF SendBacklog, n
  <2>3. a[1] \in 0..n /\ a[2] = a[1] /\ a[1] \in Nat
    BY <2>1, AttemptsSent
  <2>4. r.tunnel = Place(t, a[1]) /\ r.frames = frames(a[1])
    BY <2>2, <2>3
  <2>5. r.tunnel.acknowledge = t.acknowledge
    BY <2>1, <2>3, <2>4, PlaceFields
  <2>6. CASE a[1] = 0
    <3>1. r.tunnel.unackedPacket = t.unackedPacket
      BY <2>1, <2>3, <2>4, <2>6, PlaceFields
    <3> QED
      BY <2>5, <3>1 DEF Honours, Settled
  <2>7. CASE a[1] # 0
    <3>1. a[1] \in Nat /\ 1 \in 1..a[1]
      BY <2>1, <2>3, <2>7
    <3>2. Len(r.frames) = a[1]
      BY <2>4, <3>1
    <3>3. r.frames[1] = FrameOf(t, t.pendingOut[1])
      BY <2>4, <3>1
    <3>4. r.frames[1].acknowledge = t.acknowledge
      BY <3>3 DEF FrameOf
    <3> QED
      BY <2>5, <3>1, <3>2, <3>4 DEF Honours, Settled
  <2> QED
    BY <2>6, <2>7
<1>2. CASE t.pendingOut = <<>> /\ t.unackedPacket
  BY <1>2, SendEmptyHonours DEF SendBacklog
<1>3. CASE t.pendingOut = <<>> /\ ~t.unackedPacket
  BY <1>3 DEF SendBacklog, Honours
<1> QED
  BY <1>1, <1>2, <1>3

\* What two sends in a row emit carries what either of them emits.
LEMMA CarriedOn ==
  ASSUME NEW f \in Seq(Frame), NEW g \in Seq(Frame), NEW x \in Words
  PROVE  /\ (\E k \in 1..Len(f) : f[k].acknowledge = x)
              => \E k \in 1..Len(f \o g) : (f \o g)[k].acknowledge = x
         /\ (\E k \in 1..Len(g) : g[k].acknowledge = x)
              => \E k \in 1..Len(f \o g) : (f \o g)[k].acknowledge = x
<1>1. Len(f) \in Nat /\ Len(g) \in Nat /\ Len(f \o g) = Len(f) + Len(g)
  BY ConcatProperties, LenProperties
<1>2. ASSUME NEW k \in 1..Len(f), f[k].acknowledge = x
      PROVE  \E j \in 1..Len(f \o g) : (f \o g)[j].acknowledge = x
  <2>1. k \in 1..Len(f \o g) /\ (f \o g)[k] = f[k]
    BY <1>1
  <2> QED
    BY <1>2, <2>1
<1>3. ASSUME NEW k \in 1..Len(g), g[k].acknowledge = x
      PROVE  \E j \in 1..Len(f \o g) : (f \o g)[j].acknowledge = x
  <2>1. k + Len(f) \in 1..Len(f \o g) /\ (f \o g)[k + Len(f)] = g[k]
    BY <1>1
  <2> QED
    BY <1>3, <2>1
<1> QED
  BY <1>2, <1>3

LEMMA HonoursTwice ==
  ASSUME NEW t \in TunnelRecord, NEW b \in Outcome, NEW c \in Outcome, NEW r \in Outcome,
         Honours(t, b), Honours(b.tunnel, c),
         r.frames = b.frames \o c.frames,
         r.tunnel.acknowledge = c.tunnel.acknowledge,
         r.tunnel.unackedPacket = c.tunnel.unackedPacket
  PROVE  Honours(t, r)
<1>1. b.frames \in Seq(Frame) /\ c.frames \in Seq(Frame) /\ t.acknowledge \in Words
  BY Fields DEF Outcome
<1>2. r.tunnel.acknowledge = t.acknowledge /\ b.tunnel.acknowledge = t.acknowledge
      /\ c.tunnel.acknowledge = t.acknowledge
  BY DEF Honours
<1> SUFFICES ASSUME t.unackedPacket PROVE Settled(r)
  BY <1>2 DEF Honours
<1>3. Settled(b) /\ (b.tunnel.unackedPacket => Settled(c))
  BY DEF Honours
<1> DEFINE x == t.acknowledge
<1>x. /\ (\E k \in 1..Len(b.frames) : b.frames[k].acknowledge = x)
            => \E k \in 1..Len(r.frames) : r.frames[k].acknowledge = x
      /\ (\E k \in 1..Len(c.frames) : c.frames[k].acknowledge = x)
            => \E k \in 1..Len(r.frames) : r.frames[k].acknowledge = x
  <2> HIDE DEF x
  <2>1. x \in Words
    BY <1>1 DEF x
  <2>2. /\ (\E k \in 1..Len(b.frames) : b.frames[k].acknowledge = x)
              => \E k \in 1..Len(b.frames \o c.frames) : (b.frames \o c.frames)[k].acknowledge = x
        /\ (\E k \in 1..Len(c.frames) : c.frames[k].acknowledge = x)
              => \E k \in 1..Len(b.frames \o c.frames) : (b.frames \o c.frames)[k].acknowledge = x
    BY <1>1, <2>1, CarriedOn
  <2> QED
    BY <2>2
<1>4. CASE Settled(c)
  BY <1>2, <1>4, <1>x DEF Settled
<1>5. CASE ~b.tunnel.unackedPacket
  BY <1>2, <1>3, <1>5, <1>x DEF Settled
<1> QED
  BY <1>3, <1>4, <1>5
LEMMA SendOrQueueHonours ==
  ASSUME NEW t \in TunnelRecord, NEW packet \in Packet, NEW r \in SendOrQueue(t, packet),
         ~SendMayFail
  PROVE  Honours(t, r)
<1> DEFINE queued == [t EXCEPT !.pendingOut = <<packet>>]
           stays(u) == [u EXCEPT !.pendingOut = <<packet>>, !.hasPendingOut = TRUE]
<1>1. Lesser(1, Room(t)) \in Nat
  BY RoomType
<1>2. PICK a \in Attempts(Lesser(1, Room(t))) :
        r = [tunnel |-> IF a[2] = 1 THEN Place(queued, 1)
                        ELSE stays(IF a[1] = 1 THEN Place(queued, 1) ELSE t),
             frames |-> IF a[2] = 1 THEN <<FrameOf(t, packet)>> ELSE <<>>]
  BY DEF SendOrQueue
<1>3. a[2] = a[1]
  BY <1>1, AttemptsSent
<1>4. CASE a[1] = 1
  <2>1. r.tunnel = Place(queued, 1) /\ r.frames = <<FrameOf(t, packet)>>
    BY <1>2, <1>3, <1>4
  <2>2. queued \in TunnelRecord /\ queued.acknowledge = t.acknowledge
    <3>1. <<packet>> \in Seq(Packet)
      OBVIOUS
    <3> QED
      BY <3>1 DEF TunnelRecord
  <2> HIDE DEF queued
  <2>3. r.tunnel.acknowledge = t.acknowledge
    BY <2>1, <2>2, PlaceFields
  <2>4. Len(r.frames) = 1 /\ r.frames[1].acknowledge = t.acknowledge
    BY <2>1 DEF FrameOf
  <2>5. 1 \in 1..Len(r.frames)
    BY <2>4
  <2> QED
    BY <2>3, <2>4, <2>5 DEF Honours, Settled
<1>5. CASE a[1] # 1
  <2>1. r.tunnel = [t EXCEPT !.pendingOut = <<packet>>, !.hasPendingOut = TRUE]
    BY <1>2, <1>3, <1>5
  <2>2. r.tunnel.acknowledge = t.acknowledge /\ r.tunnel.unackedPacket = t.unackedPacket
    BY <2>1 DEF TunnelRecord
  <2> QED
    BY <2>2 DEF Honours, Settled
<1> QED
  BY <1>4, <1>5

LEMMA SendOutHonours ==
  ASSUME NEW t \in TunnelRecord, NEW packet \in Packet, NEW r \in SendOut(t, packet),
         ~SendMayFail
  PROVE  Honours(t, r)
<1>1. PICK b \in SendBacklog(t) :
        r \in IF b.tunnel.pendingOut # <<>>
              THEN {[b EXCEPT !.tunnel.pendingOut = Append(@, packet),
                              !.tunnel.hasPendingOut = TRUE]}
              ELSE {[c EXCEPT !.frames = b.frames \o @] : c \in SendOrQueue(b.tunnel, packet)}
  BY DEF SendOut
<1>2. b \in Outcome /\ b.tunnel \in TunnelRecord
  BY SendBacklogType DEF Outcome
<1>3. Honours(t, b)
  BY SendBacklogHonours
<1>4. CASE b.tunnel.pendingOut # <<>>
  <2>1. r = [tunnel |-> [b.tunnel EXCEPT !.pendingOut = Append(@, packet),
                                         !.hasPendingOut = TRUE],
             frames |-> b.frames]
    BY <1>1, <1>2, <1>4 DEF Outcome, TunnelRecord
  <2>2. /\ r.tunnel.acknowledge = b.tunnel.acknowledge
        /\ r.tunnel.unackedPacket = b.tunnel.unackedPacket
    BY <1>2, <2>1 DEF TunnelRecord
  <2>3. r.frames = b.frames
    BY <2>1
  <2> QED
    BY <1>3, <2>2, <2>3 DEF Honours, Settled
<1>5. CASE b.tunnel.pendingOut = <<>>
  <2>1. PICK c \in SendOrQueue(b.tunnel, packet) : r = [c EXCEPT !.frames = b.frames \o @]
    BY <1>1, <1>5
  <2>2. c \in Outcome
    BY <1>2, SendOrQueueType
  <2>3. Honours(b.tunnel, c)
    BY <1>2, SendOrQueueHonours
  <2>4. r \in Outcome
    BY SendOutType
  <2>5. r.tunnel = c.tunnel /\ r.frames = b.frames \o c.frames
    BY <2>1, <2>2 DEF Outcome
  <2> QED
    BY <1>2, <1>3, <2>2, <2>3, <2>4, <2>5, HonoursTwice
<1> QED
  BY <1>4, <1>5

LEMMA FlushHonours ==
  ASSUME NEW t \in TunnelRecord, NEW slots \in SUBSET Occupied(t),
         NEW expired \in SetToSeqs(slots), NEW b \in Flush(t, expired), ~SendMayFail
  PROVE  Honours(t, b)
<1> DEFINE frames == [k \in 1..Len(expired) |-> FrameOf(t, t.reliabilityWindow[expired[k]])]
           after  == [t EXCEPT !.unackedPacket = IF expired = <<>> THEN @ ELSE FALSE]
           r == Resend(t, expired)
<1>1. r = [tunnel |-> after, frames |-> frames]
  BY DEF Resend
<1>2. Honours(t, r)
  <2>1. after.acknowledge = t.acknowledge
    BY DEF TunnelRecord
  <2>2. CASE expired = <<>>
    <3>1. after.unackedPacket = t.unackedPacket
      BY <2>2 DEF TunnelRecord
    <3> HIDE DEF frames, after
    <3>2. r.tunnel = after
      BY <1>1
    <3> QED
      BY <2>1, <3>1, <3>2 DEF Honours, Settled
  <2>3. CASE expired # <<>>
    <3>1. Len(expired) \in Nat /\ 1 \in 1..Len(expired)
      BY <2>3, ExpiredType, EmptySeq, LenProperties
    <3>2. Len(frames) = Len(expired) /\ frames[1].acknowledge = t.acknowledge
      BY <3>1 DEF FrameOf
    <3> HIDE DEF frames, after
    <3> QED
      BY <1>1, <2>1, <3>1, <3>2 DEF Honours, Settled
  <2> QED
    BY <2>2, <2>3
<1>3. after \in TunnelRecord
  BY DEF TunnelRecord
<1>4. r \in Outcome
  <2>1. \A k \in 1..Len(expired) : FrameOf(t, t.reliabilityWindow[expired[k]]) \in Frame
    BY ExpiredType, FrameType
  <2>2. Len(expired) \in Nat
    BY ExpiredType, LenProperties
  <2>3. frames \in Seq(Frame)
    BY <2>1, <2>2, IntervalSeq
  <2> HIDE DEF frames, after
  <2> QED
    BY <1>1, <1>3, <2>3 DEF Outcome
<1> HIDE DEF frames, after, r
<1>5. CASE t.hasPendingOut
  <2>1. PICK c \in SendBacklog(r.tunnel) :
          b = [tunnel |-> [c.tunnel EXCEPT !.hasPendingOut = FALSE],
               frames |-> r.frames \o c.frames]
    BY <1>5 DEF Flush, r
  <2>2. r.tunnel \in TunnelRecord
    BY <1>4 DEF Outcome
  <2>3. c \in Outcome /\ Honours(r.tunnel, c)
    BY <2>2, SendBacklogType, SendBacklogHonours
  <2>4. /\ b.tunnel.acknowledge = c.tunnel.acknowledge
        /\ b.tunnel.unackedPacket = c.tunnel.unackedPacket
        /\ b.frames = r.frames \o c.frames
    BY <2>1, <2>3 DEF Outcome, TunnelRecord
  <2>5. b \in Outcome
    BY FlushType
  <2> QED
    BY <1>2, <1>4, <2>3, <2>4, <2>5, HonoursTwice
<1>6. CASE ~t.hasPendingOut
  BY <1>2, <1>6 DEF Flush, r
<1> QED
  BY <1>5, <1>6

\* Accept takes the acknowledgement further while one is owed.
LEMMA AcceptSettles ==
  ASSUME NEW t \in TunnelRecord, NEW data \in Nat, NEW r \in Accept(t, data),
         t.unackedPacket, ~SendMayFail
  PROVE  Settled(r)
<1> DEFINE u == [t EXCEPT !.acknowledge = Plus(@, 1)]
           waiting(n) == [k \in 1..n |-> u.incoming[Slot(Plus(u.acknowledge, k - 1))].data]
<1>1. u \in TunnelRecord /\ u.unackedPacket = t.unackedPacket
  <2>1. Plus(t.acknowledge, 1) \in Words
    BY Fields, WordArithmetic
  <2> QED
    BY <2>1 DEF TunnelRecord
<1>2. PICK n \in Waiting(u) :
        \E b \in IF n > 0 THEN SendBacklog(TakeWaiting(u, n))
                 ELSE {[tunnel |-> u, frames |-> <<>>]} :
          r = [tunnel |-> b.tunnel, frames |-> b.frames, new |-> TRUE,
               payloads |-> <<data>> \o waiting(n)]
  BY DEF Accept
<1> HIDE DEF u
<1>3. n \in Nat
  BY Constants DEF Waiting
<1>4. PICK b \in IF n > 0 THEN SendBacklog(TakeWaiting(u, n))
                ELSE {[tunnel |-> u, frames |-> <<>>]} :
        r = [tunnel |-> b.tunnel, frames |-> b.frames, new |-> TRUE,
             payloads |-> <<data>> \o waiting(n)]
  BY <1>2
<1>5. r.tunnel = b.tunnel /\ r.frames = b.frames
  BY <1>4
<1>6. CASE n > 0
  <2>1. TakeWaiting(u, n) \in TunnelRecord
    BY <1>1, <1>3, TakeWaitingType
  <2>2. TakeWaiting(u, n).unackedPacket = u.unackedPacket
    BY <1>1 DEF TakeWaiting, TunnelRecord
  <2>3. Honours(TakeWaiting(u, n), b)
    BY <1>4, <1>6, <2>1, SendBacklogHonours
  <2> QED
    BY <1>1, <1>5, <2>2, <2>3 DEF Honours, Settled
<1>7. CASE ~(n > 0)
  <2>1. b.tunnel = u
    BY <1>4, <1>7
  <2> QED
    BY <1>1, <1>5, <2>1 DEF Settled
<1> QED
  BY <1>6, <1>7

LEMMA DiscardHonours ==
  ASSUME NEW t \in TunnelRecord, NEW frame \in Frame,
         NEW wasUnacked, NEW r \in Discard(t, frame, wasUnacked), ~SendMayFail
  PROVE  Honours(t, r)
<1> DEFINE ahead == frame.sequence > t.acknowledge
           early == ahead /\ frame.sequence - t.acknowledge < WindowSize
           packet == [sequence |-> frame.sequence, data |-> frame.data]
           kept  == [t EXCEPT !.incoming[Slot(frame.sequence)] = packet]
<1>1. PICK b \in IF early THEN {[tunnel |-> kept, frames |-> <<>>]}
                ELSE IF ~ahead /\ wasUnacked /\ t.start = t.next THEN SendEmpty(t)
                ELSE {[tunnel |-> t, frames |-> <<>>]} :
        r = [tunnel |-> b.tunnel, frames |-> b.frames, new |-> FALSE, payloads |-> <<>>]
  BY DEF Discard
<1>2. kept.acknowledge = t.acknowledge /\ kept.unackedPacket = t.unackedPacket
  BY DEF TunnelRecord
<1> HIDE DEF kept
<1>3. r.tunnel = b.tunnel /\ r.frames = b.frames
  BY <1>1
<1>4. CASE b \in SendEmpty(t)
  BY <1>3, <1>4, SendEmptyHonours DEF Honours, Settled
<1>5. CASE b = [tunnel |-> kept, frames |-> <<>>] \/ b = [tunnel |-> t, frames |-> <<>>]
  <2>1. b.tunnel = kept \/ b.tunnel = t
    BY <1>5
  <2> QED
    BY <1>2, <1>3, <2>1 DEF Honours, Settled
<1> QED
  BY <1>1, <1>4, <1>5

\* A packet with data leaves an acknowledgement owed or sent; one without changes
\* nothing of what is owed.
LEMMA ReceiveSettles ==
  ASSUME NEW t \in TunnelRecord, NEW frame \in Frame, NEW r \in Receive(t, frame),
         ~SendMayFail
  PROVE  Honours(t, r) \/ Settled(r)
<1> DEFINE noted == [t EXCEPT !.unackedPacket = @ \/ frame.data # NoData,
                              !.hasPendingOut = TRUE]
           u == Acknowledged(noted, frame.acknowledge)
<1>1. noted \in TunnelRecord
  BY DEF TunnelRecord
<1>2. frame.acknowledge \in Words /\ frame.data \in Nat
  BY DEF Frame
<1>3. u \in TunnelRecord
  BY <1>1, <1>2, AcknowledgedType
<1>4. u.acknowledge = t.acknowledge
  BY <1>1 DEF Acknowledged, TunnelRecord
<1>5. u.unackedPacket = noted.unackedPacket
  BY <1>1 DEF Acknowledged, TunnelRecord
<1>6. CASE frame.data = NoData
  <2>1. r = [tunnel |-> u, frames |-> <<>>, new |-> FALSE, payloads |-> <<>>]
    BY <1>6 DEF Receive
  <2>2. t.unackedPacket => u.unackedPacket
    BY <1>5 DEF TunnelRecord
  <2> HIDE DEF u
  <2>3. r.tunnel = u
    BY <2>1
  <2> QED
    BY <1>4, <2>2, <2>3 DEF Honours, Settled
<1>7. CASE frame.data # NoData
  <2>1. u.unackedPacket
    BY <1>5, <1>7 DEF TunnelRecord
  <2>2. CASE frame.sequence = u.acknowledge
    <3>1. r \in Accept(u, frame.data)
      BY <1>7, <2>2 DEF Receive
    <3> HIDE DEF u
    <3> QED
      BY <1>2, <1>3, <2>1, <3>1, AcceptSettles
  <2>3. CASE frame.sequence # u.acknowledge
    <3>1. r \in Discard(u, frame, t.unackedPacket)
      BY <1>7, <2>3 DEF Receive
    <3> HIDE DEF u
    <3>2. Honours(u, r)
      BY <1>3, <3>1, DiscardHonours
    <3> QED
      BY <2>1, <3>2 DEF Honours
  <2> QED
    BY <2>2, <2>3
<1> QED
  BY <1>6, <1>7

\* In a network that forgets no frame: the latest acknowledgement is remembered
\* or is on its way.
Owing(t, n) ==
  \/ t.acknowledge = 0
  \/ t.unackedPacket
  \/ \E f \in n : f.acknowledge = t.acknowledge

Owed == \A s \in Side : Owing(tunnel[s], net[s])

LEMMA OwingStep ==
  ASSUME NEW t, NEW n, NEW r,
         Owing(t, n), Honours(t, r) \/ Settled(r), ~Ordered
  PROVE  Owing(r.tunnel, Carry(n, r.frames))
BY DEF Owing, Honours, Settled, Carry

LEMMA OwedMove ==
  ASSUME TypeOK, Owed, ~Ordered, NEW s \in Side, NEW r,
         Honours(tunnel[s], r) \/ Settled(r),
         tunnel' = [tunnel EXCEPT ![s] = r.tunnel],
         net'[s] = Carry(net[s], r.frames),
         \A q \in Side : q # s => net'[q] = net[q]
  PROVE  Owed'
<1> SUFFICES ASSUME NEW q \in Side PROVE Owing(tunnel'[q], net'[q])
  BY DEF Owed
<1>1. CASE q = s
  <2>1. tunnel'[s] = r.tunnel
    BY DEF TypeOK
  <2>2. Owing(r.tunnel, Carry(net[s], r.frames))
    BY OwingStep DEF Owed
  <2> QED
    BY <1>1, <2>1, <2>2
<1>2. CASE q # s
  BY <1>2 DEF TypeOK, Owed
<1> QED
  BY <1>1, <1>2

LEMMA OwedStep ==
  ASSUME ~Ordered, ~SendMayFail
  PROVE  TypeOK /\ Owed /\ [Next]_vars => Owed'
<1> SUFFICES ASSUME TypeOK, Owed, [Next]_vars PROVE Owed'
  OBVIOUS
<1>1. \A s \in Side : tunnel[s] \in TunnelRecord /\ net[s] \in SUBSET Frame
  BY DEF TypeOK
<1>2. ASSUME NEW s \in Side, Send(s) PROVE Owed'
  <2>1. net' = net
    BY <1>2 DEF Send
  <2>2. \A q \in Side : /\ tunnel'[q].acknowledge = tunnel[q].acknowledge
                        /\ tunnel'[q].unackedPacket = tunnel[q].unackedPacket
    BY <1>2 DEF Send, TypeOK, TunnelRecord
  <2> QED
    BY <2>1, <2>2 DEF Owed, Owing
<1>3. ASSUME NEW s \in Side, Pending(s) \/ Process(s) PROVE Owed'
  BY <1>3 DEF Pending, Process, Owed
<1>4. ASSUME NEW s \in Side, Incoming(s) PROVE Owed'
  <2>1. PICK a \in Arrivals(net[Peer(s)]) : IncomingOne(s, a)
    BY <1>4 DEF Incoming
  <2>2. a.frame \in Frame /\ a.rest = net[Peer(s)]
    BY <1>1, PeerType DEF Arrivals
  <2>3. PICK r \in Receive(tunnel[s], a.frame) :
          /\ tunnel' = [tunnel EXCEPT ![s] = r.tunnel]
          /\ net' = [net EXCEPT ![Peer(s)] = a.rest, ![s] = Carry(@, r.frames)]
    BY <2>1 DEF IncomingOne
  <2>4. Honours(tunnel[s], r) \/ Settled(r)
    BY <1>1, <2>2, ReceiveSettles
  <2>5. net'[s] = Carry(net[s], r.frames) /\ \A q \in Side : q # s => net'[q] = net[q]
    BY <2>2, <2>3, PeerType DEF TypeOK
  <2> QED
    BY <2>3, <2>4, <2>5, OwedMove
<1>5. ASSUME NEW s \in Side, Lose(s) PROVE Owed'
  BY <1>5 DEF Lose
<1>6. ASSUME NEW s \in Side, FinishPending(s) PROVE Owed'
  <2> PICK slots \in SUBSET Occupied(tunnel[s]) :
        \E expired \in SetToSeqs(slots) : FlushPending(s, expired)
    BY <1>6 DEF FinishPending
  <2>1. PICK expired \in SetToSeqs(slots) : FlushPending(s, expired)
    OBVIOUS
  <2>2. PICK b \in Flush(tunnel[s], expired) :
          /\ tunnel' = [tunnel EXCEPT ![s] = b.tunnel]
          /\ net' = [net EXCEPT ![s] = Carry(@, b.frames)]
    BY <2>1 DEF FlushPending
  <2>3. Honours(tunnel[s], b)
    BY <1>1, FlushHonours
  <2>4. net'[s] = Carry(net[s], b.frames) /\ \A q \in Side : q # s => net'[q] = net[q]
    BY <2>2 DEF TypeOK
  <2> QED
    BY <2>2, <2>3, <2>4, OwedMove
<1>7. ASSUME NEW s \in Side, FinishOut(s) PROVE Owed'
  <2>1. outPacket[s] \in Packet
    BY <1>7 DEF FinishOut, TypeOK
  <2>2. PICK b \in SendOut(tunnel[s], outPacket[s]) :
          /\ tunnel' = [tunnel EXCEPT ![s] = b.tunnel]
          /\ net' = [net EXCEPT ![s] = Carry(@, b.frames)]
    BY <1>7 DEF FinishOut
  <2>3. Honours(tunnel[s], b)
    BY <1>1, <2>1, SendOutHonours
  <2>4. net'[s] = Carry(net[s], b.frames) /\ \A q \in Side : q # s => net'[q] = net[q]
    BY <2>2 DEF TypeOK
  <2> QED
    BY <2>2, <2>3, <2>4, OwedMove
<1>8. CASE UNCHANGED vars
  BY <1>8 DEF vars, Owed
<1> QED
  BY <1>2, <1>3, <1>4, <1>5, <1>6, <1>7, <1>8 DEF Next

\* No acknowledgement is forgotten: where the network keeps every frame and
\* netInterfaceSend does not fail, a side that has not sent its latest
\* acknowledgement still has unackedPacket set (_tunnelSend, tunnelResend,
\* tunnelIsNewPacket), however often the sequence numbers have wrapped.
THEOREM AcknowledgementsAreOwed ==
  ASSUME ~Ordered, ~SendMayFail
  PROVE  Spec => []AcknowledgementOwed
<1>1. Init => Owed
  BY DEF Init, Owed, Owing, NewTunnel
<1>2. TypeOK /\ Owed /\ [Next]_vars => Owed'
  BY OwedStep
<1>3. Owed => AcknowledgementOwed
  BY DEF Owed, Owing, AcknowledgementOwed, Frames
<1> QED
  BY <1>1, <1>2, <1>3, TypeCorrect, PTL DEF Spec

-----------------------------------------------------------------------------
(* Queues that could move.                                                 *)

\* A tunnel with queued packets and room for one of them is on the interface's
\* list.
Listed(t) == t.pendingOut # <<>> /\ Room(t) > 0 => t.hasPendingOut

\* A difference of remainders, as long as it does not reach the modulus.
LEMMA ModAdvance ==
  ASSUME NEW m \in Nat \ {0}, NEW a \in Int, NEW b \in Int, NEW n \in Nat,
         ((a - b) % m) + n < m
  PROVE  (((a + n) % m) - b) % m = ((a - b) % m) + n
<1> DEFINE x == a - b
           y == a + n
           p == x \div m
           d == x % m
           q == y \div m
           c == y % m
<1>1. p \in Int /\ d \in Nat /\ x = m * p + d
  <2>1. x \in Int
    OBVIOUS
  <2> HIDE DEF x
  <2> QED
    BY <2>1
<1>2. q \in Int /\ c \in Nat /\ y = m * q + c
  <2>1. y \in Int
    OBVIOUS
  <2> HIDE DEF y
  <2> QED
    BY <2>1
<1>3. d + n < m
  OBVIOUS
<1>4. a - b = m * p + d /\ a + n = m * q + c
  BY <1>1, <1>2 DEF x, y
<1> HIDE DEF x, y, p, d, q, c
<1>5. c - b \in Int /\ p - q \in Int /\ d + n \in 0..(m - 1)
  BY <1>1, <1>2, <1>3
<1>6. m * (p - q) = m * p - m * q
  BY <1>1, <1>2
<1>7. c - b = m * (p - q) + (d + n)
  BY <1>1, <1>2, <1>4, <1>6
<1>8. (c - b) % m = d + n
  BY <1>5, <1>7, ModUnique
<1> QED
  BY <1>8 DEF c, d, x, y

\* Placing n packets takes n out of the room.
LEMMA PlaceInFlight ==
  ASSUME NEW t \in TunnelRecord, NEW n \in Nat, InFlight(t) + n <= WindowSize
  PROVE  InFlight(Place(t, n)) = InFlight(t) + n
<1>1. t.next \in Int /\ t.start \in Int /\ Word \in Nat \ {0}
  BY Fields, Constants
<1>2. InFlight(t) = (t.next - t.start) % Word
  BY DEF InFlight, Minus
<1>3. InFlight(Place(t, n)) = (((t.next + n) % Word) - t.start) % Word
  BY PlaceFields DEF InFlight, Minus, Plus
<1>4. ((t.next - t.start) % Word) + n < Word
  <2>1. InFlight(t) \in Nat
    BY RoomType, WordsSlotsInt
  <2> QED
    BY <1>2, <2>1, Constants
<1> DEFINE x == t.next
           y == t.start
<1>5. (((x + n) % Word) - y) % Word = ((x - y) % Word) + n
  <2>1. x \in Int /\ y \in Int /\ Word \in Nat \ {0} /\ ((x - y) % Word) + n < Word
    BY <1>1, <1>4
  <2> HIDE DEF x, y
  <2> QED
    BY <2>1, ModAdvance
<1> QED
  BY <1>2, <1>3, <1>5

\* A device that takes every packet empties the queue or fills the window.
LEMMA BacklogGoesOut ==
  ASSUME NEW t \in TunnelRecord, NEW r \in SendBacklog(t), ~SendMayFail, ~DeviceMayBlock
  PROVE  r.tunnel.pendingOut = <<>> \/ Room(r.tunnel) = 0
<1> DEFINE n == Lesser(Len(t.pendingOut), Room(t))
           frames(k) == [i \in 1..k |-> FrameOf(t, t.pendingOut[i])]
<1>1. CASE t.pendingOut # <<>>
  <2>1. n \in Nat /\ Len(t.pendingOut) \in Nat /\ Room(t) \in 0..WindowSize
        /\ InFlight(t) \in Nat
    BY Fields, RoomType, WordsSlotsInt
  <2>2. n = Len(t.pendingOut) \/ n = Room(t)
    BY DEF Lesser
  <2>3. n <= Room(t)
    BY <2>1 DEF Lesser
  <2> HIDE DEF n
  <2>4. PICK a \in Attempts(n) : r = [tunnel |-> Place(t, a[1]), frames |-> frames(a[2])]
    BY <1>1 DEF SendBacklog, n
  <2>5. a[1] = n
    BY <2>1, AttemptsSent
  <2>6. r.tunnel = Place(t, n)
    BY <2>4, <2>5
  <2>7. CASE n = Len(t.pendingOut)
    <3>1. r.tunnel.pendingOut = SubSeq(t.pendingOut, n + 1, Len(t.pendingOut))
      BY <2>1, <2>6, PlaceFields
    <3>2. t.pendingOut \in Seq(Packet)
      BY Fields
    <3>3. Len(SubSeq(t.pendingOut, n + 1, Len(t.pendingOut))) = 0
      BY <2>1, <2>7, <3>2
    <3> QED
      BY <2>1, <2>7, <3>1, <3>2
  <2>8. CASE n = Room(t) /\ n # 0
    <3>1. InFlight(t) + n = WindowSize
      BY <2>1, <2>8, Constants DEF Room
    <3>2. InFlight(Place(t, n)) = WindowSize
      BY <2>1, <3>1, PlaceInFlight, Constants
    <3> QED
      BY <2>6, <3>2, Constants DEF Room
  <2>9. CASE n = Room(t) /\ n = 0
    <3>1. InFlight(t) >= WindowSize
      BY <2>1, <2>9, Constants DEF Room
    <3>2. Plus(t.next, 0) = t.next
      <4>1. t.next \in 0..(Word - 1) /\ Word \in Nat \ {0}
        BY Fields, Constants DEF Words
      <4>2. t.next + 0 = Word * 0 + t.next
        BY <4>1
      <4> QED
        BY <4>1, <4>2, ModUnique DEF Plus
    <3>3. InFlight(Place(t, n)) = InFlight(t)
      BY <2>1, <2>9, <3>2, PlaceFields DEF InFlight
    <3> QED
      BY <2>6, <3>1, <3>3, Constants DEF Room
  <2> QED
    BY <2>2, <2>7, <2>8, <2>9
<1>2. CASE t.pendingOut = <<>> /\ t.unackedPacket
  <2>1. PICK a \in Attempts(Lesser(1, Room(t))) :
          r = [tunnel |-> [t EXCEPT !.unackedPacket = IF a[1] = 1 THEN FALSE ELSE @],
               frames |-> IF a[2] = 1 THEN <<EmptyFrame(t)>> ELSE <<>>]
    BY <1>2 DEF SendBacklog, SendEmpty
  <2>2. r.tunnel.pendingOut = t.pendingOut
    BY <2>1 DEF TunnelRecord
  <2> QED
    BY <1>2, <2>2
<1>3. CASE t.pendingOut = <<>> /\ ~t.unackedPacket
  BY <1>3 DEF SendBacklog
<1> QED
  BY <1>1, <1>2, <1>3

LEMMA FlushListed ==
  ASSUME NEW t \in TunnelRecord, NEW slots \in SUBSET Occupied(t),
         NEW expired \in SetToSeqs(slots), NEW b \in Flush(t, expired), Listed(t),
         ~SendMayFail, ~DeviceMayBlock
  PROVE  Listed(b.tunnel)
<1> DEFINE r == Resend(t, expired)
<1>1. r.tunnel = [t EXCEPT !.unackedPacket = IF expired = <<>> THEN @ ELSE FALSE]
  BY DEF Resend
<1>2. /\ r.tunnel \in TunnelRecord
      /\ r.tunnel.pendingOut = t.pendingOut
      /\ r.tunnel.next = t.next /\ r.tunnel.start = t.start
  BY <1>1 DEF TunnelRecord
<1> HIDE DEF r
<1>3. CASE t.hasPendingOut
  <2>1. PICK c \in SendBacklog(r.tunnel) :
          b = [tunnel |-> [c.tunnel EXCEPT !.hasPendingOut = FALSE],
               frames |-> r.frames \o c.frames]
    BY <1>3 DEF Flush, r
  <2>2. c.tunnel \in TunnelRecord
    BY <1>2, SendBacklogType DEF Outcome
  <2>3. c.tunnel.pendingOut = <<>> \/ Room(c.tunnel) = 0
    BY <1>2, BacklogGoesOut
  <2>4. /\ b.tunnel.pendingOut = c.tunnel.pendingOut
        /\ b.tunnel.next = c.tunnel.next /\ b.tunnel.start = c.tunnel.start
    BY <2>1, <2>2 DEF TunnelRecord
  <2>5. Room(b.tunnel) = Room(c.tunnel)
    BY <2>4 DEF Room, InFlight
  <2> QED
    BY <2>3, <2>4, <2>5 DEF Listed
<1>4. CASE ~t.hasPendingOut
  <2>1. b = r
    BY <1>4 DEF Flush, r
  <2>2. Room(b.tunnel) = Room(t)
    BY <1>2, <2>1 DEF Room, InFlight
  <2> QED
    BY <1>2, <1>4, <2>1, <2>2 DEF Listed
<1> QED
  BY <1>3, <1>4

\* tunnelOut puts the tunnel on the list whenever it leaves a packet queued.
LEMMA SendOutListed ==
  ASSUME NEW t \in TunnelRecord, NEW packet \in Packet, NEW r \in SendOut(t, packet)
  PROVE  Listed(r.tunnel)
<1>1. PICK b \in SendBacklog(t) :
        r \in IF b.tunnel.pendingOut # <<>>
              THEN {[b EXCEPT !.tunnel.pendingOut = Append(@, packet),
                              !.tunnel.hasPendingOut = TRUE]}
              ELSE {[c EXCEPT !.frames = b.frames \o @] : c \in SendOrQueue(b.tunnel, packet)}
  BY DEF SendOut
<1>2. b \in Outcome /\ b.tunnel \in TunnelRecord
  BY SendBacklogType DEF Outcome
<1>3. CASE b.tunnel.pendingOut # <<>>
  <2>1. r = [tunnel |-> [b.tunnel EXCEPT !.pendingOut = Append(@, packet),
                                         !.hasPendingOut = TRUE],
             frames |-> b.frames]
    BY <1>1, <1>2, <1>3 DEF Outcome, TunnelRecord
  <2>2. r.tunnel.hasPendingOut
    BY <1>2, <2>1 DEF TunnelRecord
  <2> QED
    BY <2>2 DEF Listed
<1>4. CASE b.tunnel.pendingOut = <<>>
  <2> DEFINE queued == [b.tunnel EXCEPT !.pendingOut = <<packet>>]
             stays(u) == [u EXCEPT !.pendingOut = <<packet>>, !.hasPendingOut = TRUE]
  <2>1. PICK c \in SendOrQueue(b.tunnel, packet) : r = [c EXCEPT !.frames = b.frames \o @]
    BY <1>1, <1>4
  <2>2. c \in Outcome
    BY <1>2, SendOrQueueType
  <2>3. r.tunnel = c.tunnel
    BY <2>1, <2>2 DEF Outcome
  <2>4. PICK a \in Attempts(Lesser(1, Room(b.tunnel))) :
          c = [tunnel |-> IF a[2] = 1 THEN Place(queued, 1)
                          ELSE stays(IF a[1] = 1 THEN Place(queued, 1) ELSE b.tunnel),
               frames |-> IF a[2] = 1 THEN <<FrameOf(b.tunnel, packet)>> ELSE <<>>]
    BY <2>1 DEF SendOrQueue
  <2>5. queued \in TunnelRecord /\ queued.pendingOut = <<packet>>
    <3>1. <<packet>> \in Seq(Packet)
      OBVIOUS
    <3> QED
      BY <1>2, <3>1 DEF TunnelRecord
  <2> HIDE DEF queued
  <2>6. Place(queued, 1) \in TunnelRecord
    <3>1. 1 \in 0..Len(queued.pendingOut)
      BY <2>5
    <3> QED
      BY <2>5, <3>1, PlaceType
  <2>7. Place(queued, 1).pendingOut = <<>>
    <3>1. 1 \in Nat
      OBVIOUS
    <3>2. Place(queued, 1).pendingOut = SubSeq(queued.pendingOut, 1 + 1, Len(queued.pendingOut))
      BY <2>5, <3>1, PlaceFields
    <3>3. SubSeq(<<packet>>, 1 + 1, Len(<<packet>>)) = <<>>
      OBVIOUS
    <3> QED
      BY <2>5, <3>2, <3>3
  <2>8. \A u \in TunnelRecord : stays(u).hasPendingOut
    BY DEF TunnelRecord
  <2> HIDE DEF stays
  <2>9. c.tunnel.pendingOut = <<>> \/ c.tunnel.hasPendingOut
    BY <1>2, <2>4, <2>6, <2>7, <2>8
  <2> QED
    BY <2>3, <2>9 DEF Listed
<1> QED
  BY <1>3, <1>4

\* Whatever arrives, the tunnel is put on the list, and no send takes it off.
LEMMA SendBacklogKeepsListed ==
  ASSUME NEW t \in TunnelRecord, t.hasPendingOut, NEW r \in SendBacklog(t) \cup SendEmpty(t)
  PROVE  r.tunnel.hasPendingOut
<1>1. CASE r \in SendEmpty(t)
  <2>1. PICK a \in Attempts(Lesser(1, Room(t))) :
          r = [tunnel |-> [t EXCEPT !.unackedPacket = IF a[1] = 1 THEN FALSE ELSE @],
               frames |-> IF a[2] = 1 THEN <<EmptyFrame(t)>> ELSE <<>>]
    BY <1>1 DEF SendEmpty
  <2> QED
    BY <2>1 DEF TunnelRecord
<1>2. CASE r \in SendBacklog(t) /\ t.pendingOut # <<>>
  <2> DEFINE n == Lesser(Len(t.pendingOut), Room(t))
             frames(k) == [i \in 1..k |-> FrameOf(t, t.pendingOut[i])]
  <2>1. n \in Nat
    BY Fields, RoomType
  <2> HIDE DEF n
  <2>2. PICK a \in Attempts(n) : r = [tunnel |-> Place(t, a[1]), frames |-> frames(a[2])]
    BY <1>2 DEF SendBacklog, n
  <2>3. a[1] \in Nat
    BY <2>1, AttemptsType
  <2>4. r.tunnel = Place(t, a[1])
    BY <2>2
  <2>5. r.tunnel.hasPendingOut = t.hasPendingOut
    BY <2>3, <2>4, PlaceFields
  <2> QED
    BY <2>5
<1>3. CASE r \in SendBacklog(t) /\ t.pendingOut = <<>>
  <2>1. r \in SendEmpty(t) \/ r = [tunnel |-> t, frames |-> <<>>]
    BY <1>3 DEF SendBacklog
  <2> QED
    BY <1>1, <2>1
<1> QED
  BY <1>1, <1>2, <1>3

LEMMA AcceptListed ==
  ASSUME NEW t \in TunnelRecord, NEW data \in Nat, NEW r \in Accept(t, data),
         t.hasPendingOut
  PROVE  r.tunnel.hasPendingOut
<1> DEFINE u == [t EXCEPT !.acknowledge = Plus(@, 1)]
           waiting(n) == [k \in 1..n |-> u.incoming[Slot(Plus(u.acknowledge, k - 1))].data]
<1>1. u \in TunnelRecord /\ u.hasPendingOut
  <2>1. Plus(t.acknowledge, 1) \in Words
    BY Fields, WordArithmetic
  <2> QED
    BY <2>1 DEF TunnelRecord
<1>2. PICK n \in Waiting(u) :
        \E b \in IF n > 0 THEN SendBacklog(TakeWaiting(u, n))
                 ELSE {[tunnel |-> u, frames |-> <<>>]} :
          r = [tunnel |-> b.tunnel, frames |-> b.frames, new |-> TRUE,
               payloads |-> <<data>> \o waiting(n)]
  BY DEF Accept
<1> HIDE DEF u
<1>3. n \in Nat
  BY Constants DEF Waiting
<1>4. PICK b \in IF n > 0 THEN SendBacklog(TakeWaiting(u, n))
                ELSE {[tunnel |-> u, frames |-> <<>>]} :
        r = [tunnel |-> b.tunnel, frames |-> b.frames, new |-> TRUE,
             payloads |-> <<data>> \o waiting(n)]
  BY <1>2
<1>5. r.tunnel = b.tunnel
  BY <1>4
<1>6. CASE n > 0
  <2>1. TakeWaiting(u, n) \in TunnelRecord
    BY <1>1, <1>3, TakeWaitingType
  <2>2. TakeWaiting(u, n).hasPendingOut
    BY <1>1 DEF TakeWaiting, TunnelRecord
  <2>3. b \in SendBacklog(TakeWaiting(u, n))
    BY <1>4, <1>6
  <2> QED
    BY <1>5, <2>1, <2>2, <2>3, SendBacklogKeepsListed
<1>7. CASE ~(n > 0)
  <2>1. b.tunnel = u
    BY <1>4, <1>7
  <2> QED
    BY <1>1, <1>5, <2>1
<1> QED
  BY <1>6, <1>7

LEMMA DiscardListed ==
  ASSUME NEW t \in TunnelRecord, NEW frame \in Frame,
         NEW wasUnacked, NEW r \in Discard(t, frame, wasUnacked), t.hasPendingOut
  PROVE  r.tunnel.hasPendingOut
<1> DEFINE ahead == frame.sequence > t.acknowledge
           early == ahead /\ frame.sequence - t.acknowledge < WindowSize
           packet == [sequence |-> frame.sequence, data |-> frame.data]
           kept  == [t EXCEPT !.incoming[Slot(frame.sequence)] = packet]
<1>1. PICK b \in IF early THEN {[tunnel |-> kept, frames |-> <<>>]}
                ELSE IF ~ahead /\ wasUnacked /\ t.start = t.next THEN SendEmpty(t)
                ELSE {[tunnel |-> t, frames |-> <<>>]} :
        r = [tunnel |-> b.tunnel, frames |-> b.frames, new |-> FALSE, payloads |-> <<>>]
  BY DEF Discard
<1>2. kept.hasPendingOut
  BY DEF TunnelRecord
<1> HIDE DEF kept
<1>3. r.tunnel = b.tunnel
  BY <1>1
<1>4. CASE b \in SendEmpty(t)
  BY <1>3, <1>4, SendBacklogKeepsListed
<1>5. CASE b = [tunnel |-> kept, frames |-> <<>>] \/ b = [tunnel |-> t, frames |-> <<>>]
  <2>1. b.tunnel = kept \/ b.tunnel = t
    BY <1>5
  <2> QED
    BY <1>2, <1>3, <2>1
<1> QED
  BY <1>1, <1>4, <1>5

LEMMA ReceiveListed ==
  ASSUME NEW t \in TunnelRecord, NEW frame \in Frame, NEW r \in Receive(t, frame)
  PROVE  r.tunnel.hasPendingOut
<1> DEFINE noted == [t EXCEPT !.unackedPacket = @ \/ frame.data # NoData,
                              !.hasPendingOut = TRUE]
           u == Acknowledged(noted, frame.acknowledge)
<1>1. noted \in TunnelRecord
  BY DEF TunnelRecord
<1>2. frame.acknowledge \in Words /\ frame.data \in Nat
  BY DEF Frame
<1>3. u \in TunnelRecord
  BY <1>1, <1>2, AcknowledgedType
<1>4. u.hasPendingOut
  BY <1>1 DEF Acknowledged, TunnelRecord
<1>5. CASE frame.data = NoData
  <2>1. r = [tunnel |-> u, frames |-> <<>>, new |-> FALSE, payloads |-> <<>>]
    BY <1>5 DEF Receive
  <2> HIDE DEF u
  <2>2. r.tunnel = u
    BY <2>1
  <2> QED
    BY <1>4, <2>2
<1>6. CASE frame.data # NoData /\ frame.sequence = u.acknowledge
  <2>1. r \in Accept(u, frame.data)
    BY <1>6 DEF Receive
  <2> HIDE DEF u
  <2> QED
    BY <1>2, <1>3, <1>4, <2>1, AcceptListed
<1>7. CASE frame.data # NoData /\ frame.sequence # u.acknowledge
  <2>1. r \in Discard(u, frame, t.unackedPacket)
    BY <1>7 DEF Receive
  <2> HIDE DEF u
  <2> QED
    BY <1>3, <1>4, <2>1, DiscardListed
<1> QED
  BY <1>5, <1>6, <1>7
LEMMA ListedStep ==
  ASSUME ~DeviceMayBlock, ~SendMayFail
  PROVE  TypeOK /\ (\A s \in Side : Listed(tunnel[s])) /\ [Next]_vars
           => (\A s \in Side : Listed(tunnel[s]))'
<1> SUFFICES ASSUME TypeOK, \A s \in Side : Listed(tunnel[s]), [Next]_vars
             PROVE  \A q \in Side : Listed(tunnel'[q])
  OBVIOUS
<1>1. \A s \in Side : tunnel[s] \in TunnelRecord
  BY DEF TypeOK
<1>2. ASSUME NEW s \in Side, NEW u, tunnel' = [tunnel EXCEPT ![s] = u], Listed(u)
      PROVE  \A q \in Side : Listed(tunnel'[q])
  BY <1>2 DEF TypeOK
<1>3. ASSUME NEW s \in Side, Send(s) PROVE \A q \in Side : Listed(tunnel'[q])
  <2>1. tunnel' = [tunnel EXCEPT ![s] = [tunnel[s] EXCEPT !.sequence = Plus(@, 1)]]
    BY <1>3 DEF Send
  <2> DEFINE u == [tunnel[s] EXCEPT !.sequence = Plus(@, 1)]
  <2>2. /\ u.pendingOut = tunnel[s].pendingOut /\ u.hasPendingOut = tunnel[s].hasPendingOut
        /\ u.next = tunnel[s].next /\ u.start = tunnel[s].start
    BY <1>1 DEF TunnelRecord
  <2>3. Room(u) = Room(tunnel[s])
    BY <2>2 DEF Room, InFlight
  <2> HIDE DEF u
  <2>4. Listed(u)
    BY <2>2, <2>3 DEF Listed
  <2>5. tunnel' = [tunnel EXCEPT ![s] = u]
    BY <2>1 DEF u
  <2> QED
    BY <1>2, <2>4, <2>5
<1>4. ASSUME NEW s \in Side, Pending(s) \/ Process(s) \/ Lose(s)
      PROVE  \A q \in Side : Listed(tunnel'[q])
  <2>1. tunnel' = tunnel
    BY <1>4 DEF Pending, Process, Lose
  <2> QED
    BY <2>1
<1>5. ASSUME NEW s \in Side, Incoming(s) PROVE \A q \in Side : Listed(tunnel'[q])
  <2>1. PICK a \in Arrivals(net[Peer(s)]) : IncomingOne(s, a)
    BY <1>5 DEF Incoming
  <2>2. NetType(net[Peer(s)])
    BY PeerType DEF TypeOK, NetType
  <2>3. a.frame \in Frame
    BY <2>2, ArrivalType
  <2>4. PICK r \in Receive(tunnel[s], a.frame) : tunnel' = [tunnel EXCEPT ![s] = r.tunnel]
    BY <2>1 DEF IncomingOne
  <2>5. Listed(r.tunnel)
    BY <1>1, <2>3, ReceiveListed DEF Listed
  <2> QED
    BY <1>2, <2>4, <2>5
<1>6. ASSUME NEW s \in Side, FinishPending(s) PROVE \A q \in Side : Listed(tunnel'[q])
  <2> PICK slots \in SUBSET Occupied(tunnel[s]) :
        \E expired \in SetToSeqs(slots) : FlushPending(s, expired)
    BY <1>6 DEF FinishPending
  <2>1. PICK expired \in SetToSeqs(slots) : FlushPending(s, expired)
    OBVIOUS
  <2>2. PICK b \in Flush(tunnel[s], expired) : tunnel' = [tunnel EXCEPT ![s] = b.tunnel]
    BY <2>1 DEF FlushPending
  <2>3. Listed(b.tunnel)
    BY <1>1, FlushListed
  <2> QED
    BY <1>2, <2>2, <2>3
<1>7. ASSUME NEW s \in Side, FinishOut(s) PROVE \A q \in Side : Listed(tunnel'[q])
  <2>1. outPacket[s] \in Packet
    BY <1>7 DEF FinishOut, TypeOK
  <2>2. PICK b \in SendOut(tunnel[s], outPacket[s]) : tunnel' = [tunnel EXCEPT ![s] = b.tunnel]
    BY <1>7 DEF FinishOut
  <2>3. Listed(b.tunnel)
    BY <1>1, <2>1, SendOutListed
  <2> QED
    BY <1>2, <2>2, <2>3
<1>8. CASE UNCHANGED vars
  BY <1>8 DEF vars
<1> QED
  BY <1>3, <1>4, <1>5, <1>6, <1>7, <1>8 DEF Next

\* No queue is left behind: a tunnel whose queue could move is on the list that
\* netInterfacePending serves (tunnelOut, tunnelIsNewPacket), where the device
\* takes every packet and netInterfaceSend does not fail; netInterfacePending
\* takes the tunnel off the list whatever tunnelSendBacklog left in the queue.
THEOREM ReadyTunnelsAreListed ==
  ASSUME ~DeviceMayBlock, ~SendMayFail
  PROVE  Spec => []ReadyIsListed
<1>1. Init => \A s \in Side : Listed(tunnel[s])
  BY DEF Init, Listed, NewTunnel
<1>2. TypeOK /\ (\A s \in Side : Listed(tunnel[s])) /\ [Next]_vars
        => (\A s \in Side : Listed(tunnel[s]))'
  BY ListedStep
<1>3. (\A s \in Side : Listed(tunnel[s])) => ReadyIsListed
  BY DEF Listed, ReadyIsListed
<1> QED
  BY <1>1, <1>2, <1>3, TypeCorrect, PTL DEF Spec

-----------------------------------------------------------------------------
(* Safety, for either network, as long as the sequence numbers do not wrap *)
(* and netInterfaceSend does not fail after a packet has been placed.      *)
(*                                                                         *)
(* The invariant Safe numbers everything by stream position.  It has one   *)
(* part for what a side sends, one for what it takes in, and one for the   *)
(* frames on their way; lemmas about the operators of Tunnel say what each *)
(* does to one part, and MoveKeepsSafe puts them together for any step of  *)
(* a side that only moves its counters forward.                            *)

\* No uint32 counter reaches its last WindowSize values.
NoWrap == \A s \in Side : Limit[s] + WindowSize < Word

\* Stream positions, and window sizes beyond them, are words.
Position == {n \in Nat : n + WindowSize < Word}

\* The packet stamped with sequence number n.
PacketAt(n) == [sequence |-> n, data |-> n + 1]

\* What a side has sent and has yet to send: count packets were stamped, of which
\* the last hand are in the hands of tunnelOut.
Sender(t, count, hand) ==
  /\ t.sequence = count
  /\ t.next + Len(t.pendingOut) + hand = count
  /\ \A k \in 1..Len(t.pendingOut) : t.pendingOut[k] = PacketAt(t.next + k - 1)
  /\ t.start <= t.next
  /\ t.next - t.start <= WindowSize
  /\ \A i \in Slots :
       t.reliabilityWindow[i] = IF Offset(i, t.start) < t.next - t.start
                                THEN PacketAt(t.start + Offset(i, t.start))
                                ELSE NULL

\* What a side has taken in of a peer that has sent the packets below bound.
Receiver(t, bound) ==
  /\ t.acknowledge <= bound
  /\ \A i \in Slots :
       t.incoming[i] # NULL =>
         /\ Offset(i, t.acknowledge) > 0
         /\ t.incoming[i] = PacketAt(t.acknowledge + Offset(i, t.acknowledge))
         /\ t.acknowledge + Offset(i, t.acknowledge) < bound

\* A frame that a side with tunnel t has sent, now or before.
Truthful(f, t) ==
  /\ f.acknowledge <= t.acknowledge
  /\ f.data # NoData => f.data = f.sequence + 1 /\ f.sequence < t.next

Hand(s) == IF outPacket[s] = NULL THEN 0 ELSE 1

SafeSide(s) ==
  /\ submitted[s] <= Limit[s]
  /\ Sender(tunnel[s], submitted[s], Hand(s))
  /\ outPacket[s] # NULL => outPacket[s] = PacketAt(submitted[s] - 1)
  /\ Receiver(tunnel[s], tunnel[Peer(s)].next)
  /\ tunnel[s].start <= tunnel[Peer(s)].acknowledge
  /\ Received(s) = [i \in 1..tunnel[s].acknowledge |-> i]
  /\ \A f \in Frames(net[s]) : Truthful(f, tunnel[s])

Safe == TypeOK /\ \A s \in Side : SafeSide(s)

-----------------------------------------------------------------------------
(* Arithmetic of words and slots.                                          *)

\* Without wrap, uint32 arithmetic is arithmetic; the difference to a number
\* behind is greater than any window.
LEMMA NoWrapArithmetic ==
  ASSUME NEW a \in Nat, NEW b \in Nat
  PROVE  /\ a + b < Word => Plus(a, b) = a + b
         /\ b <= a /\ a < Word => Minus(a, b) = a - b
         /\ a < b /\ b \in Position => Minus(a, b) > WindowSize
<1>1. Word \in Nat \ {0} /\ WindowSize \in Nat \ {0}
  BY Constants
<1>2. ASSUME a + b < Word
      PROVE  Plus(a, b) = a + b
  <2>1. a + b \in 0..(Word - 1)
    BY <1>1, <1>2
  <2>2. (a + b) % Word = a + b
    BY <1>1, <2>1, ModShift
  <2> QED
    BY <2>2 DEF Plus
<1>3. ASSUME b <= a, a < Word
      PROVE  Minus(a, b) = a - b
  <2>1. a - b \in 0..(Word - 1)
    BY <1>1, <1>3
  <2>2. (a - b) % Word = a - b
    BY <1>1, <2>1, ModShift
  <2> QED
    BY <2>2 DEF Minus
<1>4. ASSUME a < b, b \in Position
      PROVE  Minus(a, b) > WindowSize
  <2>1. a - b + Word \in 0..(Word - 1) /\ a - b + Word > WindowSize
    BY <1>1, <1>4 DEF Position
  <2>2. a - b \in Int /\ a - b = (a - b + Word) - Word
    BY <1>1
  <2>3. (a - b) % Word = a - b + Word
    BY <1>1, <2>1, <2>2, ModShift
  <2> QED
    BY <2>1, <2>3 DEF Minus
<1> QED
  BY <1>2, <1>3, <1>4

\* The position of a slot in a window that has moved on by d.
LEMMA OffsetMoves ==
  ASSUME NEW i \in Slots, NEW n \in Nat, NEW d \in 0..WindowSize
  PROVE  /\ Offset(i, n) \in 0..(WindowSize - 1)
         /\ d <= Offset(i, n) => Offset(i, n + d) = Offset(i, n) - d
         /\ d > Offset(i, n) => Offset(i, n + d) = Offset(i, n) - d + WindowSize
<1> DEFINE o == Offset(i, n)
           q == (i - n) \div WindowSize
<1>1. WindowSize \in Nat \ {0} /\ i \in Int
  BY Constants, WordsSlotsInt
<1>2. i - n \in Int
  BY <1>1
<1>3. q \in Int /\ o \in 0..(WindowSize - 1) /\ i - n = WindowSize * q + o
  BY <1>1, <1>2 DEF Offset
<1> HIDE DEF o, q
<1>4. i - (n + d) \in Int /\ i - (n + d) = WindowSize * q + o - d
  BY <1>1, <1>3
<1>5. ASSUME d <= o
      PROVE  Offset(i, n + d) = o - d
  <2>1. o - d \in 0..(WindowSize - 1) /\ i - (n + d) = WindowSize * q + (o - d)
    BY <1>1, <1>3, <1>4, <1>5
  <2> QED
    BY <1>1, <1>3, <1>4, <2>1, ModUnique DEF Offset
<1>6. ASSUME d > o
      PROVE  Offset(i, n + d) = o - d + WindowSize
  <2>1. o - d + WindowSize \in 0..(WindowSize - 1)
    BY <1>1, <1>3, <1>6
  <2>2. WindowSize * (q - 1) = WindowSize * q - WindowSize
    BY <1>1, <1>3
  <2>3. i - (n + d) = WindowSize * (q - 1) + (o - d + WindowSize)
    BY <1>1, <1>3, <1>4, <2>2
  <2>4. q - 1 \in Int
    BY <1>3
  <2> QED
    BY <1>1, <1>4, <2>1, <2>3, <2>4, ModUnique DEF Offset
<1> QED
  BY <1>3, <1>5, <1>6 DEF o

\* The slot of a number d after n is at position d of the window at n.
LEMMA SlotAt ==
  ASSUME NEW n \in Nat, NEW d \in Nat
  PROVE  /\ Slot(n + d) \in Slots
         /\ d < WindowSize => Offset(Slot(n + d), n) = d
         /\ d = WindowSize => Offset(Slot(n + d), n) = 0
         /\ \A i \in Slots : Offset(i, n) = d => i = Slot(n + d)
<1> DEFINE q == (n + d) \div WindowSize
           e == (n + d) % WindowSize
<1>1. WindowSize \in Nat \ {0} /\ n + d \in Int
  BY Constants
<1>2. q \in Int /\ e \in 0..(WindowSize - 1) /\ n + d = WindowSize * q + e
  BY <1>1
<1>3. Slot(n + d) = e /\ Slot(n + d) \in Slots
  BY <1>1, <1>2 DEF Slot, Slots
<1> HIDE DEF q, e
<1>4. e - n \in Int /\ -q \in Int /\ e - n = WindowSize * (-q) + d
  BY <1>1, <1>2
<1>5. ASSUME d < WindowSize
      PROVE  Offset(e, n) = d
  <2>1. d \in 0..(WindowSize - 1)
    BY <1>1, <1>5
  <2> QED
    BY <1>1, <1>4, <2>1, ModUnique DEF Offset
<1>6. ASSUME d = WindowSize
      PROVE  Offset(e, n) = 0
  <2>1. WindowSize * (1 - q) = WindowSize * (-q) + WindowSize
    BY <1>1, <1>2
  <2>2. e - n = WindowSize * (1 - q) + 0
    BY <1>4, <1>6, <2>1
  <2>3. 0 \in 0..(WindowSize - 1) /\ 1 - q \in Int
    BY <1>1, <1>2
  <2> QED
    BY <1>1, <1>4, <2>2, <2>3, ModUnique DEF Offset
<1>7. ASSUME NEW i \in Slots, Offset(i, n) = d
      PROVE  i = e
  <2> DEFINE p == (i - n) \div WindowSize
  <2>1. i \in Int /\ i \in 0..(WindowSize - 1)
    BY WordsSlotsInt DEF Slots
  <2>2. p \in Int /\ i - n = WindowSize * p + d
    BY <1>1, <1>7, <2>1 DEF Offset
  <2> HIDE DEF p
  <2>3. n + d = WindowSize * (-p) + i /\ -p \in Int
    BY <1>1, <2>1, <2>2
  <2>4. (n + d) % WindowSize = i
    BY <1>1, <2>1, <2>3, ModUnique
  <2> QED
    BY <2>4 DEF e
<1> QED
  BY <1>3, <1>5, <1>6, <1>7

\* Numbers not above a position are positions, and words.
LEMMA Positions ==
  ASSUME NEW n \in Position, NEW k \in Nat, k <= n
  PROVE  /\ k \in Position /\ k < Word
         /\ \A d \in 0..WindowSize : k + d < Word
BY Constants DEF Position

\* A packet that was stamped is not a null packet.
LEMMA PacketAtType ==
  ASSUME NEW n \in Nat
  PROVE  /\ PacketAt(n) # NULL
         /\ PacketAt(n).sequence = n /\ PacketAt(n).data = n + 1
BY DEF PacketAt, NULL, NoData

-----------------------------------------------------------------------------
(* Sending.                                                                *)

\* What sending leaves alone.
SendStep(t, u) ==
  /\ u.sequence = t.sequence
  /\ u.start = t.start
  /\ u.next >= t.next
  /\ u.acknowledge = t.acknowledge
  /\ u.incoming = t.incoming

AllTruthful(frames, t) == \A k \in 1..Len(frames) : Truthful(frames[k], t)

\* The numbers of a sender, and the room in its window.
LEMMA SenderNumbers ==
  ASSUME NEW t \in TunnelRecord, NEW count \in Position, NEW hand \in {0, 1},
         Sender(t, count, hand)
  PROVE  /\ t.start \in Position /\ t.next \in Position
         /\ Len(t.pendingOut) \in Nat /\ t.next + Len(t.pendingOut) <= count
         /\ t.next - t.start \in 0..WindowSize
         /\ InFlight(t) = t.next - t.start
         /\ Room(t) = WindowSize - (t.next - t.start)
<1>1. /\ t.start \in Nat /\ t.next \in Nat /\ Len(t.pendingOut) \in Nat
      /\ WindowSize \in Nat \ {0} /\ count \in Nat
  BY Fields, WordsSlotsInt, Constants DEF Position
<1>2. /\ t.next + Len(t.pendingOut) + hand = count
      /\ t.start <= t.next /\ t.next - t.start <= WindowSize
  BY DEF Sender
<1>3. t.next <= count /\ t.start <= count
  BY <1>1, <1>2
<1>4. t.start \in Position /\ t.next \in Position /\ t.next < Word
  BY <1>1, <1>3, Positions
<1>5. InFlight(t) = t.next - t.start
  BY <1>1, <1>2, <1>4, NoWrapArithmetic DEF InFlight
<1>6. Room(t) = WindowSize - (t.next - t.start)
  BY <1>1, <1>2, <1>5 DEF Room
<1> QED
  BY <1>1, <1>2, <1>4, <1>5, <1>6

LEMMA PlaceSends ==
  ASSUME NEW t \in TunnelRecord, NEW count \in Position, NEW hand \in {0, 1},
         Sender(t, count, hand),
         NEW n \in 0..Len(t.pendingOut), n <= Room(t)
  PROVE  /\ Sender(Place(t, n), count, hand)
         /\ SendStep(t, Place(t, n))
         /\ Place(t, n).next = t.next + n
<1> DEFINE u == Place(t, n)
           f == t.next - t.start
           window == [i \in Slots |-> IF Offset(i, t.next) < n
                                      THEN t.pendingOut[Offset(i, t.next) + 1]
                                      ELSE t.reliabilityWindow[i]]
           queue  == SubSeq(t.pendingOut, n + 1, Len(t.pendingOut))
<1>1. /\ t.start \in Nat /\ t.next \in Nat /\ Len(t.pendingOut) \in Nat /\ n \in Nat
      /\ WindowSize \in Nat \ {0} /\ f \in 0..WindowSize /\ f + n <= WindowSize
      /\ t.next + n <= count /\ t.next = t.start + f
  <2>1. /\ t.start \in Nat /\ t.next \in Nat /\ Len(t.pendingOut) \in Nat
        /\ t.next + Len(t.pendingOut) <= count /\ count \in Nat
        /\ f \in 0..WindowSize /\ Room(t) = WindowSize - f
    BY SenderNumbers DEF Position
  <2> HIDE DEF f
  <2>2. t.next = t.start + f
    BY <2>1 DEF f
  <2> QED
    BY <2>1, <2>2, Constants
<1>2. Plus(t.next, n) = t.next + n
  <2>1. t.next + n < Word
    BY <1>1, Positions
  <2> QED
    BY <1>1, <2>1, NoWrapArithmetic
<1>3. u = [t EXCEPT !.reliabilityWindow = window, !.next = Plus(@, n),
                    !.pendingOut = queue,
                    !.unackedPacket = IF n > 0 THEN FALSE ELSE @]
  BY DEF Place
<1> HIDE DEF window, queue, u, f
<1>4. /\ u.sequence = t.sequence /\ u.start = t.start /\ u.next = t.next + n
      /\ u.acknowledge = t.acknowledge /\ u.incoming = t.incoming
      /\ u.reliabilityWindow = window /\ u.pendingOut = queue
  BY <1>2, <1>3 DEF TunnelRecord
<1>5. /\ Len(queue) = Len(t.pendingOut) - n
      /\ \A k \in 1..Len(queue) : queue[k] = PacketAt(t.next + n + k - 1)
  <2>1. t.pendingOut \in Seq(Packet)
    BY Fields
  <2>2. n + 1 \in 1..(Len(t.pendingOut) + 1)
    BY <1>1
  <2>3. \A i \in (n + 1)..Len(t.pendingOut) : t.pendingOut[i] \in Packet
    BY <1>1, <2>1, ElementOfSeq
  <2>4. /\ Len(queue) = Len(t.pendingOut) - n
        /\ \A k \in 1..Len(queue) : queue[k] = t.pendingOut[n + k]
    BY <1>1, <2>1, <2>2 DEF queue
  <2>5. ASSUME NEW k \in 1..Len(queue)
        PROVE  queue[k] = PacketAt(t.next + n + k - 1)
    <3>1. n + k \in 1..Len(t.pendingOut) /\ t.next + (n + k) - 1 = t.next + n + k - 1
      BY <1>1, <2>4
    <3>2. t.pendingOut[n + k] = PacketAt(t.next + (n + k) - 1)
      BY <3>1 DEF Sender
    <3> QED
      BY <2>4, <3>1, <3>2
  <2> QED
    BY <2>4, <2>5
<1>6. ASSUME NEW i \in Slots
      PROVE  window[i] = IF Offset(i, t.start) < f + n
                         THEN PacketAt(t.start + Offset(i, t.start)) ELSE NULL
  <2> DEFINE o == Offset(i, t.start)
             e == Offset(i, t.next)
  <2>1. /\ o \in 0..(WindowSize - 1)
        /\ f <= o => e = o - f
        /\ f > o => e = o - f + WindowSize
    BY <1>1, OffsetMoves
  <2>2. t.reliabilityWindow[i] = IF o < f THEN PacketAt(t.start + o) ELSE NULL
    BY DEF Sender, f
  <2>3. window[i] = IF e < n THEN t.pendingOut[e + 1] ELSE t.reliabilityWindow[i]
    BY DEF window
  <2> HIDE DEF o, e
  <2>4. CASE o < f
    BY <1>1, <2>1, <2>2, <2>3, <2>4 DEF o
  <2>5. CASE o >= f /\ o < f + n
    <3>1. e + 1 \in 1..Len(t.pendingOut) /\ e < n /\ t.next + (e + 1) - 1 = t.start + o
      BY <1>1, <2>1, <2>5
    <3>2. t.pendingOut[e + 1] = PacketAt(t.next + (e + 1) - 1)
      BY <3>1 DEF Sender
    <3> QED
      BY <2>3, <2>5, <3>1, <3>2 DEF o
  <2>6. CASE o >= f + n
    <3>1. ~(e < n) /\ ~(o < f)
      BY <1>1, <2>1, <2>6
    <3>2. ~(o < f + n)
      BY <1>1, <2>1, <2>6
    <3> QED
      BY <2>2, <2>3, <3>1, <3>2 DEF o
  <2> QED
    BY <1>1, <2>1, <2>4, <2>5, <2>6
<1>7. /\ u.next + Len(u.pendingOut) + hand = count /\ u.sequence = count
      /\ u.next - u.start = f + n /\ u.start <= u.next /\ u.next - u.start <= WindowSize
  <2>1. t.next + Len(t.pendingOut) + hand = count /\ t.sequence = count
    BY DEF Sender
  <2>2. count \in Nat /\ hand \in Nat
    BY DEF Position
  <2>3. Len(u.pendingOut) = Len(t.pendingOut) - n /\ u.next = t.next + n /\ u.start = t.start
    BY <1>4, <1>5
  <2>4. u.next + Len(u.pendingOut) + hand = count
    BY <1>1, <2>1, <2>2, <2>3
  <2>5. u.next - u.start = f + n /\ u.start <= u.next /\ u.next - u.start <= WindowSize
    BY <1>1, <2>3
  <2> QED
    BY <1>4, <2>1, <2>4, <2>5
<1>8. Sender(u, count, hand)
  BY <1>4, <1>5, <1>6, <1>7 DEF Sender
<1> QED
  BY <1>1, <1>4, <1>8 DEF SendStep, u

\* An outcome of sending: the tunnel still numbers what was stamped, and the frames
\* tell the truth about it.
Sends(r, t, count, hand) ==
  /\ Sender(r.tunnel, count, hand)
  /\ SendStep(t, r.tunnel)
  /\ AllTruthful(r.frames, r.tunnel)

\* Only these fields matter to a sender.
LEMMA SenderFields ==
  ASSUME NEW t, NEW u, NEW count, NEW hand, Sender(t, count, hand),
         u.sequence = t.sequence, u.start = t.start, u.next = t.next,
         u.pendingOut = t.pendingOut, u.reliabilityWindow = t.reliabilityWindow
  PROVE  Sender(u, count, hand)
BY DEF Sender

LEMMA AttemptsAgree ==
  ASSUME ~SendMayFail, NEW n \in Nat, NEW a \in Attempts(n)
  PROVE  a[1] \in 0..n /\ a[2] = a[1]
BY DEF Attempts

\* What was true of a frame stays true as the counters move on.
LEMMA TruthfulLater ==
  ASSUME NEW f \in Frame, NEW t \in TunnelRecord, NEW u \in TunnelRecord,
         Truthful(f, t), t.next <= u.next, t.acknowledge <= u.acknowledge
  PROVE  Truthful(f, u)
<1>1. f.sequence \in Nat /\ f.acknowledge \in Nat
  BY WordsSlotsInt DEF Frame
<1>2. t.next \in Nat /\ u.next \in Nat /\ t.acknowledge \in Nat /\ u.acknowledge \in Nat
  BY Fields, WordsSlotsInt
<1> QED
  BY <1>1, <1>2 DEF Truthful

LEMMA AllTruthfulLater ==
  ASSUME NEW frames \in Seq(Frame), NEW t \in TunnelRecord, NEW u \in TunnelRecord,
         AllTruthful(frames, t), t.next <= u.next, t.acknowledge <= u.acknowledge
  PROVE  AllTruthful(frames, u)
<1>1. \A k \in 1..Len(frames) : frames[k] \in Frame
  BY ElementOfSeq
<1> QED
  BY <1>1, TruthfulLater DEF AllTruthful

LEMMA AllTruthfulConcat ==
  ASSUME NEW a \in Seq(Frame), NEW b \in Seq(Frame), NEW t,
         AllTruthful(a, t), AllTruthful(b, t)
  PROVE  AllTruthful(a \o b, t)
<1>1. /\ Len(a) \in Nat /\ Len(b) \in Nat /\ Len(a \o b) = Len(a) + Len(b)
      /\ \A k \in 1..(Len(a) + Len(b)) :
           (a \o b)[k] = IF k <= Len(a) THEN a[k] ELSE b[k - Len(a)]
  BY LenProperties, ConcatProperties
<1>2. ASSUME NEW k \in 1..Len(a \o b)
      PROVE  Truthful((a \o b)[k], t)
  <2>1. CASE k <= Len(a)
    BY <1>1, <2>1 DEF AllTruthful
  <2>2. CASE k > Len(a)
    <3>1. k - Len(a) \in 1..Len(b) /\ (a \o b)[k] = b[k - Len(a)]
      BY <1>1, <2>2
    <3> QED
      BY <3>1 DEF AllTruthful
  <2> QED
    BY <1>1, <2>1, <2>2
<1> QED
  BY <1>2 DEF AllTruthful

LEMMA SendsNothingSends ==
  ASSUME NEW t \in TunnelRecord, NEW count, NEW hand, Sender(t, count, hand)
  PROVE  Sends([tunnel |-> t, frames |-> <<>>], t, count, hand)
<1>1. t.next \in Int
  BY Fields
<1> QED
  BY <1>1 DEF Sends, SendStep, AllTruthful

LEMMA SendEmptySends ==
  ASSUME NEW t \in TunnelRecord, NEW count, NEW hand, Sender(t, count, hand),
         NEW r \in SendEmpty(t)
  PROVE  Sends(r, t, count, hand)
<1>1. PICK a \in Attempts(Lesser(1, Room(t))) :
        r = [tunnel |-> [t EXCEPT !.unackedPacket = IF a[1] = 1 THEN FALSE ELSE @],
             frames |-> IF a[2] = 1 THEN <<EmptyFrame(t)>> ELSE <<>>]
  BY DEF SendEmpty
<1> DEFINE u == r.tunnel
<1>2. /\ u.sequence = t.sequence /\ u.start = t.start /\ u.next = t.next
      /\ u.pendingOut = t.pendingOut /\ u.reliabilityWindow = t.reliabilityWindow
      /\ u.acknowledge = t.acknowledge /\ u.incoming = t.incoming
  BY <1>1 DEF TunnelRecord
<1>3. t.next \in Int /\ t.acknowledge \in Int
  BY Fields
<1> HIDE DEF u
<1>4. Truthful(EmptyFrame(t), u)
  BY <1>2, <1>3 DEF Truthful, EmptyFrame
<1>5. AllTruthful(r.frames, u)
  BY <1>1, <1>4 DEF AllTruthful
<1>6. Sender(u, count, hand)
  BY <1>2, SenderFields
<1> QED
  BY <1>2, <1>3, <1>5, <1>6 DEF Sends, SendStep, u

LEMMA SendBacklogSends ==
  ASSUME ~SendMayFail,
         NEW t \in TunnelRecord, NEW count \in Position, NEW hand \in {0, 1},
         Sender(t, count, hand), NEW r \in SendBacklog(t)
  PROVE  Sends(r, t, count, hand)
<1> DEFINE n == Lesser(Len(t.pendingOut), Room(t))
           frames(k) == [i \in 1..k |-> FrameOf(t, t.pendingOut[i])]
<1>1. CASE t.pendingOut # <<>>
  <2>1. n \in 0..Len(t.pendingOut) /\ n \in Nat /\ n <= Room(t) /\ Len(t.pendingOut) \in Nat
    BY Fields, RoomType DEF Lesser
  <2> HIDE DEF n
  <2>2. PICK a \in Attempts(n) : r = [tunnel |-> Place(t, a[1]), frames |-> frames(a[2])]
    BY <1>1 DEF SendBacklog, n
  <2> DEFINE k == a[1]
             u == Place(t, k)
  <2>3. k \in 0..n /\ a[2] = k
    BY <2>1, <2>2, AttemptsAgree
  <2> HIDE DEF k
  <2>4. k \in 0..Len(t.pendingOut) /\ k <= Room(t)
    <3>1. Room(t) \in Nat
      BY RoomType, Constants
    <3> QED
      BY <2>1, <2>3, <3>1
  <2>5. Sender(u, count, hand) /\ SendStep(t, u) /\ u.next = t.next + k
    BY <2>4, PlaceSends
  <2> HIDE DEF u
  <2>6. ASSUME NEW i \in 1..k
        PROVE  Truthful(frames(k)[i], u)
    <3>1. i \in 1..Len(t.pendingOut) /\ i <= k
      BY <2>1, <2>4
    <3>2. t.pendingOut[i] = PacketAt(t.next + i - 1)
      BY <3>1 DEF Sender
    <3>3. t.next \in Nat /\ t.acknowledge \in Nat /\ u.acknowledge = t.acknowledge
      BY <2>5, Fields, WordsSlotsInt DEF SendStep
    <3>4. frames(k)[i] = [sequence |-> t.next + i - 1, acknowledge |-> t.acknowledge,
                          data |-> (t.next + i - 1) + 1]
      BY <3>2 DEF FrameOf, PacketAt
    <3>5. t.next + i - 1 < u.next
      BY <2>4, <2>5, <3>1, <3>3
    <3> HIDE DEF frames
    <3> QED
      BY <3>3, <3>4, <3>5 DEF Truthful
  <2>7. Len(frames(k)) = k
    BY <2>1, <2>4
  <2> HIDE DEF frames
  <2>8. AllTruthful(frames(k), u)
    BY <2>6, <2>7 DEF AllTruthful
  <2>9. r.tunnel = u /\ r.frames = frames(k)
    BY <2>2, <2>3 DEF u, k
  <2> QED
    BY <2>5, <2>8, <2>9 DEF Sends
<1>2. CASE t.pendingOut = <<>> /\ t.unackedPacket
  BY <1>2, SendEmptySends DEF SendBacklog
<1>3. CASE t.pendingOut = <<>> /\ ~t.unackedPacket
  BY <1>3, SendsNothingSends DEF SendBacklog
<1> QED
  BY <1>1, <1>2, <1>3

\* A side with a packet in hand and nothing queued.
LEMMA SendOrQueueSends ==
  ASSUME ~SendMayFail,
         NEW t \in TunnelRecord, NEW count \in Position,
         Sender(t, count, 1), t.pendingOut = <<>>,
         NEW packet \in Packet, packet = PacketAt(count - 1), NEW r \in SendOrQueue(t, packet)
  PROVE  Sends(r, t, count, 0)
<1> DEFINE queued == [t EXCEPT !.pendingOut = <<packet>>]
           stays == [t EXCEPT !.pendingOut = <<packet>>, !.hasPendingOut = TRUE]
<1>1. /\ t.next \in Nat /\ t.start \in Nat /\ t.acknowledge \in Nat
      /\ count \in Nat /\ t.next = count - 1
      /\ t.next - t.start <= WindowSize
  <2>1. t.next + Len(t.pendingOut) + 1 = count /\ Len(t.pendingOut) = 0
        /\ t.next - t.start <= WindowSize
    BY DEF Sender
  <2> QED
    BY <2>1, Fields, WordsSlotsInt DEF Position
<1>2. PICK a \in Attempts(Lesser(1, Room(t))) :
        r = [tunnel |-> IF a[2] = 1 THEN Place(queued, 1)
                        ELSE [(IF a[1] = 1 THEN Place(queued, 1) ELSE t)
                                EXCEPT !.pendingOut = <<packet>>, !.hasPendingOut = TRUE],
             frames |-> IF a[2] = 1 THEN <<FrameOf(t, packet)>> ELSE <<>>]
  BY DEF SendOrQueue
<1>3. a[1] \in {0, 1} /\ a[2] = a[1] /\ (a[1] = 1 => Room(t) >= 1)
  <2>1. Lesser(1, Room(t)) \in {0, 1} /\ Lesser(1, Room(t)) \in Nat
    BY RoomType
  <2>2. a[1] \in 0..Lesser(1, Room(t)) /\ a[2] = a[1]
    BY <2>1, AttemptsAgree
  <2>3. Room(t) \in Nat
    BY RoomType, Constants
  <2> QED
    BY <2>1, <2>2, <2>3 DEF Lesser
<1>4. queued \in TunnelRecord /\ stays \in TunnelRecord
  <2>1. <<packet>> \in Seq(Packet)
    OBVIOUS
  <2> QED
    BY <2>1 DEF TunnelRecord
<1>5. /\ queued.pendingOut = <<packet>> /\ Room(queued) = Room(t)
      /\ queued.sequence = t.sequence /\ queued.start = t.start /\ queued.next = t.next
      /\ queued.reliabilityWindow = t.reliabilityWindow
      /\ queued.acknowledge = t.acknowledge /\ queued.incoming = t.incoming
  BY DEF TunnelRecord, Room, InFlight
<1>6. /\ stays.pendingOut = <<packet>>
      /\ stays.sequence = t.sequence /\ stays.start = t.start /\ stays.next = t.next
      /\ stays.reliabilityWindow = t.reliabilityWindow
      /\ stays.acknowledge = t.acknowledge /\ stays.incoming = t.incoming
  BY DEF TunnelRecord
<1>7. \A u : /\ u.pendingOut = <<packet>>
             /\ u.sequence = t.sequence /\ u.start = t.start /\ u.next = t.next
             /\ u.reliabilityWindow = t.reliabilityWindow
             => Sender(u, count, 0)
  <2> TAKE u
  <2> HAVE /\ u.pendingOut = <<packet>>
           /\ u.sequence = t.sequence /\ u.start = t.start /\ u.next = t.next
           /\ u.reliabilityWindow = t.reliabilityWindow
  <2>1. Len(u.pendingOut) = 1 /\ \A k \in 1..1 : u.pendingOut[k] = packet
    OBVIOUS
  <2>2. \A k \in 1..1 : u.next + k - 1 = count - 1
    BY <1>1
  <2>3. u.next + Len(u.pendingOut) + 0 = count
    BY <1>1, <2>1
  <2>4. \A k \in 1..Len(u.pendingOut) : u.pendingOut[k] = PacketAt(u.next + k - 1)
    BY <2>1, <2>2
  <2> QED
    BY <2>3, <2>4 DEF Sender
<1>8. Sender(queued, count, 0) /\ Sender(stays, count, 0)
  BY <1>5, <1>6, <1>7
<1> HIDE DEF queued, stays
<1>9. CASE a[1] = 0
  <2>1. r = [tunnel |-> stays, frames |-> <<>>]
    BY <1>2, <1>3, <1>9 DEF stays
  <2> QED
    BY <1>1, <1>6, <1>8, <2>1 DEF Sends, SendStep, AllTruthful
<1>10. CASE a[1] = 1
  <2> DEFINE u == Place(queued, 1)
  <2>1. r = [tunnel |-> u, frames |-> <<FrameOf(t, packet)>>]
    BY <1>2, <1>3, <1>10
  <2>2. 1 \in 0..Len(queued.pendingOut) /\ 1 <= Room(queued)
    BY <1>3, <1>5, <1>10
  <2>3. Sender(u, count, 0) /\ SendStep(queued, u) /\ u.next = t.next + 1
    BY <1>4, <1>5, <1>8, <2>2, PlaceSends
  <2> HIDE DEF u
  <2>4. SendStep(t, u)
    BY <1>1, <1>5, <2>3 DEF SendStep
  <2>5. Truthful(FrameOf(t, packet), u)
    BY <1>1, <2>3, <2>4 DEF Truthful, FrameOf, PacketAt, SendStep
  <2> QED
    BY <2>1, <2>3, <2>4, <2>5 DEF Sends, AllTruthful
<1> QED
  BY <1>3, <1>9, <1>10

\* The packet in hand joins the end of the queue.
LEMMA SenderAppends ==
  ASSUME NEW t \in TunnelRecord, NEW count \in Position, Sender(t, count, 1),
         NEW packet \in Packet, packet = PacketAt(count - 1), NEW u,
         u.sequence = t.sequence, u.start = t.start, u.next = t.next,
         u.reliabilityWindow = t.reliabilityWindow
  PROVE  u.pendingOut = Append(t.pendingOut, packet) => Sender(u, count, 0)
<1> DEFINE q == t.pendingOut
           n == Len(q)
<1>1. n \in Nat /\ q \in Seq(Packet) /\ t.next \in Nat /\ count \in Nat
  BY Fields, WordsSlotsInt DEF Position
<1>2. t.next + n + 1 = count /\ \A k \in 1..n : q[k] = PacketAt(t.next + k - 1)
  BY DEF Sender
<1>3. ASSUME u.pendingOut = Append(q, packet)
      PROVE  /\ Len(u.pendingOut) = n + 1
             /\ \A k \in 1..n : u.pendingOut[k] = q[k]
             /\ u.pendingOut[n + 1] = packet
  BY <1>1, <1>3, AppendProperties
<1> HIDE DEF q, n
<1>4. t.next + (n + 1) - 1 = count - 1 /\ u.next + (n + 1) + 0 = count
  <2>1. t.next + n + 1 = count
    BY <1>2
  <2> QED
    BY <1>1, <2>1
<1>5. ASSUME u.pendingOut = Append(q, packet), NEW k \in 1..(n + 1)
      PROVE  u.pendingOut[k] = PacketAt(u.next + k - 1)
  <2>1. CASE k = n + 1
    BY <1>3, <1>4, <1>5, <2>1
  <2>2. CASE k \in 1..n
    BY <1>2, <1>3, <1>5, <2>2
  <2> QED
    BY <1>1, <2>1, <2>2
<1> QED
  BY <1>3, <1>4, <1>5 DEF Sender, q

LEMMA SendOutSends ==
  ASSUME ~SendMayFail,
         NEW t \in TunnelRecord, NEW count \in Position, Sender(t, count, 1),
         NEW packet \in Packet, packet = PacketAt(count - 1), NEW r \in SendOut(t, packet)
  PROVE  Sends(r, t, count, 0)
<1>1. PICK b \in SendBacklog(t) :
        r \in IF b.tunnel.pendingOut # <<>>
              THEN {[b EXCEPT !.tunnel.pendingOut = Append(@, packet),
                              !.tunnel.hasPendingOut = TRUE]}
              ELSE {[c EXCEPT !.frames = b.frames \o @] : c \in SendOrQueue(b.tunnel, packet)}
  BY DEF SendOut
<1> DEFINE v == b.tunnel
<1>2. b \in Outcome /\ v \in TunnelRecord /\ b.frames \in Seq(Frame)
  BY SendBacklogType DEF Outcome
<1>3. Sender(v, count, 1) /\ SendStep(t, v) /\ AllTruthful(b.frames, v)
  BY SendBacklogSends DEF Sends
<1>4. CASE v.pendingOut # <<>>
  <2> DEFINE u == [v EXCEPT !.pendingOut = Append(@, packet), !.hasPendingOut = TRUE]
  <2>1. r = [tunnel |-> u, frames |-> b.frames]
    BY <1>1, <1>2, <1>4 DEF Outcome, TunnelRecord
  <2>2. /\ u.pendingOut = Append(v.pendingOut, packet)
        /\ u.sequence = v.sequence /\ u.start = v.start /\ u.next = v.next
        /\ u.reliabilityWindow = v.reliabilityWindow
        /\ u.acknowledge = v.acknowledge /\ u.incoming = v.incoming
    BY <1>2 DEF TunnelRecord
  <2> HIDE DEF u, v
  <2>3. Sender(u, count, 0)
    BY <1>2, <1>3, <2>2, SenderAppends
  <2>4. SendStep(t, u)
    BY <1>3, <2>2 DEF SendStep
  <2>5. AllTruthful(b.frames, u)
    BY <1>3, <2>2 DEF AllTruthful, Truthful
  <2> QED
    BY <2>1, <2>3, <2>4, <2>5 DEF Sends
<1>5. CASE v.pendingOut = <<>>
  <2>1. PICK c \in SendOrQueue(v, packet) : r = [c EXCEPT !.frames = b.frames \o @]
    BY <1>1, <1>5
  <2>2. c \in Outcome /\ c.tunnel \in TunnelRecord /\ c.frames \in Seq(Frame)
    BY <1>2, SendOrQueueType DEF Outcome
  <2> HIDE DEF v
  <2>3. Sender(c.tunnel, count, 0) /\ SendStep(v, c.tunnel) /\ AllTruthful(c.frames, c.tunnel)
    BY <1>2, <1>3, <1>5, SendOrQueueSends DEF Sends
  <2>4. r.tunnel = c.tunnel /\ r.frames = b.frames \o c.frames
    BY <2>1, <2>2 DEF Outcome
  <2>5. v.next <= c.tunnel.next /\ v.acknowledge <= c.tunnel.acknowledge
    BY <1>2, <2>2, <2>3, Fields DEF SendStep
  <2>6. AllTruthful(b.frames, c.tunnel)
    BY <1>2, <1>3, <2>2, <2>5, AllTruthfulLater
  <2>7. AllTruthful(r.frames, r.tunnel)
    BY <1>2, <2>2, <2>3, <2>4, <2>6, AllTruthfulConcat
  <2>8. SendStep(t, c.tunnel)
    BY <1>2, <1>3, <2>2, <2>3, Fields DEF SendStep
  <2> QED
    BY <2>3, <2>4, <2>7, <2>8 DEF Sends
<1> QED
  BY <1>4, <1>5

\* What stands in a slot of the window is outstanding.
LEMMA OccupiedTruthful ==
  ASSUME NEW t \in TunnelRecord, NEW count \in Position, NEW hand \in {0, 1},
         Sender(t, count, hand), NEW i \in Slots, t.reliabilityWindow[i] # NULL
  PROVE  Truthful(FrameOf(t, t.reliabilityWindow[i]), t)
<1> DEFINE o == Offset(i, t.start)
           n == t.start + o
<1>1. o < t.next - t.start /\ t.reliabilityWindow[i] = PacketAt(n)
  BY DEF Sender
<1>2. t.start \in Nat /\ t.next \in Nat /\ t.acknowledge \in Nat /\ o \in Nat
  <2>1. i \in Int /\ t.start \in Int
    BY Fields, WordsSlotsInt
  <2>2. o \in Slots
    BY <2>1, WordArithmetic
  <2> QED
    BY <2>2, Fields, WordsSlotsInt
<1> HIDE DEF o
<1>3. n \in Nat /\ n < t.next
  BY <1>1, <1>2
<1> HIDE DEF n
<1> QED
  BY <1>1, <1>2, <1>3 DEF Truthful, FrameOf, PacketAt

LEMMA FlushSends ==
  ASSUME ~SendMayFail,
         NEW t \in TunnelRecord, NEW count \in Position, NEW hand \in {0, 1},
         Sender(t, count, hand), NEW slots \in SUBSET Occupied(t),
         NEW expired \in SetToSeqs(slots), NEW b \in Flush(t, expired)
  PROVE  Sends(b, t, count, hand)
<1> DEFINE frames == [k \in 1..Len(expired) |-> FrameOf(t, t.reliabilityWindow[expired[k]])]
           v == [t EXCEPT !.unackedPacket = IF expired = <<>> THEN @ ELSE FALSE]
<1>1. Resend(t, expired) = [tunnel |-> v, frames |-> frames]
  BY DEF Resend
<1>2. Len(expired) \in Nat /\ Len(frames) = Len(expired)
  BY ExpiredType, LenProperties
<1>3. frames \in Seq(Frame) /\ AllTruthful(frames, t)
  <2>1. ASSUME NEW k \in 1..Len(expired)
        PROVE  /\ FrameOf(t, t.reliabilityWindow[expired[k]]) \in Frame
               /\ Truthful(FrameOf(t, t.reliabilityWindow[expired[k]]), t)
    <3>1. /\ expired[k] \in Slots /\ t.reliabilityWindow[expired[k]] \in Packet
          /\ t.reliabilityWindow[expired[k]] # NULL
      BY ExpiredType, NullPacket
    <3> QED
      BY <3>1, FrameType, OccupiedTruthful
  <2>2. frames \in Seq(Frame)
    BY <1>2, <2>1, IntervalSeq
  <2> QED
    BY <1>2, <2>1, <2>2 DEF AllTruthful
<1>4. /\ v \in TunnelRecord
      /\ v.sequence = t.sequence /\ v.start = t.start /\ v.next = t.next
      /\ v.pendingOut = t.pendingOut /\ v.reliabilityWindow = t.reliabilityWindow
      /\ v.acknowledge = t.acknowledge /\ v.incoming = t.incoming
  BY DEF TunnelRecord
<1> HIDE DEF frames, v
<1>5. Sender(v, count, hand) /\ AllTruthful(frames, v)
  BY <1>3, <1>4, SenderFields DEF AllTruthful, Truthful
<1>6. CASE t.hasPendingOut
  <2>1. PICK c \in SendBacklog(v) :
          b = [tunnel |-> [c.tunnel EXCEPT !.hasPendingOut = FALSE],
               frames |-> frames \o c.frames]
    BY <1>1, <1>6 DEF Flush
  <2>2. c.tunnel \in TunnelRecord /\ c.frames \in Seq(Frame)
    BY <1>4, SendBacklogType DEF Outcome
  <2>3. Sender(c.tunnel, count, hand) /\ SendStep(v, c.tunnel) /\ AllTruthful(c.frames, c.tunnel)
    BY <1>4, <1>5, SendBacklogSends DEF Sends
  <2> DEFINE u == [c.tunnel EXCEPT !.hasPendingOut = FALSE]
  <2>4. /\ u.sequence = c.tunnel.sequence /\ u.start = c.tunnel.start
        /\ u.next = c.tunnel.next /\ u.pendingOut = c.tunnel.pendingOut
        /\ u.reliabilityWindow = c.tunnel.reliabilityWindow
        /\ u.acknowledge = c.tunnel.acknowledge /\ u.incoming = c.tunnel.incoming
    BY <2>2 DEF TunnelRecord
  <2>5. b.tunnel = u /\ b.frames = frames \o c.frames
    BY <2>1
  <2> HIDE DEF u
  <2>6. v.next <= c.tunnel.next /\ v.acknowledge <= c.tunnel.acknowledge
    BY <1>4, <2>2, <2>3, Fields DEF SendStep
  <2>7. AllTruthful(frames \o c.frames, c.tunnel)
    BY <1>3, <1>4, <1>5, <2>2, <2>3, <2>6, AllTruthfulLater, AllTruthfulConcat
  <2>8. AllTruthful(b.frames, u)
    BY <2>4, <2>5, <2>7 DEF AllTruthful, Truthful
  <2>9. Sender(u, count, hand)
    BY <2>3, <2>4, SenderFields
  <2>10. SendStep(t, u)
    BY <1>4, <2>3, <2>4 DEF SendStep
  <2> QED
    BY <2>5, <2>8, <2>9, <2>10 DEF Sends
<1>7. CASE ~t.hasPendingOut
  <2>1. b = [tunnel |-> v, frames |-> frames]
    BY <1>1, <1>7 DEF Flush
  <2>2. SendStep(t, v)
    BY <1>4, Fields DEF SendStep
  <2> QED
    BY <1>5, <2>1, <2>2 DEF Sends
<1> QED
  BY <1>6, <1>7

-----------------------------------------------------------------------------
(* Receiving.                                                              *)

\* An acknowledgement of nothing that was not placed frees what it acknowledges; a
\* stale one, however stale, frees nothing.
LEMMA AcknowledgedFrees ==
  ASSUME NEW t \in TunnelRecord, NEW count \in Position, NEW hand \in {0, 1},
         Sender(t, count, hand), NEW acknowledge \in Nat, acknowledge <= t.next,
         NEW u, u = Acknowledged(t, acknowledge)
  PROVE  /\ Sender(u, count, hand)
         /\ u.start >= t.start /\ (u.start = t.start \/ u.start = acknowledge)
         /\ u.next = t.next /\ u.acknowledge = t.acknowledge /\ u.incoming = t.incoming
<1> DEFINE d == WindowDiff(Minus(acknowledge, t.start))
           f == t.next - t.start
           window == [i \in Slots |-> IF Offset(i, t.start) < d
                                      THEN NULL ELSE t.reliabilityWindow[i]]
<1>1. /\ t.start \in Position /\ t.next \in Position /\ t.start \in Nat /\ t.next \in Nat
      /\ f \in 0..WindowSize /\ WindowSize \in Nat \ {0} /\ t.next = t.start + f
  <2>1. t.start \in Position /\ t.next \in Position /\ f \in 0..WindowSize
    BY SenderNumbers
  <2>2. t.start \in Nat /\ t.next \in Nat
    BY <2>1 DEF Position
  <2> QED
    BY <2>1, <2>2, Constants
<1>2. acknowledge \in Position /\ acknowledge < Word
  BY <1>1, Positions
<1>3. /\ d \in 0..f
      /\ t.start + d = t.start \/ t.start + d = acknowledge
  <2>1. CASE acknowledge < t.start
    <3>1. Minus(acknowledge, t.start) > WindowSize
      BY <1>1, <2>1, NoWrapArithmetic
    <3>2. d = 0
      BY <3>1 DEF WindowDiff
    <3> QED
      BY <1>1, <3>2
  <2>2. CASE acknowledge >= t.start
    <3>1. Minus(acknowledge, t.start) = acknowledge - t.start
      BY <1>1, <1>2, <2>2, NoWrapArithmetic
    <3>2. acknowledge - t.start \in 0..f
      BY <1>1, <2>2
    <3> HIDE DEF f
    <3>3. d = acknowledge - t.start
      BY <1>1, <3>1, <3>2 DEF WindowDiff
    <3> QED
      BY <1>1, <3>2, <3>3
  <2> QED
    BY <1>1, <2>1, <2>2
<1> HIDE DEF d, f
<1>4. Plus(t.start, d) = t.start + d
  <2>1. d \in Nat /\ t.start + d <= t.next /\ t.start + d \in Nat
    BY <1>1, <1>3
  <2>2. t.start + d < Word
    BY <1>1, <2>1, Positions
  <2> QED
    BY <1>1, <2>1, <2>2, NoWrapArithmetic
<1>5. u = [t EXCEPT !.start = Plus(@, d), !.reliabilityWindow = window]
  BY DEF Acknowledged, d
<1> HIDE DEF window
<1>6. /\ u.start = t.start + d /\ u.reliabilityWindow = window
      /\ u.sequence = t.sequence /\ u.next = t.next /\ u.pendingOut = t.pendingOut
      /\ u.acknowledge = t.acknowledge /\ u.incoming = t.incoming
  BY <1>4, <1>5 DEF TunnelRecord
<1>7. ASSUME NEW i \in Slots
      PROVE  window[i] = IF Offset(i, t.start + d) < f - d
                         THEN PacketAt(t.start + d + Offset(i, t.start + d)) ELSE NULL
  <2> DEFINE o == Offset(i, t.start)
             e == Offset(i, t.start + d)
  <2>1. /\ o \in 0..(WindowSize - 1)
        /\ d <= o => e = o - d
        /\ d > o => e = o - d + WindowSize
    BY <1>1, <1>3, OffsetMoves
  <2>2. t.reliabilityWindow[i] = IF o < f THEN PacketAt(t.start + o) ELSE NULL
    BY DEF Sender, f
  <2>3. window[i] = IF o < d THEN NULL ELSE t.reliabilityWindow[i]
    BY DEF window
  <2> HIDE DEF o, e
  <2>4. CASE o < d
    <3>1. ~(e < f - d)
      BY <1>1, <1>3, <2>1, <2>4
    <3> QED
      BY <2>3, <2>4, <3>1 DEF e
  <2>5. CASE o >= d
    <3>1. ~(o < d) /\ (e < f - d <=> o < f) /\ t.start + d + e = t.start + o
      BY <1>1, <1>3, <2>1, <2>5
    <3> QED
      BY <2>2, <2>3, <3>1 DEF e
  <2> QED
    BY <1>1, <1>3, <2>1, <2>4, <2>5
<1>8. u.next - u.start = f - d /\ u.start <= u.next /\ u.next - u.start <= WindowSize
  BY <1>1, <1>3, <1>6
<1>9. Sender(u, count, hand)
  BY <1>6, <1>7, <1>8 DEF Sender
<1>10. u.start >= t.start /\ (u.start = t.start \/ u.start = acknowledge)
  BY <1>1, <1>3, <1>6
<1> QED
  BY <1>6, <1>9, <1>10

\* An outcome of receiving at a tunnel that was t before: it keeps both halves, and
\* the payloads let through are the next ones of the peer's stream.
Receives(r, t, count, hand, bound) ==
  /\ Sender(r.tunnel, count, hand)
  /\ Receiver(r.tunnel, bound)
  /\ AllTruthful(r.frames, r.tunnel)
  /\ r.tunnel.next >= t.next
  /\ r.tunnel.acknowledge = t.acknowledge + Len(r.payloads)
  /\ \A k \in 1..Len(r.payloads) : r.payloads[k] = t.acknowledge + k

LEMMA ReceiverFields ==
  ASSUME NEW t, NEW u, NEW bound, Receiver(t, bound),
         u.acknowledge = t.acknowledge, u.incoming = t.incoming
  PROVE  Receiver(u, bound)
BY DEF Receiver

\* The packets that follow without a gap: all of them belong to the stream, and the
\* one after them is not there.
LEMMA WaitingFollow ==
  ASSUME NEW t \in TunnelRecord, NEW bound \in Position, Receiver(t, bound),
         t.acknowledge < bound,
         NEW u, u.acknowledge = t.acknowledge + 1, u.incoming = t.incoming,
         NEW n \in Waiting(u)
  PROVE  /\ n \in 0..(WindowSize - 1)
         /\ t.acknowledge + 1 + n <= bound
         /\ \A j \in 0..(n - 1) :
              /\ Plus(u.acknowledge, j) = t.acknowledge + 1 + j
              /\ t.incoming[Slot(t.acknowledge + 1 + j)] = PacketAt(t.acknowledge + 1 + j)
         /\ t.incoming[Slot(t.acknowledge + 1 + n)] = NULL
<1> DEFINE a == t.acknowledge
<1>1. /\ a \in Nat /\ WindowSize \in Nat \ {0} /\ bound \in Nat /\ a + 1 <= bound
      /\ a + 1 \in Nat
  BY Fields, WordsSlotsInt, Constants DEF Position
<1>2. n \in 0..WindowSize
  BY DEF Waiting
<1>3. ASSUME NEW j \in 0..WindowSize
      PROVE  Plus(u.acknowledge, j) = a + 1 + j
  <2>1. (a + 1) + j < Word
    BY <1>1, <1>3, Positions
  <2>2. Plus(a + 1, j) = (a + 1) + j
    BY <1>1, <1>3, <2>1, NoWrapArithmetic
  <2> QED
    BY <2>2
<1>4. ASSUME NEW j \in 0..(n - 1)
      PROVE  /\ j + 1 # WindowSize
             /\ a + 1 + j < bound
             /\ t.incoming[Slot(a + 1 + j)] = PacketAt(a + 1 + j)
  <2>1. /\ j \in 0..WindowSize /\ j + 1 \in Nat /\ j + 1 <= WindowSize
        /\ a + (j + 1) = a + 1 + j
    BY <1>1, <1>2, <1>4
  <2>2. t.incoming[Slot(a + 1 + j)] # NULL
    BY <1>3, <2>1 DEF Waiting
  <2> DEFINE i == Slot(a + (j + 1))
  <2>3. /\ i \in Slots
        /\ j + 1 < WindowSize => Offset(i, a) = j + 1
        /\ j + 1 = WindowSize => Offset(i, a) = 0
    BY <1>1, <2>1, SlotAt
  <2> HIDE DEF i
  <2>4. t.incoming[i] # NULL
    BY <2>1, <2>2 DEF i
  <2>5. /\ Offset(i, a) > 0
        /\ t.incoming[i] = PacketAt(a + Offset(i, a))
        /\ a + Offset(i, a) < bound
    BY <2>3, <2>4 DEF Receiver
  <2>6. j + 1 # WindowSize /\ Offset(i, a) = j + 1
    BY <1>1, <2>1, <2>3, <2>5
  <2> QED
    BY <2>1, <2>5, <2>6 DEF i
<1>5. n \in 0..(WindowSize - 1)
  <2>1. CASE n = WindowSize
    <3>1. n - 1 \in 0..(n - 1) /\ (n - 1) + 1 = WindowSize
      BY <1>1, <2>1
    <3> QED
      BY <1>4, <3>1
  <2> QED
    BY <1>1, <1>2, <2>1
<1>6. a + 1 + n <= bound
  <2>1. CASE n > 0
    <3>1. n - 1 \in 0..(n - 1) /\ a + 1 + n = a + 1 + (n - 1) + 1
      BY <1>1, <1>2, <2>1
    <3>2. a + 1 + (n - 1) < bound
      BY <1>4, <3>1
    <3> QED
      BY <1>1, <1>2, <3>1, <3>2
  <2> QED
    BY <1>1, <1>2, <2>1
<1>7. t.incoming[Slot(a + 1 + n)] = NULL
  BY <1>1, <1>2, <1>3, <1>5 DEF Waiting
<1>8. \A j \in 0..(n - 1) : j \in 0..WindowSize
  BY <1>1, <1>2
<1> QED
  BY <1>3, <1>4, <1>5, <1>6, <1>7, <1>8

\* Taking the waiting packets leaves those that are still ahead.
LEMMA TakeWaitingReceiver ==
  ASSUME NEW t \in TunnelRecord, NEW bound \in Position, Receiver(t, bound),
         NEW n \in 0..(WindowSize - 1), t.acknowledge + 1 + n <= bound,
         t.incoming[Slot(t.acknowledge + 1 + n)] = NULL,
         NEW w, w.acknowledge = t.acknowledge + 1 + n,
         \A i \in Slots : w.incoming[i] = IF Offset(i, t.acknowledge + 1) < n
                                          THEN NULL ELSE t.incoming[i]
  PROVE  Receiver(w, bound)
<1> DEFINE a == t.acknowledge
<1>1. a \in Nat /\ WindowSize \in Nat \ {0} /\ n \in Nat /\ n + 1 \in 0..WindowSize
  BY Fields, WordsSlotsInt, Constants
<1>2. ASSUME NEW i \in Slots, w.incoming[i] # NULL
      PROVE  /\ Offset(i, w.acknowledge) > 0
             /\ w.incoming[i] = PacketAt(w.acknowledge + Offset(i, w.acknowledge))
             /\ w.acknowledge + Offset(i, w.acknowledge) < bound
  <2> DEFINE o == Offset(i, a)
             e == Offset(i, a + (n + 1))
  <2>1. /\ o \in 0..(WindowSize - 1)
        /\ 1 <= o => Offset(i, a + 1) = o - 1
        /\ n + 1 <= o => e = o - (n + 1)
    BY <1>1, OffsetMoves
  <2>2. w.incoming[i] = t.incoming[i] /\ t.incoming[i] # NULL /\ ~(Offset(i, a + 1) < n)
    BY <1>2
  <2>3. o > 0 /\ t.incoming[i] = PacketAt(a + o) /\ a + o < bound
    BY <2>2 DEF Receiver
  <2>4. o = n + 1 => i = Slot(a + (n + 1))
    <3>1. n + 1 \in Nat
      BY <1>1
    <3>2. \A j \in Slots : Offset(j, a) = n + 1 => j = Slot(a + (n + 1))
      BY <1>1, <3>1, SlotAt
    <3> QED
      BY <3>2
  <2>5. a + 1 + n = a + (n + 1) /\ w.acknowledge = a + (n + 1)
    BY <1>1
  <2>6. o # n + 1
    BY <2>2, <2>4, <2>5
  <2> HIDE DEF o
  <2>7. o - 1 >= n
    BY <1>1, <2>1, <2>2, <2>3
  <2>8. n + 1 <= o /\ e > 0 /\ a + (n + 1) + e = a + o
    BY <1>1, <2>1, <2>3, <2>6, <2>7
  <2> HIDE DEF e
  <2> QED
    BY <2>2, <2>3, <2>5, <2>8 DEF e
<1> QED
  BY <1>2 DEF Receiver

LEMMA AcceptReceives ==
  ASSUME ~SendMayFail,
         NEW t \in TunnelRecord, NEW count \in Position, NEW hand \in {0, 1},
         Sender(t, count, hand), NEW bound \in Position, Receiver(t, bound),
         t.acknowledge < bound, NEW data \in Nat, data = t.acknowledge + 1,
         NEW r \in Accept(t, data)
  PROVE  Receives(r, t, count, hand, bound) /\ r.tunnel.start = t.start
<1> DEFINE u == [t EXCEPT !.acknowledge = Plus(@, 1)]
           waiting(n) == [k \in 1..n |-> u.incoming[Slot(Plus(u.acknowledge, k - 1))].data]
           a == t.acknowledge
<1>1. a \in Nat /\ WindowSize \in Nat \ {0} /\ bound \in Nat /\ a + 1 <= bound
  BY Fields, WordsSlotsInt, Constants DEF Position
<1>2. Plus(a, 1) = a + 1 /\ a + 1 \in Words
  <2>1. a + 1 \in Nat /\ a + 1 < Word
    BY <1>1, Positions
  <2> QED
    BY <1>1, <2>1, NoWrapArithmetic, Constants DEF Words
<1>3. u \in TunnelRecord
  BY <1>2 DEF TunnelRecord
<1>4. /\ u.acknowledge = a + 1 /\ u.incoming = t.incoming
      /\ u.sequence = t.sequence /\ u.start = t.start /\ u.next = t.next
      /\ u.pendingOut = t.pendingOut /\ u.reliabilityWindow = t.reliabilityWindow
  BY <1>2 DEF TunnelRecord
<1>5. PICK n \in Waiting(u) :
        r \in { [tunnel |-> b.tunnel, frames |-> b.frames, new |-> TRUE,
                 payloads |-> <<data>> \o waiting(n)]
                  : b \in IF n > 0 THEN SendBacklog(TakeWaiting(u, n))
                          ELSE {[tunnel |-> u, frames |-> <<>>]} }
  BY DEF Accept
<1> HIDE DEF u
<1>6. /\ n \in 0..(WindowSize - 1) /\ n \in Nat
      /\ a + 1 + n <= bound
      /\ \A j \in 0..(n - 1) :
           /\ Plus(u.acknowledge, j) = a + 1 + j
           /\ t.incoming[Slot(a + 1 + j)] = PacketAt(a + 1 + j)
      /\ t.incoming[Slot(a + 1 + n)] = NULL
  BY <1>1, <1>4, WaitingFollow
<1> DEFINE w == IF n > 0 THEN TakeWaiting(u, n) ELSE u
<1>7. /\ w \in TunnelRecord
      /\ w.acknowledge = a + 1 + n
      /\ \A i \in Slots : w.incoming[i] = IF Offset(i, a + 1) < n
                                          THEN NULL ELSE t.incoming[i]
      /\ w.sequence = t.sequence /\ w.start = t.start /\ w.next = t.next
      /\ w.pendingOut = t.pendingOut /\ w.reliabilityWindow = t.reliabilityWindow
  <2>1. CASE n > 0
    <3> DEFINE kept == [i \in Slots |-> IF Offset(i, u.acknowledge) < n
                                        THEN NULL ELSE u.incoming[i]]
    <3>1. w = [u EXCEPT !.acknowledge = Plus(@, n), !.incoming = kept]
      BY <2>1 DEF TakeWaiting
    <3>2. Plus(u.acknowledge, n) = a + 1 + n
      <4>1. a + 1 + n < Word /\ a + 1 \in Nat /\ a + 1 + n \in Nat
        BY <1>1, <1>6, Positions
      <4> QED
        BY <1>4, <1>6, <4>1, NoWrapArithmetic
    <3>3. w \in TunnelRecord
      BY <1>3, <1>6, <2>1, TakeWaitingType
    <3> HIDE DEF kept, w
    <3>4. /\ w.acknowledge = a + 1 + n /\ w.incoming = kept
          /\ w.sequence = u.sequence /\ w.start = u.start /\ w.next = u.next
          /\ w.pendingOut = u.pendingOut /\ w.reliabilityWindow = u.reliabilityWindow
      BY <1>3, <3>1, <3>2 DEF TunnelRecord
    <3> QED
      BY <1>4, <3>3, <3>4 DEF kept
  <2>2. CASE n = 0
    <3>1. w = u
      BY <2>2
    <3>2. a + 1 = a + 1 + n
      BY <1>1, <2>2
    <3>3. \A i \in Slots : ~(Offset(i, a + 1) < n)
      <4>1. \A i \in Slots : i \in Int
        BY WordsSlotsInt
      <4>2. a + 1 \in Int
        BY <1>1
      <4>3. \A i \in Slots : Offset(i, a + 1) \in Slots
        BY <4>1, <4>2, WordArithmetic
      <4>4. \A i \in Slots : Offset(i, a + 1) \in Nat
        BY <4>3, WordsSlotsInt
      <4> QED
        BY <2>2, <4>4
    <3> QED
      BY <1>3, <1>4, <3>1, <3>2, <3>3
  <2> QED
    BY <1>6, <2>1, <2>2
<1>8. PICK b \in SendBacklog(w) \cup {[tunnel |-> w, frames |-> <<>>]} :
        r = [tunnel |-> b.tunnel, frames |-> b.frames, new |-> TRUE,
             payloads |-> <<data>> \o waiting(n)]
  BY <1>5
<1> HIDE DEF w
<1>9. Receiver(w, bound)
  BY <1>1, <1>6, <1>7, TakeWaitingReceiver
<1>10. Sender(w, count, hand)
  BY <1>7, SenderFields
<1>11. Sends(b, w, count, hand)
  BY <1>7, <1>8, <1>10, SendBacklogSends, SendsNothingSends
<1>12. Receiver(b.tunnel, bound)
  BY <1>9, <1>11, ReceiverFields DEF Sends, SendStep
<1> DEFINE payloads == <<data>> \o waiting(n)
<1>13. ASSUME NEW k \in 1..n
       PROVE  waiting(n)[k] = a + 1 + k /\ waiting(n)[k] \in Nat
  <2> DEFINE j == k - 1
  <2>1. j \in 0..(n - 1) /\ a + 1 + j \in Nat /\ a + 1 + j + 1 = a + 1 + k /\ a + 1 + k \in Nat
    BY <1>1, <1>6
  <2>2. waiting(n)[k] = u.incoming[Slot(Plus(u.acknowledge, j))].data
    OBVIOUS
  <2> HIDE DEF j
  <2>3. waiting(n)[k] = PacketAt(a + 1 + j).data
    BY <1>4, <1>6, <2>1, <2>2
  <2>4. PacketAt(a + 1 + j).data = a + 1 + j + 1
    BY <2>1, PacketAtType
  <2> QED
    BY <2>1, <2>3, <2>4
<1>14. waiting(n) \in Seq(Nat) /\ Len(waiting(n)) = n
  <2>1. waiting(n) \in [1..n -> Nat]
    BY <1>13
  <2> HIDE DEF waiting
  <2> QED
    BY <1>6, <2>1, IntervalSeq
<1> HIDE DEF waiting
<1>15. /\ Len(payloads) = n + 1
       /\ \A k \in 1..(n + 1) : payloads[k] = a + k
  <2>1. <<data>> \in Seq(Nat) /\ Len(<<data>>) = 1 /\ <<data>>[1] = data
    OBVIOUS
  <2>2. /\ Len(payloads) = 1 + n
        /\ \A k \in 1..(1 + n) :
             payloads[k] = IF k <= 1 THEN <<data>>[k] ELSE waiting(n)[k - 1]
    BY <1>6, <1>14, <2>1, ConcatProperties
  <2> HIDE DEF payloads
  <2>3. ASSUME NEW k \in 1..(n + 1)
        PROVE  payloads[k] = a + k
    <3>1. CASE k = 1
      BY <1>6, <2>1, <2>2, <3>1
    <3>2. CASE k > 1
      <4>1. n \in Nat
        BY <1>6
      <4>2. k - 1 \in 1..n /\ k \in 1..(1 + n) /\ ~(k <= 1) /\ a + 1 + (k - 1) = a + k
        BY <1>1, <3>2, <4>1
      <4> QED
        BY <1>13, <2>2, <4>2
    <3> QED
      BY <1>6, <3>1, <3>2
  <2>4. 1 + n = n + 1
    BY <1>6
  <2> QED
    BY <2>2, <2>3, <2>4
<1> HIDE DEF payloads
<1>16. r.tunnel = b.tunnel /\ r.frames = b.frames /\ r.payloads = payloads
  BY <1>8 DEF payloads
<1>17. r.tunnel.acknowledge = a + Len(r.payloads)
  <2>1. a + 1 + n = a + (n + 1)
    BY <1>1, <1>6
  <2> QED
    BY <1>7, <1>11, <1>15, <1>16, <2>1 DEF Sends, SendStep
<1>18. /\ r.tunnel.next >= t.next /\ r.tunnel.start = t.start
       /\ Sender(r.tunnel, count, hand) /\ AllTruthful(r.frames, r.tunnel)
  BY <1>7, <1>11, <1>16 DEF Sends, SendStep
<1> QED
  BY <1>12, <1>15, <1>16, <1>17, <1>18 DEF Receives

\* An early packet is kept in a slot of its own: the window is no wider than the
\* slots are.
LEMMA DiscardReceives ==
  ASSUME NEW t \in TunnelRecord, NEW count \in Position, NEW hand \in {0, 1},
         Sender(t, count, hand), NEW bound \in Position, Receiver(t, bound),
         NEW frame \in Frame, frame.data = frame.sequence + 1, frame.sequence < bound,
         NEW wasUnacked, NEW r \in Discard(t, frame, wasUnacked)
  PROVE  Receives(r, t, count, hand, bound) /\ r.tunnel.start = t.start
<1> DEFINE n == frame.sequence
           ahead == n > t.acknowledge
           early == ahead /\ n - t.acknowledge < WindowSize
           packet == [sequence |-> n, data |-> frame.data]
           kept  == [t EXCEPT !.incoming[Slot(n)] = packet]
<1>1. PICK b \in IF early THEN {[tunnel |-> kept, frames |-> <<>>]}
                ELSE IF ~ahead /\ wasUnacked /\ t.start = t.next THEN SendEmpty(t)
                ELSE {[tunnel |-> t, frames |-> <<>>]} :
        r = [tunnel |-> b.tunnel, frames |-> b.frames, new |-> FALSE, payloads |-> <<>>]
  BY DEF Discard
<1>2. /\ t.acknowledge \in Nat /\ n \in Nat /\ WindowSize \in Nat \ {0} /\ t.next \in Nat
      /\ n + 1 = frame.data
  BY Fields, WordsSlotsInt, Constants DEF Frame
<1>3. r.tunnel = b.tunnel /\ r.frames = b.frames /\ r.payloads = <<>>
  BY <1>1
<1>4. CASE early
  <2>1. b.tunnel = kept /\ b.frames = <<>>
    BY <1>1, <1>4
  <2>2. /\ kept.incoming = [t.incoming EXCEPT ![Slot(n)] = packet]
        /\ kept.acknowledge = t.acknowledge
        /\ kept.sequence = t.sequence /\ kept.start = t.start /\ kept.next = t.next
        /\ kept.pendingOut = t.pendingOut /\ kept.reliabilityWindow = t.reliabilityWindow
    BY DEF TunnelRecord
  <2> HIDE DEF kept
  <2>3. Sender(kept, count, hand)
    BY <2>2, SenderFields
  <2> DEFINE d == n - t.acknowledge
  <2>4. d \in Nat /\ d > 0 /\ d < WindowSize /\ t.acknowledge + d = n
    BY <1>2, <1>4
  <2> HIDE DEF d
  <2>5. Slot(n) \in Slots /\ Offset(Slot(n), t.acknowledge) = d
    BY <1>2, <2>4, SlotAt
  <2>6. packet = PacketAt(n)
    BY <1>2 DEF PacketAt
  <2>7. ASSUME NEW i \in Slots, kept.incoming[i] # NULL
        PROVE  /\ Offset(i, t.acknowledge) > 0
               /\ kept.incoming[i] = PacketAt(t.acknowledge + Offset(i, t.acknowledge))
               /\ t.acknowledge + Offset(i, t.acknowledge) < bound
    <3>1. CASE i = Slot(n)
      <4>1. kept.incoming[i] = packet
        BY <2>2, <2>5, <3>1, Fields
      <4> QED
        BY <2>4, <2>5, <2>6, <3>1, <4>1
    <3>2. CASE i # Slot(n)
      <4>1. kept.incoming[i] = t.incoming[i]
        BY <2>2, <3>2, Fields
      <4> QED
        BY <2>7, <4>1 DEF Receiver
    <3> QED
      BY <3>1, <3>2
  <2>8. t.acknowledge <= bound
    BY DEF Receiver
  <2>9. Receiver(kept, bound)
    BY <2>2, <2>7, <2>8 DEF Receiver
  <2> QED
    BY <1>2, <1>3, <2>1, <2>2, <2>3, <2>9 DEF Receives, AllTruthful
<1>5. CASE ~early
  <2>1. b \in SendEmpty(t) \/ b = [tunnel |-> t, frames |-> <<>>]
    BY <1>1, <1>5
  <2>2. Sends(b, t, count, hand)
    BY <2>1, SendEmptySends, SendsNothingSends
  <2>3. Receiver(b.tunnel, bound)
    BY <2>2, ReceiverFields DEF Sends, SendStep
  <2> HIDE DEF early
  <2> QED
    BY <1>2, <1>3, <2>2, <2>3 DEF Receives, Sends, SendStep
<1> QED
  BY <1>4, <1>5

LEMMA ReceiveReceives ==
  ASSUME ~SendMayFail,
         NEW t \in TunnelRecord, NEW count \in Position, NEW hand \in {0, 1},
         Sender(t, count, hand), NEW bound \in Position, Receiver(t, bound),
         NEW frame \in Frame, frame.acknowledge <= t.next,
         frame.data # NoData => frame.data = frame.sequence + 1 /\ frame.sequence < bound,
         NEW r \in Receive(t, frame)
  PROVE  /\ Receives(r, t, count, hand, bound)
         /\ r.tunnel.start >= t.start
         /\ r.tunnel.start = t.start \/ r.tunnel.start = frame.acknowledge
<1> DEFINE noted == [t EXCEPT !.unackedPacket = @ \/ frame.data # NoData,
                              !.hasPendingOut = TRUE]
           u == Acknowledged(noted, frame.acknowledge)
<1>1. /\ noted \in TunnelRecord
      /\ noted.sequence = t.sequence /\ noted.start = t.start /\ noted.next = t.next
      /\ noted.pendingOut = t.pendingOut /\ noted.reliabilityWindow = t.reliabilityWindow
      /\ noted.acknowledge = t.acknowledge /\ noted.incoming = t.incoming
  BY DEF TunnelRecord
<1>2. frame.acknowledge \in Words /\ frame.acknowledge \in Nat /\ frame.data \in Nat
      /\ frame.sequence \in Nat
  BY WordsSlotsInt DEF Frame
<1> HIDE DEF noted
<1>3. Sender(noted, count, hand)
  BY <1>1, SenderFields
<1>4. u \in TunnelRecord
  BY <1>1, <1>2, AcknowledgedType
<1>5. /\ Sender(u, count, hand)
      /\ u.start >= t.start /\ (u.start = t.start \/ u.start = frame.acknowledge)
      /\ u.next = t.next /\ u.acknowledge = t.acknowledge /\ u.incoming = t.incoming
  BY <1>1, <1>2, <1>3, AcknowledgedFrees
<1>6. Receiver(u, bound)
  BY <1>5, ReceiverFields
<1>7. r \in (IF frame.data = NoData
             THEN {[tunnel |-> u, frames |-> <<>>, new |-> FALSE, payloads |-> <<>>]}
             ELSE IF frame.sequence = u.acknowledge
             THEN Accept(u, frame.data)
             ELSE Discard(u, frame, t.unackedPacket))
  BY DEF Receive, noted
<1> HIDE DEF u
<1>8. t.next \in Nat /\ t.acknowledge \in Nat
  BY Fields, WordsSlotsInt
<1>9. CASE frame.data = NoData
  <2>1. r.tunnel = u /\ r.frames = <<>> /\ r.payloads = <<>>
    BY <1>7, <1>9
  <2> QED
    BY <1>5, <1>6, <1>8, <2>1 DEF Receives, AllTruthful
<1>10. CASE frame.data # NoData
  <2>1. frame.data = frame.sequence + 1 /\ frame.sequence < bound
    BY <1>10
  <2>2. Receives(r, u, count, hand, bound) /\ r.tunnel.start = u.start
    <3>1. CASE frame.sequence = u.acknowledge
      <4>1. r \in Accept(u, frame.data)
        BY <1>7, <1>10, <3>1
      <4>2. u.acknowledge < bound /\ frame.data = u.acknowledge + 1
        BY <2>1, <3>1
      <4> QED
        BY <1>2, <1>4, <1>5, <1>6, <4>1, <4>2, AcceptReceives
    <3>2. CASE frame.sequence # u.acknowledge
      <4>1. r \in Discard(u, frame, t.unackedPacket)
        BY <1>7, <1>10, <3>2
      <4> QED
        BY <1>4, <1>5, <1>6, <2>1, <4>1, DiscardReceives
    <3> QED
      BY <3>1, <3>2
  <2> QED
    BY <1>5, <2>2 DEF Receives
<1> QED
  BY <1>9, <1>10

-----------------------------------------------------------------------------
(* The network.                                                            *)

LEMMA FrameNetType ==
  ASSUME NEW n, NetType(n)
  PROVE  \A f \in Frames(n) : f \in Frame
<1>1. CASE Ordered
  BY <1>1, ElementOfSeq DEF NetType, Frames
<1>2. CASE ~Ordered
  BY <1>2 DEF NetType, Frames
<1> QED
  BY <1>1, <1>2

\* The network carries what it carried before and what has just been sent.
LEMMA CarryTruthful ==
  ASSUME NEW n, NetType(n), NEW frames \in Seq(Frame), NEW t,
         \A f \in Frames(n) : Truthful(f, t), AllTruthful(frames, t)
  PROVE  \A f \in Frames(Carry(n, frames)) : Truthful(f, t)
<1>1. CASE Ordered
  <2> DEFINE all == n \o frames
             first == IF Len(all) > Capacity THEN Len(all) - Capacity + 1 ELSE 1
             kept == SubSeq(all, first, Len(all))
  <2>1. n \in Seq(Frame) /\ all \in Seq(Frame) /\ Len(all) \in Nat
    BY <1>1, ConcatProperties, LenProperties DEF NetType
  <2>2. first \in 1..(Len(all) + 1)
    BY <2>1, Constants
  <2>3. AllTruthful(n, t)
    BY <1>1 DEF Frames, AllTruthful
  <2>4. AllTruthful(all, t)
    BY <2>1, <2>3, AllTruthfulConcat
  <2>5. Carry(n, frames) = kept
    BY <1>1 DEF Carry
  <2> HIDE DEF all, first
  <2>6. \A i \in first..Len(all) : all[i] \in Frame
    BY <2>1, <2>2, ElementOfSeq
  <2>7. /\ Len(kept) = Len(all) - first + 1
        /\ \A i \in 1..Len(kept) : kept[i] = all[first + i - 1]
    <3>1. /\ Len(kept) = IF first <= Len(all) THEN Len(all) - first + 1 ELSE 0
          /\ \A i \in 1..(Len(all) - first + 1) : kept[i] = all[first + i - 1]
      BY <2>1, <2>2, <2>6, SubSeqProperties
    <3> HIDE DEF kept
    <3> QED
      BY <2>1, <2>2, <3>1
  <2> HIDE DEF kept
  <2>8. \A i \in 1..Len(kept) : Truthful(kept[i], t)
    <3> TAKE i \in 1..Len(kept)
    <3>1. first + i - 1 \in 1..Len(all)
      BY <2>1, <2>2, <2>7
    <3> QED
      BY <2>4, <2>7, <3>1 DEF AllTruthful
  <2> QED
    BY <1>1, <2>5, <2>8 DEF Frames
<1>2. CASE ~Ordered
  BY <1>2 DEF Frames, Carry, AllTruthful
<1> QED
  BY <1>1, <1>2

LEMMA ArrivalFrames ==
  ASSUME NEW n, NetType(n), NEW a \in Arrivals(n)
  PROVE  a.frame \in Frames(n) /\ Frames(a.rest) \subseteq Frames(n)
<1>1. CASE Ordered
  <2>1. PICK i \in 1..Len(n) : a = [frame |-> n[i], rest |-> SubSeq(n, i + 1, Len(n))]
    BY <1>1 DEF Arrivals
  <2> DEFINE rest == SubSeq(n, i + 1, Len(n))
  <2>2. n \in Seq(Frame) /\ Len(n) \in Nat /\ i + 1 \in 1..(Len(n) + 1)
    BY <1>1, LenProperties DEF NetType
  <2>3. \A j \in (i + 1)..Len(n) : n[j] \in Frame
    BY <2>2, ElementOfSeq
  <2>4. /\ Len(rest) = IF i + 1 <= Len(n) THEN Len(n) - (i + 1) + 1 ELSE 0
        /\ \A j \in 1..(Len(n) - (i + 1) + 1) : rest[j] = n[i + 1 + j - 1]
    BY <2>2, <2>3, SubSeqProperties
  <2> HIDE DEF rest
  <2>5. ASSUME NEW j \in 1..Len(rest)
        PROVE  rest[j] = n[i + j] /\ i + j \in 1..Len(n)
    <3>1. j \in 1..(Len(n) - (i + 1) + 1) /\ i + 1 + j - 1 = i + j /\ i + j \in 1..Len(n)
      BY <2>2, <2>4
    <3> QED
      BY <2>4, <3>1
  <2>6. a.frame = n[i] /\ a.rest = rest
    BY <2>1 DEF rest
  <2> QED
    BY <1>1, <2>5, <2>6 DEF Frames
<1>2. CASE ~Ordered
  BY <1>2 DEF Arrivals, Frames
<1> QED
  BY <1>1, <1>2

LEMMA TailFrames ==
  ASSUME Ordered, NEW n \in Seq(Frame), n # <<>>
  PROVE  Frames(Tail(n)) \subseteq Frames(n)
<1>1. Len(n) \in Nat /\ Len(n) # 0 /\ Len(Tail(n)) = Len(n) - 1
  BY HeadTailProperties, EmptySeq
<1>2. \A i \in 1..Len(Tail(n)) : Tail(n)[i] = n[i + 1]
  BY HeadTailProperties
<1>3. \A i \in 1..Len(Tail(n)) : i + 1 \in 1..Len(n)
  BY <1>1
<1> QED
  BY <1>2, <1>3 DEF Frames

-----------------------------------------------------------------------------
(* The counting sequence.                                                  *)

\* What is moved from the front of one list to the end of the one before it.
LEMMA HeadMoves ==
  ASSUME NEW S, NEW a \in Seq(S), NEW b \in Seq(S), b # <<>>
  PROVE  Append(a, Head(b)) \o Tail(b) = a \o b
<1> DEFINE c == Append(a, Head(b))
<1>1. /\ Len(a) \in Nat /\ Len(b) \in Nat /\ Len(b) > 0
      /\ Tail(b) \in Seq(S) /\ Len(Tail(b)) = Len(b) - 1 /\ Head(b) \in S /\ Head(b) = b[1]
      /\ \A i \in 1..Len(Tail(b)) : Tail(b)[i] = b[i + 1]
  BY HeadTailProperties, LenProperties, EmptySeq
<1>2. /\ c \in Seq(S) /\ Len(c) = Len(a) + 1
      /\ \A i \in 1..Len(a) : c[i] = a[i]
      /\ c[Len(a) + 1] = b[1]
  BY <1>1, AppendProperties
<1> HIDE DEF c
<1> DEFINE left == c \o Tail(b)
           right == a \o b
<1>3. /\ left \in Seq(S) /\ Len(left) = Len(c) + Len(Tail(b))
      /\ \A i \in 1..(Len(c) + Len(Tail(b))) :
           left[i] = IF i <= Len(c) THEN c[i] ELSE Tail(b)[i - Len(c)]
  BY <1>1, <1>2, ConcatProperties
<1>4. /\ right \in Seq(S) /\ Len(right) = Len(a) + Len(b)
      /\ \A i \in 1..(Len(a) + Len(b)) :
           right[i] = IF i <= Len(a) THEN a[i] ELSE b[i - Len(a)]
  BY <1>1, ConcatProperties
<1> HIDE DEF left, right
<1>5. Len(left) = Len(right) /\ Len(left) = Len(a) + Len(b)
  BY <1>1, <1>2, <1>3, <1>4
<1>6. ASSUME NEW i \in 1..(Len(a) + Len(b))
      PROVE  left[i] = right[i]
  <2>1. i \in 1..(Len(c) + Len(Tail(b)))
    BY <1>1, <1>2
  <2>2. CASE i <= Len(a)
    <3>1. i \in 1..Len(a) /\ i <= Len(c)
      BY <1>1, <1>2, <2>2
    <3> QED
      BY <1>2, <1>3, <1>4, <2>1, <2>2, <3>1
  <2>3. CASE i = Len(a) + 1
    <3>1. i <= Len(c) /\ ~(i <= Len(a)) /\ i - Len(a) = 1
      BY <1>1, <1>2, <2>3
    <3> QED
      BY <1>2, <1>3, <1>4, <2>1, <2>3, <3>1
  <2>4. CASE i > Len(a) + 1
    <3>1. /\ ~(i <= Len(c)) /\ ~(i <= Len(a)) /\ i - Len(c) \in 1..Len(Tail(b))
          /\ i - Len(c) + 1 = i - Len(a)
      BY <1>1, <1>2, <2>4
    <3> QED
      BY <1>1, <1>3, <1>4, <2>1, <3>1
  <2> QED
    BY <1>1, <2>2, <2>3, <2>4
<1>7. left = right
  BY <1>3, <1>4, <1>5, <1>6, SeqEqual
<1> QED
  BY <1>7 DEF left, right, c

LEMMA Regroup ==
  ASSUME NEW a \in Seq(Nat), NEW b \in Seq(Nat), NEW c \in Seq(Nat)
  PROVE  (a \o b) \o c = a \o (b \o c)
BY ConcatAssociative

\* The first n positions, followed by the next ones.
LEMMA CountOn ==
  ASSUME NEW n \in Nat, NEW a \in Seq(Nat), NEW q \in Seq(Nat)
  PROVE  a = [i \in 1..n |-> i] /\ (\A k \in 1..Len(q) : q[k] = n + k)
           => a \o q = [i \in 1..(n + Len(q)) |-> i]
<1> DEFINE b == [i \in 1..(n + Len(q)) |-> i]
<1>1. Len(q) \in Nat /\ Len(a) \in Nat /\ n + Len(q) \in Nat
  BY LenProperties
<1>2. b \in Seq(Nat) /\ Len(b) = n + Len(q) /\ \A i \in 1..(n + Len(q)) : b[i] = i
  <2>1. b \in [1..(n + Len(q)) -> Nat]
    BY <1>1
  <2> QED
    BY <1>1, <2>1, IntervalSeq
<1> HIDE DEF b
<1>3. /\ a \o q \in Seq(Nat) /\ Len(a \o q) = Len(a) + Len(q)
      /\ \A i \in 1..(Len(a) + Len(q)) :
           (a \o q)[i] = IF i <= Len(a) THEN a[i] ELSE q[i - Len(a)]
  BY ConcatProperties
<1> SUFFICES ASSUME a = [i \in 1..n |-> i], \A k \in 1..Len(q) : q[k] = n + k
             PROVE  a \o q = b
  BY DEF b
<1>4. Len(a) = n /\ \A i \in 1..n : a[i] = i
  OBVIOUS
<1> DEFINE c == a \o q
<1>5. c \in Seq(Nat) /\ Len(c) = n + Len(q)
  BY <1>3, <1>4
<1>6. \A i \in 1..(n + Len(q)) : c[i] = IF i <= n THEN a[i] ELSE q[i - n]
  BY <1>3, <1>4
<1> HIDE DEF c
<1>7. ASSUME NEW i \in 1..(n + Len(q))
      PROVE  c[i] = i
  <2>1. CASE i <= n
    <3>1. i \in 1..n
      BY <1>1, <2>1
    <3> QED
      BY <1>4, <1>6, <2>1, <3>1
  <2>2. CASE i > n
    <3>1. i - n \in 1..Len(q) /\ n + (i - n) = i /\ ~(i <= n)
      BY <1>1, <2>2
    <3> QED
      BY <1>6, <3>1
  <2> QED
    BY <1>1, <2>1, <2>2
<1>8. c = b
  BY <1>2, <1>5, <1>7, SeqEqual
<1> QED
  BY <1>8 DEF c

-----------------------------------------------------------------------------
(* The hosts.                                                              *)

\* A step of side s that keeps its promises: its counters only move forward, its
\* halves stay in order, and it puts nothing but truthful frames on the network.
SafeMove(s) ==
  /\ tunnel'[Peer(s)] = tunnel[Peer(s)] /\ outPacket'[Peer(s)] = outPacket[Peer(s)]
  /\ submitted'[Peer(s)] = submitted[Peer(s)] /\ Received(Peer(s))' = Received(Peer(s))
  /\ tunnel[s].start <= tunnel'[s].start /\ tunnel[s].next <= tunnel'[s].next
  /\ tunnel[s].acknowledge <= tunnel'[s].acknowledge
  /\ submitted'[s] <= Limit[s]
  /\ Sender(tunnel'[s], submitted'[s], Hand(s)')
  /\ outPacket'[s] # NULL => outPacket'[s] = PacketAt(submitted'[s] - 1)
  /\ Receiver(tunnel'[s], tunnel[Peer(s)].next)
  /\ tunnel'[s].start <= tunnel[Peer(s)].acknowledge
  /\ Received(s)' = [i \in 1..tunnel'[s].acknowledge |-> i]
  /\ \A f \in Frames(net'[s]) : Truthful(f, tunnel'[s])
  /\ Frames(net'[Peer(s)]) \subseteq Frames(net[Peer(s)])

\* What Safe says of one side, with the types it needs.
LEMMA SideFacts ==
  ASSUME NoWrap, Safe, NEW s \in Side
  PROVE  /\ tunnel[s] \in TunnelRecord /\ submitted[s] \in Position
         /\ submitted[s] <= Limit[s] /\ submitted[s] \in Nat /\ Limit[s] \in Position
         /\ Hand(s) \in {0, 1}
         /\ Sender(tunnel[s], submitted[s], Hand(s))
         /\ outPacket[s] # NULL => outPacket[s] = PacketAt(submitted[s] - 1)
         /\ Receiver(tunnel[s], tunnel[Peer(s)].next)
         /\ tunnel[s].start <= tunnel[Peer(s)].acknowledge
         /\ Received(s) = [i \in 1..tunnel[s].acknowledge |-> i]
         /\ \A f \in Frames(net[s]) : Truthful(f, tunnel[s])
         /\ NetType(net[s])
         /\ pendingIn[s] \in Seq(Nat) /\ delivered[s] \in Seq(Nat)
         /\ tunnel[s].start \in Nat /\ tunnel[s].next \in Nat /\ tunnel[s].acknowledge \in Nat
         /\ tunnel[s].next \in Position
<1>1. /\ tunnel[s] \in TunnelRecord /\ submitted[s] \in Nat /\ NetType(net[s])
      /\ pendingIn[s] \in Seq(Nat) /\ delivered[s] \in Seq(Nat)
  BY DEF Safe, TypeOK, NetType
<1>2. /\ submitted[s] <= Limit[s]
      /\ Sender(tunnel[s], submitted[s], Hand(s))
      /\ outPacket[s] # NULL => outPacket[s] = PacketAt(submitted[s] - 1)
      /\ Receiver(tunnel[s], tunnel[Peer(s)].next)
      /\ tunnel[s].start <= tunnel[Peer(s)].acknowledge
      /\ Received(s) = [i \in 1..tunnel[s].acknowledge |-> i]
      /\ \A f \in Frames(net[s]) : Truthful(f, tunnel[s])
  BY DEF Safe, SafeSide
<1>3. Limit[s] \in Nat
  BY TunnelAssumption
<1>4. Limit[s] \in Position
  BY <1>3 DEF NoWrap, Position
<1>5. submitted[s] \in Position
  BY <1>1, <1>2, <1>4, Positions
<1>6. Hand(s) \in {0, 1}
  BY DEF Hand
<1>7. tunnel[s].start \in Nat /\ tunnel[s].next \in Nat /\ tunnel[s].acknowledge \in Nat
  BY <1>1, Fields, WordsSlotsInt
<1>8. tunnel[s].next \in Position
  BY <1>1, <1>2, <1>5, <1>6, SenderNumbers
<1> QED
  BY <1>1, <1>2, <1>4, <1>5, <1>6, <1>7, <1>8

LEMMA MoveKeepsSafe ==
  ASSUME NoWrap, Safe, TypeOK', NEW s \in Side, SafeMove(s)
  PROVE  Safe'
<1> DEFINE p == Peer(s)
<1>1. p \in Side /\ Peer(p) = s /\ \A q \in Side : q = s \/ q = p
  BY DEF Side, Peer
<1>2. /\ tunnel[s] \in TunnelRecord /\ tunnel'[s] \in TunnelRecord
      /\ tunnel[p] \in TunnelRecord
  BY <1>1 DEF Safe, TypeOK
<1>3. /\ tunnel[s].next \in Nat /\ tunnel'[s].next \in Nat
      /\ tunnel[s].acknowledge \in Nat /\ tunnel'[s].acknowledge \in Nat
      /\ tunnel[p].start \in Nat /\ tunnel[p].acknowledge \in Nat
  BY <1>2, Fields, WordsSlotsInt
<1> HIDE DEF p
<1>4. /\ tunnel'[p] = tunnel[p] /\ outPacket'[p] = outPacket[p]
      /\ submitted'[p] = submitted[p] /\ Received(p)' = Received(p)
      /\ tunnel[s].next <= tunnel'[s].next
      /\ tunnel[s].acknowledge <= tunnel'[s].acknowledge
      /\ Frames(net'[p]) \subseteq Frames(net[p])
  BY DEF SafeMove, p
<1>5. SafeSide(s)'
  <2>1. /\ submitted'[s] <= Limit[s]
        /\ Sender(tunnel'[s], submitted'[s], Hand(s)')
        /\ outPacket'[s] # NULL => outPacket'[s] = PacketAt(submitted'[s] - 1)
        /\ Receiver(tunnel'[s], tunnel[p].next)
        /\ tunnel'[s].start <= tunnel[p].acknowledge
        /\ Received(s)' = [i \in 1..tunnel'[s].acknowledge |-> i]
        /\ \A f \in Frames(net'[s]) : Truthful(f, tunnel'[s])
    BY DEF SafeMove, p
  <2> QED
    BY <1>4, <2>1 DEF SafeSide, p
<1>6. SafeSide(p)'
  <2>1. /\ submitted[p] <= Limit[p]
        /\ Sender(tunnel[p], submitted[p], Hand(p))
        /\ outPacket[p] # NULL => outPacket[p] = PacketAt(submitted[p] - 1)
        /\ Receiver(tunnel[p], tunnel[s].next)
        /\ tunnel[p].start <= tunnel[s].acknowledge
        /\ Received(p) = [i \in 1..tunnel[p].acknowledge |-> i]
        /\ \A f \in Frames(net[p]) : Truthful(f, tunnel[p])
    BY <1>1, SideFacts
  <2>2. Receiver(tunnel[p], tunnel'[s].next)
    <3>1. tunnel[p].acknowledge <= tunnel'[s].next
      <4>1. tunnel[p].acknowledge <= tunnel[s].next
        BY <2>1 DEF Receiver
      <4> QED
        BY <1>3, <1>4, <4>1
    <3>2. ASSUME NEW i \in Slots, tunnel[p].incoming[i] # NULL
          PROVE  tunnel[p].acknowledge + Offset(i, tunnel[p].acknowledge) < tunnel'[s].next
      <4> DEFINE o == Offset(i, tunnel[p].acknowledge)
      <4>1. tunnel[p].acknowledge + o < tunnel[s].next
        BY <2>1, <3>2 DEF Receiver
      <4>2. o \in Nat
        <5>1. i \in Int /\ tunnel[p].acknowledge \in Int
          BY <1>3, WordsSlotsInt
        <5>2. o \in Slots
          BY <5>1, WordArithmetic
        <5> QED
          BY <5>2, WordsSlotsInt
      <4> HIDE DEF o
      <4>3. tunnel[p].acknowledge + o < tunnel'[s].next
        BY <1>3, <1>4, <4>1, <4>2
      <4> QED
        BY <4>3 DEF o
    <3> QED
      BY <2>1, <3>1, <3>2 DEF Receiver
  <2>3. tunnel[p].start <= tunnel'[s].acknowledge
    BY <1>3, <1>4, <2>1
  <2>4. Hand(p)' = Hand(p)
    BY <1>4 DEF Hand
  <2>5. \A f \in Frames(net'[p]) : Truthful(f, tunnel[p])
    BY <1>4, <2>1
  <2> QED
    BY <1>1, <1>4, <2>1, <2>2, <2>3, <2>4, <2>5 DEF SafeSide
<1>7. \A q \in Side : SafeSide(q)'
  BY <1>1, <1>5, <1>6
<1> QED
  BY <1>7 DEF Safe

LEMMA SafeInit == Init => Safe
<1> SUFFICES ASSUME Init PROVE Safe
  OBVIOUS
<1>1. TypeOK
  BY TypeInit
<1>2. ASSUME NEW s \in Side
      PROVE  SafeSide(s)
  <2>1. Peer(s) \in Side
    BY PeerType
  <2>2. /\ tunnel[s] = NewTunnel /\ tunnel[Peer(s)] = NewTunnel
        /\ outPacket[s] = NULL /\ submitted[s] = 0
        /\ delivered[s] = <<>> /\ pendingIn[s] = <<>> /\ net[s] = EmptyNet
    BY <2>1 DEF Init
  <2>3. /\ NewTunnel.start = 0 /\ NewTunnel.next = 0 /\ NewTunnel.sequence = 0
        /\ NewTunnel.acknowledge = 0 /\ NewTunnel.pendingOut = <<>>
        /\ \A i \in Slots : NewTunnel.reliabilityWindow[i] = NULL
        /\ \A i \in Slots : NewTunnel.incoming[i] = NULL
    BY DEF NewTunnel
  <2>4. Limit[s] \in Nat /\ WindowSize \in Nat
    BY TunnelAssumption
  <2>5. \A i \in Slots : ~(Offset(i, 0) < 0 - 0)
    <3>1. \A i \in Slots : i \in Int
      BY WordsSlotsInt
    <3>2. \A i \in Slots : Offset(i, 0) \in Nat
      BY <3>1, WordArithmetic, WordsSlotsInt
    <3> QED
      BY <3>2
  <2>6. Sender(NewTunnel, 0, 0)
    BY <2>3, <2>4, <2>5 DEF Sender
  <2>7. Receiver(NewTunnel, 0)
    BY <2>3 DEF Receiver
  <2>8. Received(s) = [i \in 1..0 |-> i]
    BY <2>2 DEF Received
  <2>9. Frames(EmptyNet) = {}
    BY DEF Frames, EmptyNet
  <2> QED
    BY <2>2, <2>3, <2>4, <2>6, <2>7, <2>8, <2>9 DEF SafeSide, Hand
<1> QED
  BY <1>1, <1>2 DEF Safe

\* A step that sends, or does nothing: whatever side s did not touch is as it was.
LEMMA SendingMoves ==
  ASSUME NoWrap, Safe, TypeOK', NEW s \in Side, NEW frames \in Seq(Frame),
         Sends([tunnel |-> tunnel'[s], frames |-> frames], tunnel[s],
               submitted[s], Hand(s)'),
         tunnel'[Peer(s)] = tunnel[Peer(s)], outPacket'[Peer(s)] = outPacket[Peer(s)],
         outPacket'[s] = NULL \/ outPacket'[s] = outPacket[s],
         Received(s)' = Received(s), Received(Peer(s))' = Received(Peer(s)),
         submitted' = submitted,
         net'[s] = Carry(net[s], frames) \/ (net'[s] = net[s] /\ frames = <<>>),
         Frames(net'[Peer(s)]) \subseteq Frames(net[Peer(s)])
  PROVE  SafeMove(s)
<1> DEFINE t == tunnel[s]
           u == tunnel'[s]
<1>1. /\ Sender(u, submitted[s], Hand(s)') /\ SendStep(t, u) /\ AllTruthful(frames, u)
  BY DEF Sends
<1>2. t \in TunnelRecord /\ u \in TunnelRecord
  BY DEF Safe, TypeOK
<1>3. /\ t.start \in Nat /\ t.next \in Nat /\ t.acknowledge \in Nat
      /\ u.start = t.start /\ u.next >= t.next /\ u.next \in Nat
      /\ u.acknowledge = t.acknowledge /\ u.incoming = t.incoming
  BY <1>1, <1>2, Fields, WordsSlotsInt DEF SendStep
<1>4. /\ submitted[s] <= Limit[s]
      /\ outPacket[s] # NULL => outPacket[s] = PacketAt(submitted[s] - 1)
      /\ Receiver(t, tunnel[Peer(s)].next)
      /\ t.start <= tunnel[Peer(s)].acknowledge
      /\ Received(s) = [i \in 1..t.acknowledge |-> i]
      /\ \A f \in Frames(net[s]) : Truthful(f, t)
      /\ NetType(net[s])
  BY SideFacts
<1> HIDE DEF t, u
<1>5. \A f \in Frames(net[s]) : Truthful(f, u)
  <2>1. \A f \in Frames(net[s]) : f \in Frame
    BY <1>4, FrameNetType
  <2>2. t.next <= u.next /\ t.acknowledge <= u.acknowledge
    BY <1>3
  <2> QED
    BY <1>2, <1>4, <2>1, <2>2, TruthfulLater
<1>6. \A f \in Frames(net'[s]) : Truthful(f, u)
  BY <1>1, <1>4, <1>5, CarryTruthful
<1>7. Receiver(u, tunnel[Peer(s)].next)
  BY <1>3, <1>4, ReceiverFields
<1>8. t.start <= u.start /\ t.next <= u.next /\ t.acknowledge <= u.acknowledge
  BY <1>3
<1>9. outPacket'[s] # NULL => outPacket'[s] = PacketAt(submitted'[s] - 1)
  BY <1>4
<1>10. Received(s)' = [i \in 1..u.acknowledge |-> i]
  BY <1>3, <1>4
<1>11. submitted'[s] = submitted[s] /\ submitted'[Peer(s)] = submitted[Peer(s)]
  OBVIOUS
<1> QED
  BY <1>1, <1>3, <1>4, <1>6, <1>7, <1>8, <1>9, <1>10, <1>11 DEF SafeMove, t, u

LEMMA SendMoves ==
  ASSUME NoWrap, Safe, TypeOK', NEW s \in Side, Send(s)
  PROVE  SafeMove(s)
<1> DEFINE t == tunnel[s]
           u == tunnel'[s]
           n == submitted[s]
<1>1. /\ t \in TunnelRecord /\ n \in Nat /\ n + 1 <= Limit[s] /\ Limit[s] \in Position
      /\ t.start \in Nat /\ t.next \in Nat /\ t.acknowledge \in Nat
      /\ Len(t.pendingOut) \in Nat
  <2>1. t \in TunnelRecord /\ n \in Nat /\ Limit[s] \in Position
        /\ t.start \in Nat /\ t.next \in Nat /\ t.acknowledge \in Nat
    BY SideFacts
  <2>2. n < Limit[s] /\ Limit[s] \in Nat
    BY TunnelAssumption DEF Send
  <2> QED
    BY <2>1, <2>2, Fields
<1>2. outPacket[s] = NULL /\ Hand(s) = 0
  BY DEF Send, Safe, TypeOK, Hand
<1>3. Sender(t, n, 0)
  BY <1>2, SideFacts
<1>4. Plus(n, 1) = n + 1
  <2>1. n + 1 < Word
    BY <1>1, Positions
  <2> QED
    BY <1>1, <2>1, NoWrapArithmetic
<1>5. /\ submitted'[s] = n + 1 /\ submitted'[Peer(s)] = submitted[Peer(s)]
      /\ tunnel'[Peer(s)] = tunnel[Peer(s)] /\ outPacket'[Peer(s)] = outPacket[Peer(s)]
      /\ outPacket'[s] = [sequence |-> t.sequence, data |-> n + 1]
      /\ u = [t EXCEPT !.sequence = Plus(@, 1)]
      /\ pendingIn' = pendingIn /\ delivered' = delivered /\ net' = net
  BY PeerType DEF Send, Safe, TypeOK
<1>6. /\ t.sequence = n
      /\ t.next + Len(t.pendingOut) + 0 = n
  BY <1>3 DEF Sender
<1> HIDE DEF n
<1>7. outPacket'[s] = PacketAt(n) /\ outPacket'[s] # NULL
  <2>1. outPacket'[s] = PacketAt(n)
    BY <1>5, <1>6 DEF PacketAt
  <2> QED
    BY <1>1, <2>1, PacketAtType
<1>8. Hand(s)' = 1
  BY <1>7 DEF Hand
<1>9. /\ u.sequence = n + 1 /\ u.start = t.start /\ u.next = t.next
      /\ u.acknowledge = t.acknowledge /\ u.incoming = t.incoming
      /\ u.pendingOut = t.pendingOut /\ u.reliabilityWindow = t.reliabilityWindow
  BY <1>1, <1>4, <1>5, <1>6 DEF TunnelRecord
<1> HIDE DEF t, u
<1>10. Sender(u, n + 1, 1)
  <2>1. u.next + Len(u.pendingOut) + 1 = n + 1
    BY <1>1, <1>6, <1>9
  <2> QED
    BY <1>3, <1>9, <2>1 DEF Sender
<1>11. outPacket'[s] = PacketAt(submitted'[s] - 1)
  <2>1. submitted'[s] = n + 1 /\ n \in Nat
    BY <1>1, <1>5
  <2>2. submitted'[s] - 1 = n
    BY <2>1
  <2> QED
    BY <1>7, <2>2
<1>12. /\ Receiver(t, tunnel[Peer(s)].next)
       /\ t.start <= tunnel[Peer(s)].acknowledge
       /\ Received(s) = [i \in 1..t.acknowledge |-> i]
       /\ \A f \in Frames(net[s]) : Truthful(f, t)
  BY SideFacts DEF t
<1>13. Receiver(u, tunnel[Peer(s)].next)
  BY <1>9, <1>12, ReceiverFields
<1>14. \A f \in Frames(net'[s]) : Truthful(f, u)
  BY <1>5, <1>9, <1>12 DEF Truthful
<1>15. Received(s)' = Received(s) /\ Received(Peer(s))' = Received(Peer(s))
  BY <1>5 DEF Received
<1>16. t.start <= u.start /\ t.next <= u.next /\ t.acknowledge <= u.acknowledge
  BY <1>1, <1>9
<1>17. Received(s)' = [i \in 1..u.acknowledge |-> i] /\ u.start <= tunnel[Peer(s)].acknowledge
  BY <1>9, <1>12, <1>15
<1>18. Sender(u, submitted'[s], Hand(s)') /\ submitted'[s] <= Limit[s]
  BY <1>1, <1>5, <1>8, <1>10
<1>19. Frames(net'[Peer(s)]) \subseteq Frames(net[Peer(s)])
  BY <1>5
<1> QED
  BY <1>5, <1>11, <1>13, <1>14, <1>15, <1>16, <1>17, <1>18, <1>19 DEF SafeMove, t, u

\* The steps of tunnelOut and netInterfacePending that send.
LEMMA FinishPendingMoves ==
  ASSUME NoWrap, ~SendMayFail, Safe, TypeOK', NEW s \in Side, FinishPending(s)
  PROVE  SafeMove(s)
<1> PICK slots \in SUBSET Occupied(tunnel[s]) :
      \E expired \in SetToSeqs(slots) : FlushPending(s, expired)
  BY DEF FinishPending
<1>1. PICK expired \in SetToSeqs(slots) : FlushPending(s, expired)
  OBVIOUS
<1>2. PICK b \in Flush(tunnel[s], expired) :
        /\ tunnel' = [tunnel EXCEPT ![s] = b.tunnel]
        /\ net' = [net EXCEPT ![s] = Carry(@, b.frames)]
  BY <1>1 DEF FlushPending
<1>3. /\ outPacket' = outPacket /\ pendingIn' = pendingIn /\ delivered' = delivered
      /\ submitted' = submitted
  BY <1>1 DEF FlushPending
<1>4. /\ tunnel[s] \in TunnelRecord /\ submitted[s] \in Position /\ Hand(s) \in {0, 1}
      /\ Sender(tunnel[s], submitted[s], Hand(s))
  BY SideFacts
<1>5. b \in Outcome /\ b.frames \in Seq(Frame) /\ b = [tunnel |-> b.tunnel, frames |-> b.frames]
  BY <1>4, FlushType DEF Outcome
<1>6. Sends(b, tunnel[s], submitted[s], Hand(s))
  BY <1>4, FlushSends
<1>7. /\ tunnel'[s] = b.tunnel /\ tunnel'[Peer(s)] = tunnel[Peer(s)]
      /\ net'[s] = Carry(net[s], b.frames) /\ net'[Peer(s)] = net[Peer(s)]
  BY <1>2, PeerType DEF Safe, TypeOK
<1>8. Hand(s)' = Hand(s)
  BY <1>3 DEF Hand
<1>9. Received(s)' = Received(s) /\ Received(Peer(s))' = Received(Peer(s))
  BY <1>3 DEF Received
<1>10. Sends([tunnel |-> tunnel'[s], frames |-> b.frames], tunnel[s], submitted[s], Hand(s)')
  BY <1>5, <1>6, <1>7, <1>8
<1>11. outPacket'[s] = outPacket[s] /\ outPacket'[Peer(s)] = outPacket[Peer(s)]
  BY <1>3
<1>12. Frames(net'[Peer(s)]) \subseteq Frames(net[Peer(s)])
  BY <1>7
<1> QED
  BY <1>3, <1>5, <1>7, <1>9, <1>10, <1>11, <1>12, SendingMoves

LEMMA FinishOutMoves ==
  ASSUME NoWrap, ~SendMayFail, Safe, TypeOK', NEW s \in Side, FinishOut(s)
  PROVE  SafeMove(s)
<1>1. PICK b \in SendOut(tunnel[s], outPacket[s]) :
        /\ tunnel' = [tunnel EXCEPT ![s] = b.tunnel]
        /\ net' = [net EXCEPT ![s] = Carry(@, b.frames)]
  BY DEF FinishOut
<1>2. /\ outPacket' = [outPacket EXCEPT ![s] = NULL]
      /\ pendingIn' = pendingIn /\ delivered' = delivered /\ submitted' = submitted
  BY DEF FinishOut
<1>3. outPacket[s] # NULL /\ outPacket[s] \in Packet /\ Hand(s) = 1
  BY DEF FinishOut, Safe, TypeOK, Hand
<1>4. /\ tunnel[s] \in TunnelRecord /\ submitted[s] \in Position
      /\ Sender(tunnel[s], submitted[s], 1)
      /\ outPacket[s] = PacketAt(submitted[s] - 1)
  BY <1>3, SideFacts
<1>5. b \in Outcome /\ b.frames \in Seq(Frame) /\ b = [tunnel |-> b.tunnel, frames |-> b.frames]
  BY <1>3, <1>4, SendOutType DEF Outcome
<1>6. Sends(b, tunnel[s], submitted[s], 0)
  BY <1>3, <1>4, SendOutSends
<1>7. /\ tunnel'[s] = b.tunnel /\ tunnel'[Peer(s)] = tunnel[Peer(s)]
      /\ net'[s] = Carry(net[s], b.frames) /\ net'[Peer(s)] = net[Peer(s)]
      /\ outPacket'[s] = NULL /\ outPacket'[Peer(s)] = outPacket[Peer(s)]
  BY <1>1, <1>2, PeerType DEF Safe, TypeOK
<1>8. Hand(s)' = 0
  BY <1>7 DEF Hand
<1>9. Received(s)' = Received(s) /\ Received(Peer(s))' = Received(Peer(s))
  BY <1>2 DEF Received
<1>10. Sends([tunnel |-> tunnel'[s], frames |-> b.frames], tunnel[s], submitted[s], Hand(s)')
  BY <1>5, <1>6, <1>7, <1>8
<1>11. Frames(net'[Peer(s)]) \subseteq Frames(net[Peer(s)])
  BY <1>7
<1> QED
  BY <1>2, <1>5, <1>7, <1>9, <1>10, <1>11, SendingMoves

\* The steps that move nothing but packets already taken in, or lose a frame.
LEMMA QuietMoves ==
  ASSUME NoWrap, Safe, TypeOK', NEW s \in Side, Pending(s) \/ Process(s) \/ Lose(s)
  PROVE  SafeMove(s)
<1>1. tunnel' = tunnel /\ outPacket' = outPacket /\ submitted' = submitted
  BY DEF Pending, Process, Lose
<1>2. Received(s)' = Received(s) /\ Received(Peer(s))' = Received(Peer(s))
  <2>1. CASE Process(s)
    <3>1. /\ delivered'[s] = Append(delivered[s], Head(pendingIn[s]))
          /\ pendingIn'[s] = Tail(pendingIn[s])
          /\ delivered'[Peer(s)] = delivered[Peer(s)]
          /\ pendingIn'[Peer(s)] = pendingIn[Peer(s)]
          /\ pendingIn[s] # <<>>
      BY <2>1, PeerType DEF Process, Safe, TypeOK
    <3>2. delivered[s] \in Seq(Nat) /\ pendingIn[s] \in Seq(Nat)
      BY SideFacts
    <3>3. Append(delivered[s], Head(pendingIn[s])) \o Tail(pendingIn[s])
            = delivered[s] \o pendingIn[s]
      BY <3>1, <3>2, HeadMoves
    <3> QED
      BY <3>1, <3>3 DEF Received
  <2>2. CASE Pending(s) \/ Lose(s)
    BY <2>2 DEF Pending, Lose, Received
  <2> QED
    BY <2>1, <2>2
<1>3. net'[s] = net[s] /\ Frames(net'[Peer(s)]) \subseteq Frames(net[Peer(s)])
  <2>1. CASE Lose(s)
    <3>1. Ordered /\ net[Peer(s)] # <<>> /\ Peer(s) \in Side /\ Peer(s) # s
      BY <2>1, PeerType DEF Lose
    <3>2. net[Peer(s)] \in Seq(Frame)
      BY <3>1 DEF Safe, TypeOK
    <3>3. net'[s] = net[s] /\ net'[Peer(s)] = Tail(net[Peer(s)])
      BY <2>1, <3>1 DEF Lose, Safe, TypeOK
    <3> QED
      BY <3>1, <3>2, <3>3, TailFrames
  <2>2. CASE Pending(s) \/ Process(s)
    BY <2>2 DEF Pending, Process
  <2> QED
    BY <2>1, <2>2
<1>4. Sender(tunnel[s], submitted[s], Hand(s)) /\ tunnel[s] \in TunnelRecord
  BY SideFacts
<1>5. Hand(s)' = Hand(s)
  BY <1>1 DEF Hand
<1>6. Sends([tunnel |-> tunnel'[s], frames |-> <<>>], tunnel[s], submitted[s], Hand(s)')
  BY <1>1, <1>4, <1>5, SendsNothingSends
<1>7. <<>> \in Seq(Frame)
  OBVIOUS
<1> QED
  BY <1>1, <1>2, <1>3, <1>6, <1>7, SendingMoves

\* A frame arrives.
LEMMA IncomingMoves ==
  ASSUME NoWrap, ~SendMayFail, Safe, TypeOK', NEW s \in Side, Incoming(s)
  PROVE  SafeMove(s)
<1> DEFINE p == Peer(s)
           t == tunnel[s]
           u == tunnel'[s]
<1>1. PICK a \in Arrivals(net[p]) : IncomingOne(s, a)
  BY DEF Incoming
<1>2. PICK r \in Receive(t, a.frame) :
        /\ tunnel' = [tunnel EXCEPT ![s] = r.tunnel]
        /\ pendingIn' = [pendingIn EXCEPT ![s] = @ \o r.payloads]
        /\ net' = [net EXCEPT ![Peer(s)] = a.rest, ![s] = Carry(@, r.frames)]
  BY <1>1 DEF IncomingOne
<1>3. outPacket' = outPacket /\ delivered' = delivered /\ submitted' = submitted
  BY <1>1 DEF IncomingOne
<1>4. p \in Side /\ p # s /\ Peer(p) = s
  BY PeerType
<1>5. /\ u = r.tunnel /\ tunnel'[p] = tunnel[p]
      /\ pendingIn'[s] = pendingIn[s] \o r.payloads /\ pendingIn'[p] = pendingIn[p]
      /\ net'[s] = Carry(net[s], r.frames) /\ net'[p] = a.rest
  BY <1>2, <1>4 DEF Safe, TypeOK
<1>6. /\ t \in TunnelRecord /\ submitted[s] \in Position /\ Hand(s) \in {0, 1}
      /\ submitted[s] <= Limit[s]
      /\ Sender(t, submitted[s], Hand(s))
      /\ outPacket[s] # NULL => outPacket[s] = PacketAt(submitted[s] - 1)
      /\ Receiver(t, tunnel[p].next)
      /\ t.start <= tunnel[p].acknowledge
      /\ Received(s) = [i \in 1..t.acknowledge |-> i]
      /\ \A f \in Frames(net[s]) : Truthful(f, t)
      /\ NetType(net[s])
      /\ pendingIn[s] \in Seq(Nat) /\ delivered[s] \in Seq(Nat)
      /\ t.start \in Nat /\ t.next \in Nat /\ t.acknowledge \in Nat
  BY SideFacts
<1>7. /\ tunnel[p].next \in Position /\ NetType(net[p])
      /\ tunnel[p].acknowledge \in Nat /\ tunnel[p].acknowledge <= t.next
      /\ \A f \in Frames(net[p]) : Truthful(f, tunnel[p])
  BY <1>4, SideFacts DEF Receiver
<1>8. /\ a.frame \in Frame /\ a.frame \in Frames(net[p])
      /\ Frames(a.rest) \subseteq Frames(net[p])
  BY <1>7, ArrivalType, ArrivalFrames
<1> HIDE DEF p, t, u
<1>9. /\ a.frame.acknowledge <= tunnel[p].acknowledge
      /\ a.frame.acknowledge \in Nat
      /\ a.frame.data # NoData => a.frame.data = a.frame.sequence + 1
                                  /\ a.frame.sequence < tunnel[p].next
  BY <1>7, <1>8, WordsSlotsInt DEF Truthful, Frame
<1>10. a.frame.acknowledge <= t.next
  BY <1>6, <1>7, <1>9
<1>11. /\ Receives(r, t, submitted[s], Hand(s), tunnel[p].next)
       /\ r.tunnel.start >= t.start
       /\ r.tunnel.start = t.start \/ r.tunnel.start = a.frame.acknowledge
  <2>1. /\ t \in TunnelRecord /\ submitted[s] \in Position /\ Hand(s) \in {0, 1}
        /\ Sender(t, submitted[s], Hand(s)) /\ Receiver(t, tunnel[p].next)
    BY <1>6
  <2>2. tunnel[p].next \in Position /\ a.frame \in Frame
    BY <1>7, <1>8
  <2> QED
    BY <1>9, <1>10, <2>1, <2>2, ReceiveReceives
<1>12. r \in ReceiveOutcome
  BY <1>6, <1>8, ReceiveType
<1>13. r.payloads \in Seq(Nat) /\ r.frames \in Seq(Frame) /\ u \in TunnelRecord
       /\ Len(r.payloads) \in Nat
  BY <1>5, <1>12, LenProperties DEF ReceiveOutcome
<1>14. /\ Sender(u, submitted[s], Hand(s)) /\ Receiver(u, tunnel[p].next)
       /\ AllTruthful(r.frames, u) /\ u.next >= t.next
       /\ u.acknowledge = t.acknowledge + Len(r.payloads)
       /\ \A k \in 1..Len(r.payloads) : r.payloads[k] = t.acknowledge + k
  BY <1>5, <1>11 DEF Receives
<1>15. /\ u.start \in Nat /\ u.next \in Nat /\ u.acknowledge \in Nat
  BY <1>13, Fields, WordsSlotsInt
<1>16. t.start <= u.start /\ t.next <= u.next /\ t.acknowledge <= u.acknowledge
  <2>1. u.start >= t.start /\ u.next >= t.next
    BY <1>5, <1>11, <1>14
  <2>2. u.acknowledge = t.acknowledge + Len(r.payloads)
    BY <1>14
  <2> QED
    BY <1>6, <1>13, <1>15, <2>1, <2>2
<1>17. u.start <= tunnel[p].acknowledge
  BY <1>5, <1>6, <1>9, <1>11
<1>18. Received(s)' = [i \in 1..u.acknowledge |-> i]
  <2>1. Received(s) = delivered[s] \o pendingIn[s] /\ Received(s) \in Seq(Nat)
    BY <1>6, ConcatProperties DEF Received
  <2>2. Received(s) \o r.payloads = [i \in 1..(t.acknowledge + Len(r.payloads)) |-> i]
    <3>1. t.acknowledge \in Nat /\ r.payloads \in Seq(Nat) /\ Received(s) \in Seq(Nat)
      BY <1>6, <1>13, <2>1
    <3>2. Received(s) = [i \in 1..t.acknowledge |-> i]
      BY <1>6
    <3>3. \A k \in 1..Len(r.payloads) : r.payloads[k] = t.acknowledge + k
      BY <1>14
    <3> QED
      BY <3>1, <3>2, <3>3, CountOn
  <2>3. (delivered[s] \o pendingIn[s]) \o r.payloads
          = delivered[s] \o (pendingIn[s] \o r.payloads)
    <3>1. delivered[s] \in Seq(Nat) /\ pendingIn[s] \in Seq(Nat) /\ r.payloads \in Seq(Nat)
      BY <1>6, <1>13
    <3> QED
      BY <3>1, Regroup
  <2>4. Received(s)' = delivered[s] \o (pendingIn[s] \o r.payloads)
    BY <1>3, <1>5 DEF Received
  <2>5. u.acknowledge = t.acknowledge + Len(r.payloads)
    BY <1>14
  <2> QED
    BY <2>1, <2>2, <2>3, <2>4, <2>5
<1>19. \A f \in Frames(net'[s]) : Truthful(f, u)
  <2>1. \A f \in Frames(net[s]) : f \in Frame
    BY <1>6, FrameNetType
  <2>2. \A f \in Frames(net[s]) : Truthful(f, u)
    BY <1>6, <1>13, <1>16, <2>1, TruthfulLater
  <2> QED
    BY <1>5, <1>6, <1>13, <1>14, <2>2, CarryTruthful
<1>20. Hand(s)' = Hand(s) /\ Received(p)' = Received(p)
  BY <1>3, <1>5 DEF Hand, Received
<1>21. Frames(net'[p]) \subseteq Frames(net[p])
  BY <1>5, <1>8
<1> QED
  BY <1>3, <1>5, <1>6, <1>14, <1>16, <1>17, <1>18, <1>19, <1>20, <1>21 DEF SafeMove, p, t, u

\* Every step is one of a side that keeps its promises.
LEMMA NextMoves ==
  ASSUME NoWrap, ~SendMayFail, Safe, TypeOK', Next
  PROVE  \E s \in Side : SafeMove(s)
<1>1. PICK s \in Side :
        \/ Send(s) \/ Pending(s) \/ Process(s) \/ Incoming(s) \/ Lose(s)
        \/ FinishPending(s) \/ FinishOut(s)
  BY DEF Next
<1>2. SafeMove(s)
  BY <1>1, SendMoves, QuietMoves, IncomingMoves, FinishPendingMoves, FinishOutMoves
<1> QED
  BY <1>2

LEMMA SafeStep ==
  ASSUME NoWrap, ~SendMayFail, Safe, [Next]_vars
  PROVE  Safe'
<1>1. TypeOK'
  BY TypeStep DEF Safe
<1>2. CASE Next
  BY <1>1, <1>2, NextMoves, MoveKeepsSafe
<1>3. CASE UNCHANGED vars
  BY <1>3 DEF vars, Safe, SafeSide, TypeOK, Hand, Received
<1> QED
  BY <1>2, <1>3

\* The inductive invariant of the reliability layer, for every window, word and
\* stream: whatever the network loses, repeats or reorders, both sides number the
\* stream alike.  It needs that no counter comes within a window of its uint32
\* maximum (a stale acknowledgement could not be told from a new one: see
\* _tunnelReliabilityWindowDiff), and that netInterfaceSend does not fail once
\* _tunnelSend has placed the packet.
THEOREM SafeAlways ==
  ASSUME NoWrap, ~SendMayFail
  PROVE  Spec => []Safe
<1>1. Safe /\ [Next]_vars => Safe'
  BY SafeStep
<1> QED
  BY <1>1, SafeInit, PTL DEF Spec

-----------------------------------------------------------------------------
(* What follows from Safe.                                                 *)

\* The counters of the properties are the fields of the tunnel.
LEMMA Counters ==
  ASSUME NoWrap, Safe, NEW s \in Side
  PROVE  /\ Transmitted(s) = tunnel[s].next
         /\ InFlight(tunnel[s]) = tunnel[s].next - tunnel[s].start
         /\ tunnel[s].next - tunnel[s].start \in 0..WindowSize
         /\ Released(s) = tunnel[s].start
         /\ Len(Received(s)) = tunnel[s].acknowledge
         /\ tunnel[s].next <= submitted[s]
<1> DEFINE t == tunnel[s]
<1>1. /\ t \in TunnelRecord /\ submitted[s] \in Position /\ submitted[s] \in Nat
      /\ Hand(s) \in {0, 1} /\ Sender(t, submitted[s], Hand(s))
      /\ t.start \in Nat /\ t.next \in Nat /\ t.acknowledge \in Nat
  BY SideFacts
<1>2. /\ Len(t.pendingOut) \in Nat /\ InFlight(t) = t.next - t.start
      /\ t.next - t.start \in 0..WindowSize
  BY <1>1, SenderNumbers
<1>3. t.next + Len(t.pendingOut) + Hand(s) = submitted[s]
  BY <1>1 DEF Sender
<1>4. Received(s) = [i \in 1..t.acknowledge |-> i]
  BY SideFacts
<1>5. Len(Received(s)) = t.acknowledge
  BY <1>1, <1>4
<1>6. Transmitted(s) = submitted[s] - Len(t.pendingOut) - Hand(s)
  BY DEF Transmitted, Hand
<1> HIDE DEF t
<1>7. Transmitted(s) = t.next /\ t.next <= submitted[s]
  BY <1>1, <1>2, <1>3, <1>6
<1>8. Released(s) = t.start
  <2>1. Released(s) = Transmitted(s) - InFlight(t)
    BY DEF Released, t
  <2> QED
    BY <1>1, <1>2, <1>7, <2>1
<1> QED
  BY <1>2, <1>5, <1>7, <1>8 DEF t

LEMMA SafeImpliesDelivery ==
  ASSUME NoWrap, Safe
  PROVE  InOrderDelivery /\ NoPrematureRelease
<1> SUFFICES ASSUME NEW s \in Side
             PROVE  /\ Received(s) = [i \in 1..Len(Received(s)) |-> i]
                    /\ Len(Received(s)) <= Transmitted(Peer(s))
                    /\ Released(s) \in 0..Len(Received(Peer(s)))
  BY DEF InOrderDelivery, NoPrematureRelease
<1>1. Peer(s) \in Side
  BY PeerType
<1>2. /\ Received(s) = [i \in 1..tunnel[s].acknowledge |-> i]
      /\ tunnel[s].acknowledge <= tunnel[Peer(s)].next
      /\ tunnel[s].start \in Nat /\ tunnel[s].start <= tunnel[Peer(s)].acknowledge
  BY SideFacts DEF Receiver
<1>3. /\ Len(Received(s)) = tunnel[s].acknowledge
      /\ Transmitted(Peer(s)) = tunnel[Peer(s)].next
      /\ Released(s) = tunnel[s].start
      /\ Len(Received(Peer(s))) = tunnel[Peer(s)].acknowledge
  BY <1>1, Counters
<1>4. tunnel[Peer(s)].acknowledge \in Nat
  BY <1>1, SideFacts
<1>5. Released(s) \in 0..Len(Received(Peer(s)))
  BY <1>2, <1>3, <1>4
<1> QED
  BY <1>2, <1>3, <1>5

LEMMA SafeImpliesWindow ==
  ASSUME NoWrap, Safe
  PROVE  WindowHoldsUnacknowledged
<1> SUFFICES ASSUME NEW s \in Side
             PROVE  /\ InFlight(tunnel[s]) <= WindowSize
                    /\ \A i \in Slots :
                         tunnel[s].reliabilityWindow[i] =
                           IF Offset(i, tunnel[s].start) < InFlight(tunnel[s])
                           THEN [sequence |-> Plus(tunnel[s].start, Offset(i, tunnel[s].start)),
                                 data |-> Released(s) + Offset(i, tunnel[s].start) + 1]
                           ELSE NULL
  BY DEF WindowHoldsUnacknowledged
<1> DEFINE t == tunnel[s]
           f == t.next - t.start
<1>1. /\ InFlight(t) = f /\ Released(s) = t.start /\ f \in 0..WindowSize
  BY Counters
<1>2. t.start \in Nat /\ t.next \in Nat /\ t.next \in Position /\ WindowSize \in Nat
  BY SideFacts, Constants
<1>3. \A i \in Slots : t.reliabilityWindow[i] =
        IF Offset(i, t.start) < f THEN PacketAt(t.start + Offset(i, t.start)) ELSE NULL
  BY SideFacts DEF Sender
<1> HIDE DEF t
<1>4. ASSUME NEW i \in Slots, Offset(i, t.start) < f
      PROVE  PacketAt(t.start + Offset(i, t.start))
               = [sequence |-> Plus(t.start, Offset(i, t.start)),
                  data |-> Released(s) + Offset(i, t.start) + 1]
  <2> DEFINE o == Offset(i, t.start)
  <2>1. o \in Nat
    <3>1. i \in Int /\ t.start \in Int
      BY <1>2, WordsSlotsInt
    <3>2. o \in Slots
      BY <3>1, WordArithmetic
    <3> QED
      BY <3>2, WordsSlotsInt
  <2>2. o < f
    BY <1>4
  <2> HIDE DEF o
  <2>3. t.start + o \in Nat /\ t.start + o <= t.next
    BY <1>2, <2>1, <2>2
  <2>4. t.start + o < Word
    BY <1>2, <2>3, Positions
  <2>5. Plus(t.start, o) = t.start + o
    BY <1>2, <2>1, <2>4, NoWrapArithmetic
  <2> QED
    BY <1>1, <2>5 DEF PacketAt, o
<1>5. InFlight(t) <= WindowSize
  BY <1>1, <1>2
<1> HIDE DEF f
<1>6. \A i \in Slots :
        t.reliabilityWindow[i] =
          IF Offset(i, t.start) < InFlight(t)
          THEN [sequence |-> Plus(t.start, Offset(i, t.start)),
                data |-> Released(s) + Offset(i, t.start) + 1]
          ELSE NULL
  BY <1>1, <1>3, <1>4
<1> QED
  BY <1>5, <1>6 DEF t

LEMMA SafeImpliesQueue ==
  ASSUME NoWrap, Safe
  PROVE  QueueContinuesWindow
<1> SUFFICES ASSUME NEW s \in Side
             PROVE  LET t == tunnel[s]
                        queue == IF outPacket[s] = NULL THEN t.pendingOut
                                 ELSE Append(t.pendingOut, outPacket[s])
                    IN /\ \A k \in 1..Len(queue) :
                            queue[k] = [sequence |-> Plus(t.next, k - 1),
                                        data |-> Transmitted(s) + k]
                       /\ t.sequence = Plus(t.next, Len(queue))
  BY DEF QueueContinuesWindow
<1> DEFINE t == tunnel[s]
           n == Len(t.pendingOut)
           queue == IF outPacket[s] = NULL THEN t.pendingOut
                    ELSE Append(t.pendingOut, outPacket[s])
<1>1. /\ t \in TunnelRecord /\ submitted[s] \in Position /\ submitted[s] \in Nat
      /\ t.next \in Nat /\ Sender(t, submitted[s], Hand(s))
      /\ outPacket[s] # NULL => outPacket[s] = PacketAt(submitted[s] - 1)
  BY SideFacts
<1>2. t.pendingOut \in Seq(Packet) /\ n \in Nat
  BY <1>1, Fields
<1>3. /\ t.sequence = submitted[s] /\ t.next + n + Hand(s) = submitted[s]
      /\ \A k \in 1..n : t.pendingOut[k] = PacketAt(t.next + k - 1)
  BY <1>1 DEF Sender
<1>4. outPacket[s] \in Packet \cup {NULL}
  BY DEF Safe, TypeOK
<1>5. Transmitted(s) = t.next
  BY Counters
<1> HIDE DEF t
<1>6. /\ Len(queue) = n + Hand(s)
      /\ \A k \in 1..(n + Hand(s)) : queue[k] = PacketAt(t.next + k - 1)
  <2>1. CASE outPacket[s] = NULL
    <3>1. Hand(s) = 0 /\ queue = t.pendingOut
      BY <2>1 DEF Hand
    <3>2. n + 0 = n
      BY <1>2
    <3> QED
      BY <1>3, <3>1, <3>2
  <2>2. CASE outPacket[s] # NULL
    <3>1. Hand(s) = 1 /\ outPacket[s] \in Packet /\ queue = Append(t.pendingOut, outPacket[s])
      BY <1>4, <2>2 DEF Hand
    <3>2. /\ Len(queue) = n + 1
          /\ \A k \in 1..n : queue[k] = t.pendingOut[k]
          /\ queue[n + 1] = outPacket[s]
      BY <1>2, <3>1, AppendProperties
    <3> HIDE DEF queue, n
    <3>3. t.next + n + 1 = submitted[s]
      BY <1>3, <3>1
    <3>4. t.next + (n + 1) - 1 = submitted[s] - 1
      BY <1>1, <1>2, <3>3
    <3>5. ASSUME NEW k \in 1..(n + 1)
          PROVE  queue[k] = PacketAt(t.next + k - 1)
      <4>1. CASE k = n + 1
        BY <1>1, <2>2, <3>2, <3>4, <4>1
      <4>2. CASE k \in 1..n
        BY <1>3, <3>2, <4>2
      <4> QED
        BY <1>2, <4>1, <4>2
    <3> QED
      BY <3>1, <3>2, <3>5
  <2> QED
    BY <2>1, <2>2
<1>7. Hand(s) \in Nat
  BY DEF Hand
<1> HIDE DEF queue, n
<1>8. ASSUME NEW k \in 0..Len(queue)
      PROVE  Plus(t.next, k) = t.next + k
  <2>1. k \in Nat /\ t.next + k \in Nat /\ t.next + k <= submitted[s]
    <3>1. Len(queue) = n + Hand(s) /\ t.next + n + Hand(s) = submitted[s]
      BY <1>3, <1>6
    <3> QED
      BY <1>1, <1>2, <1>7, <3>1
  <2>2. t.next + k < Word
    BY <1>1, <2>1, Positions
  <2> QED
    BY <1>1, <2>1, <2>2, NoWrapArithmetic
<1>9. ASSUME NEW k \in 1..Len(queue)
      PROVE  queue[k] = [sequence |-> Plus(t.next, k - 1), data |-> Transmitted(s) + k]
  <2>1. k - 1 \in 0..Len(queue) /\ t.next + (k - 1) = t.next + k - 1
        /\ (t.next + k - 1) + 1 = t.next + k
    BY <1>1, <1>2, <1>6, <1>7
  <2>2. queue[k] = PacketAt(t.next + k - 1)
    BY <1>6
  <2>3. Plus(t.next, k - 1) = t.next + k - 1
    BY <1>8, <2>1
  <2> QED
    BY <1>5, <2>1, <2>2, <2>3 DEF PacketAt
<1>10. t.sequence = Plus(t.next, Len(queue))
  <2>1. Len(queue) \in 0..Len(queue) /\ Len(queue) = n + Hand(s)
    BY <1>2, <1>6, <1>7
  <2>2. Plus(t.next, Len(queue)) = t.next + Len(queue)
    BY <1>8, <2>1
  <2>3. t.sequence = t.next + n + Hand(s)
    BY <1>3
  <2> QED
    BY <1>1, <1>2, <1>7, <2>1, <2>2, <2>3
<1> QED
  BY <1>9, <1>10 DEF t, queue

LEMMA SafeImpliesEarly ==
  ASSUME NoWrap, Safe
  PROVE  EarlyPacketsInPlace
<1> SUFFICES ASSUME NEW s \in Side, NEW i \in Slots, tunnel[s].incoming[i] # NULL
             PROVE  LET t == tunnel[s]
                        d == Offset(i, t.acknowledge)
                    IN /\ d > 0
                       /\ t.incoming[i] = [sequence |-> Plus(t.acknowledge, d),
                                           data |-> Len(Received(s)) + d + 1]
                       /\ t.incoming[i].data <= Transmitted(Peer(s))
  BY DEF EarlyPacketsInPlace
<1> DEFINE t == tunnel[s]
           d == Offset(i, t.acknowledge)
           bound == tunnel[Peer(s)].next
           n == t.acknowledge + d
<1>1. t.acknowledge \in Nat /\ bound \in Position /\ bound \in Nat
  BY PeerType, SideFacts
<1>2. d > 0 /\ t.incoming[i] = PacketAt(n) /\ n < bound
  BY SideFacts DEF Receiver
<1>3. Len(Received(s)) = t.acknowledge /\ Transmitted(Peer(s)) = bound
  BY PeerType, Counters
<1>4. d \in Nat
  <2>1. i \in Int /\ t.acknowledge \in Int
    BY <1>1, WordsSlotsInt
  <2>2. d \in Slots
    BY <2>1, WordArithmetic
  <2> QED
    BY <2>2, WordsSlotsInt
<1> HIDE DEF t, d, bound
<1>5. n \in Nat /\ n < Word /\ n + 1 <= bound
  <2>1. n \in Nat /\ n <= bound /\ n + 1 <= bound
    BY <1>1, <1>2, <1>4
  <2> QED
    BY <1>1, <2>1, Positions
<1>6. Plus(t.acknowledge, d) = n
  BY <1>1, <1>4, <1>5, NoWrapArithmetic
<1>7. t.incoming[i] = [sequence |-> Plus(t.acknowledge, d), data |-> Len(Received(s)) + d + 1]
  BY <1>2, <1>3, <1>6 DEF PacketAt
<1>8. t.incoming[i].data <= Transmitted(Peer(s))
  <2>1. t.incoming[i].data = n + 1
    BY <1>2, <1>5, PacketAtType
  <2> QED
    BY <1>3, <1>5, <2>1
<1> QED
  BY <1>2, <1>7, <1>8 DEF t, d

\* No packet is on the window and on the queue at once: those on the window were
\* stamped below next, those queued from next on.
LEMMA SafeUnlists ==
  ASSUME NoWrap, Safe, NEW s \in Side, NEW i \in Slots,
         tunnel[s].reliabilityWindow[i] # NULL,
         NEW k \in 1..Len(tunnel[s].pendingOut)
  PROVE  tunnel[s].pendingOut[k] # tunnel[s].reliabilityWindow[i]
<1> DEFINE t == tunnel[s]
           o == Offset(i, t.start)
<1>1. t.start \in Nat /\ t.next \in Nat /\ t \in TunnelRecord
  BY SideFacts
<1>2. /\ t.reliabilityWindow[i] = PacketAt(t.start + o) /\ o < t.next - t.start
      /\ t.pendingOut[k] = PacketAt(t.next + k - 1)
  BY SideFacts DEF Sender
<1>3. o \in Nat
  <2>1. i \in Int /\ t.start \in Int
    BY <1>1, WordsSlotsInt
  <2>2. o \in Slots
    BY <2>1, WordArithmetic
  <2> QED
    BY <2>2, WordsSlotsInt
<1>4. k \in Nat /\ k >= 1
  BY <1>1, Fields
<1> HIDE DEF t, o
<1>5. t.start + o \in Nat /\ t.next + k - 1 \in Nat /\ t.start + o # t.next + k - 1
  BY <1>1, <1>2, <1>3, <1>4
<1>6. PacketAt(t.start + o).sequence = t.start + o
      /\ PacketAt(t.next + k - 1).sequence = t.next + k - 1
  BY <1>5, PacketAtType
<1>7. PacketAt(t.start + o) # PacketAt(t.next + k - 1)
  BY <1>5, <1>6
<1> QED
  BY <1>2, <1>7 DEF t

\* What a side takes in is the peer's stream from its beginning, without gap,
\* duplicate or swap, and nothing is taken in that the peer has not transmitted
\* (tunnelIsNewPacket, tunnelIsWaiting, netInterfaceReceivePacket).
THEOREM DeliveryInOrder ==
  ASSUME NoWrap, ~SendMayFail
  PROVE  Spec => []InOrderDelivery
<1>1. Safe => InOrderDelivery
  BY SafeImpliesDelivery
<1> QED
  BY <1>1, SafeAlways, PTL

\* No acknowledgement, however late or often it arrives, frees a packet that the
\* peer has not taken in (tunnelIsNewPacket, _tunnelReliabilityWindowDiff).
THEOREM ReleaseIsSafe ==
  ASSUME NoWrap, ~SendMayFail
  PROVE  Spec => []NoPrematureRelease
<1>1. Safe => NoPrematureRelease
  BY SafeImpliesDelivery
<1> QED
  BY <1>1, SafeAlways, PTL

\* The window holds exactly the packets outstanding, each in the slot of its
\* sequence number, and no more than WindowSize of them (_tunnelSend,
\* tunnelIsNewPacket).
THEOREM WindowIsExact ==
  ASSUME NoWrap, ~SendMayFail
  PROVE  Spec => []WindowHoldsUnacknowledged
<1>1. Safe => WindowHoldsUnacknowledged
  BY SafeImpliesWindow
<1> QED
  BY <1>1, SafeAlways, PTL

\* What waits in the queue and in the hands of tunnelOut continues the window
\* without a gap in the numbers (tunnelPacketCreate, tunnelOut, tunnelSendBacklog).
THEOREM QueueIsInOrder ==
  ASSUME NoWrap, ~SendMayFail
  PROVE  Spec => []QueueContinuesWindow
<1>1. Safe => QueueContinuesWindow
  BY SafeImpliesQueue
<1> QED
  BY <1>1, SafeAlways, PTL

\* A packet kept early is the peer's packet of that number, in the slot where it
\* will be looked for, and never the one expected next (tunnelIsNewPacket).
THEOREM EarlyPacketsWait ==
  ASSUME NoWrap, ~SendMayFail
  PROVE  Spec => []EarlyPacketsInPlace
<1>1. Safe => EarlyPacketsInPlace
  BY SafeImpliesEarly
<1> QED
  BY <1>1, SafeAlways, PTL

\* ASSERT(list_empty(&rw->packet->_packetList)) of tunnelIsNewPacket holds whenever
\* a packet is freed, as long as netInterfaceSend does not fail.
THEOREM FreedPacketsAreUnlisted ==
  ASSUME NoWrap, ~SendMayFail
  PROVE  Spec => FreedPacketUnlisted
<1>1. Safe /\ [Next]_vars =>
        [\A s \in Side : \A i \in Slots :
           LET p == tunnel[s].reliabilityWindow[i] IN
             p # NULL /\ tunnel'[s].reliabilityWindow[i] = NULL
               => \A k \in 1..Len(tunnel[s].pendingOut) : tunnel[s].pendingOut[k] # p]_vars
  BY SafeUnlists
<1> QED
  BY <1>1, SafeAlways, PTL DEF Spec, FreedPacketUnlisted

-----------------------------------------------------------------------------
(* The refinement.                                                         *)

LEMMA ChannelInit == Init => Channel!Init
<1> SUFFICES ASSUME Init PROVE Channel!Init
  OBVIOUS
<1>1. ASSUME NEW s \in Side
      PROVE  Transmitted(s) = 0 /\ Released(s) = 0 /\ Received(s) = <<>>
  <2>1. /\ tunnel[s] = NewTunnel /\ outPacket[s] = NULL /\ submitted[s] = 0
        /\ delivered[s] = <<>> /\ pendingIn[s] = <<>>
    BY DEF Init
  <2>2. NewTunnel.start = 0 /\ NewTunnel.next = 0 /\ NewTunnel.pendingOut = <<>>
    BY DEF NewTunnel
  <2>3. Minus(0, 0) = 0
    <3>1. 0 < Word
      BY Constants
    <3> QED
      BY <3>1, NoWrapArithmetic
  <2>4. InFlight(tunnel[s]) = 0
    BY <2>1, <2>2, <2>3 DEF InFlight
  <2>5. Transmitted(s) = 0
    <3>1. Len(tunnel[s].pendingOut) = 0
      BY <2>1, <2>2
    <3>2. Transmitted(s) = 0 - 0 - 0
      BY <2>1, <3>1 DEF Transmitted
    <3> QED
      BY <3>2
  <2>6. Released(s) = 0
    BY <2>4, <2>5 DEF Released
  <2> QED
    BY <2>1, <2>5, <2>6 DEF Received
<1>2. submitted = [s \in Side |-> 0]
  BY DEF Init
<1>3. Channel!Side = Side
  BY DEF Channel!Side, Side
<1> QED
  BY <1>1, <1>2, <1>3 DEF Channel!Init

\* In a safe state the channel's counters are the tunnel's.
Counted ==
  \A s \in Side :
    /\ Transmitted(s) = tunnel[s].next
    /\ Released(s) = tunnel[s].start
    /\ Len(Received(s)) = tunnel[s].acknowledge

LEMMA SafeCounted == NoWrap /\ Safe => Counted
BY Counters DEF Counted

LEMMA ChannelStep ==
  ASSUME NoWrap, ~SendMayFail, Safe, Safe', Counted, Counted', Next
  PROVE  Channel!Next
<1> DEFINE T == [q \in Side |-> Transmitted(q)]
           R == [q \in Side |-> Released(q)]
           H == [q \in Side |-> Received(q)]
<1>1. PICK s \in Side :
        \/ Send(s) \/ Pending(s) \/ Process(s) \/ Incoming(s) \/ Lose(s)
        \/ FinishPending(s) \/ FinishOut(s)
  BY DEF Next
<1>2. SafeMove(s)
  BY <1>1, SendMoves, QuietMoves, IncomingMoves, FinishPendingMoves, FinishOutMoves DEF Safe
<1> DEFINE p == Peer(s)
           r == tunnel'[s].start
           n == tunnel'[s].next
           d == tunnel'[s].acknowledge
<1>3. /\ p \in Side /\ p # s /\ \A q \in Side : q = s \/ q = p
      /\ Channel!Peer(s) = p /\ Channel!Side = Side
  BY DEF Side, Peer, Channel!Peer, Channel!Side
<1>4. /\ Transmitted(s)' = n /\ Released(s)' = r
      /\ Transmitted(p)' = tunnel'[p].next /\ Released(p)' = tunnel'[p].start
  BY <1>3 DEF Counted
<1>5. /\ Transmitted(s) = tunnel[s].next /\ Released(s) = tunnel[s].start
      /\ Len(Received(s)) = tunnel[s].acknowledge
      /\ Transmitted(p) = tunnel[p].next /\ Released(p) = tunnel[p].start
      /\ Len(Received(p)) = tunnel[p].acknowledge
  BY <1>3 DEF Counted
<1>6. /\ tunnel'[p] = tunnel[p] /\ Received(p)' = Received(p)
      /\ tunnel[s].start <= r /\ tunnel[s].next <= n /\ tunnel[s].acknowledge <= d
      /\ r <= tunnel[p].acknowledge
      /\ Received(s)' = [i \in 1..d |-> i]
      /\ d <= tunnel[p].next
  BY <1>2 DEF SafeMove, Receiver
<1>7. /\ tunnel[s].start \in Nat /\ tunnel[s].next \in Nat /\ tunnel[s].acknowledge \in Nat
      /\ tunnel[p].acknowledge \in Nat /\ tunnel[p].next \in Nat
      /\ submitted[s] \in Nat /\ submitted[s] <= Limit[s]
  BY <1>3, SideFacts
<1>8. r \in Nat /\ n \in Nat /\ d \in Nat
  <2>1. tunnel'[s] \in TunnelRecord
    BY DEF Safe, TypeOK
  <2> QED
    BY <2>1, Fields, WordsSlotsInt
<1>9. n - r <= WindowSize
  BY <1>2 DEF SafeMove, Sender
<1> HIDE DEF p, r, n, d
<1>10. /\ T[s] = tunnel[s].next /\ R[s] = tunnel[s].start /\ H[s] = Received(s)
       /\ T[p] = tunnel[p].next /\ H[p] = Received(p)
  BY <1>3, <1>5
<1>11. T' = [T EXCEPT ![s] = n]
  BY <1>3, <1>4, <1>5, <1>6
<1>12. R' = [R EXCEPT ![s] = r]
  BY <1>3, <1>4, <1>5, <1>6
<1>13. H' = [H EXCEPT ![s] = [i \in 1..d |-> i]]
  BY <1>3, <1>6
<1>14. CASE Send(s)
  <2>1. submitted' = [submitted EXCEPT ![s] = @ + 1]
    BY <1>14 DEF Send
  <2>2. n = tunnel[s].next /\ r = tunnel[s].start /\ Received(s)' = Received(s)
    <3>1. tunnel[s] \in TunnelRecord
      BY DEF Safe, TypeOK
    <3>2. tunnel'[s] = [tunnel[s] EXCEPT !.sequence = Plus(@, 1)]
      BY <1>14 DEF Send, Safe, TypeOK
    <3>3. pendingIn' = pendingIn /\ delivered' = delivered
      BY <1>14 DEF Send
    <3> QED
      BY <3>1, <3>2, <3>3 DEF TunnelRecord, Received, n, r
  <2>3. T' = T /\ R' = R
    BY <1>3, <1>4, <1>5, <1>6, <2>2
  <2>4. H' = H
    BY <1>3, <1>6, <2>2
  <2>5. Channel!Submit(s)
    BY <2>1, <2>3, <2>4 DEF Channel!Submit
  <2> QED
    BY <1>3, <2>5 DEF Channel!Next
<1>15. CASE ~Send(s)
  <2>1. submitted' = submitted
    BY <1>1, <1>15 DEF Pending, Process, Incoming, IncomingOne, Lose, FinishPending,
                       FlushPending, FinishOut
  <2>2. n <= submitted[s]
    <3>1. Transmitted(s)' <= submitted'[s]
      <4>1. /\ tunnel'[s] \in TunnelRecord /\ submitted'[s] \in Nat
        BY DEF Safe, TypeOK
      <4>2. Len(tunnel'[s].pendingOut) \in Nat /\ Hand(s)' \in Nat
        BY <4>1, Fields DEF Hand
      <4>3. n + Len(tunnel'[s].pendingOut) + Hand(s)' = submitted'[s]
        BY <1>2 DEF SafeMove, Sender, n
      <4> QED
        BY <1>4, <1>8, <4>1, <4>2, <4>3
    <3> QED
      BY <1>4, <2>1, <3>1
  <2>3. /\ r \in R[s]..Len(H[p])
        /\ n \in T[s]..submitted[s]
        /\ d \in Len(H[s])..T[p]
    BY <1>5, <1>6, <1>7, <1>8, <1>10, <2>2
  <2>4. Channel!Progress(s)
    BY <1>3, <1>9, <1>11, <1>12, <1>13, <2>1, <2>3 DEF Channel!Progress
  <2> QED
    BY <1>3, <2>4 DEF Channel!Next
<1> QED
  BY <1>14, <1>15

\* The reliability layer implements the reliable channel: every step of the code
\* either hands over one packet more, or frees, transmits and takes in packets as
\* ReliableChannel allows, or does nothing the layer above can see.
THEOREM TunnelImplementsChannel ==
  ASSUME NoWrap, ~SendMayFail
  PROVE  Spec => ImplementsChannel
<1>1. Safe => Counted
  BY SafeCounted
<1>2. Safe /\ Safe' /\ Counted /\ Counted' /\ [Next]_vars
        => [Channel!Next]_(Channel!channelVars)
  <2>1. CASE Next
    BY <2>1, ChannelStep
  <2>2. CASE UNCHANGED vars
    BY <2>2 DEF vars, Channel!channelVars, Transmitted, Released, Received
  <2> QED
    BY <2>1, <2>2
<1> QED
  BY <1>1, <1>2, ChannelInit, SafeAlways, PTL DEF Spec, ImplementsChannel, Channel!Spec
=============================================================================
