------------------------------- MODULE Tunnel -------------------------------
(***************************************************************************)
(* The reliability layer of an Ethos tunnel (rpc/libnetStack/lib/tunnel.c, *)
(* with the interface loop of netInterface.c and netInterfacePosix.c that  *)
(* drives it): sequence numbers, cumulative acknowledgements, the sliding  *)
(* send window, the reassembly buffer for early packets, the queue of      *)
(* packets that do not fit the window, empty acknowledgement packets and   *)
(* retransmission.                                                         *)
(*                                                                         *)
(* Two hosts share one tunnel.  Each host is single threaded, but a call   *)
(* of tunnelOut or netInterfacePending reads the socket in the middle, so  *)
(* a host's operation is cut exactly at the recvfrom calls of its drain    *)
(* loop; pc says which loop the host is in.                                *)
(*                                                                         *)
(* A payload is its position in the sender's stream (1, 2, ...); 0 stands  *)
(* for a packet without data.  Retransmission timers are abstracted: any   *)
(* packet on the window may be found expired (module RetransmitTimer has   *)
(* the timers themselves).                                                 *)
(***************************************************************************)
EXTENDS Integers, Sequences, FiniteSets, SequencesExt

CONSTANTS
  WindowSize,      \* ReliabilityWindowSize (128)
  Word,            \* 2^32: sequence numbers are uint32
  Limit,           \* bound: Limit[s] packets are submitted by side s
  Ordered,         \* TRUE: crypto headers; the nonce check makes frames arrive
                   \*   in order, without duplicates, but with losses
                   \* FALSE: frames may also be duplicated and reordered
  Capacity,        \* bound: frames an ordered network holds; the oldest are lost
  DeviceMayBlock,  \* TRUE: netInterfaceSendFull may hold (never so on POSIX)
  SendMayFail      \* TRUE: netInterfaceSend may fail (envelopeCreate returns
                   \*   false when the frame cannot be encrypted)

Side == {0, 1}             \* envelopeRemote.oddSide
Peer(s) == 1 - s

ASSUME TunnelAssumption ==
  /\ WindowSize \in Nat \ {0}
  /\ Word \in Nat
  /\ \E k \in 2..Word : Word = k * WindowSize
  /\ Limit \in [Side -> Nat]
  /\ Capacity \in Nat \ {0}
  /\ Ordered \in BOOLEAN
  /\ DeviceMayBlock \in BOOLEAN
  /\ SendMayFail \in BOOLEAN

VARIABLES
  tunnel,          \* tunnel[s]: the Tunnel_S of side s
  pc,              \* pc[s]: where side s is in its interface loop
  outPacket,       \* outPacket[s]: the packet tunnelOut has in hand
  pendingIn,       \* pendingIn[s]: ni->pendingIn, the payloads received in order
  delivered,       \* delivered[s]: history of payloads given to the connections
  submitted,       \* submitted[s]: history, number of packets given to tunnelOut
  net              \* net[s]: frames on their way from s to its peer

vars == <<tunnel, pc, outPacket, pendingIn, delivered, submitted, net>>

-----------------------------------------------------------------------------
(* Words, slots, packets and frames.                                       *)

Words == 0..(Word - 1)
Slots == 0..(WindowSize - 1)

\* Mutant: arithmetic wider than the uint32 of the header.
PlusWide(a, b) == a + b

Plus(a, b)  == (a + b) % Word          \* uint32 addition
Minus(a, b) == (a - b) % Word          \* uint32 subtraction
Slot(n)     == n % WindowSize

NoData == 0
Packet == [sequence : Words, data : Nat \ {NoData}]
NULL   == [sequence |-> 0, data |-> NoData]        \* a null Packet *
Frame  == [sequence : Words, acknowledge : Words, data : Nat]

Lesser(a, b) == IF a < b THEN a ELSE b

\* A frame carries the acknowledgement of the moment it is sent
\* (tunnelSetAcknowledge), whatever the packet was stamped with.
FrameOf(t, packet) ==
  [sequence |-> packet.sequence, acknowledge |-> t.acknowledge, data |-> packet.data]

EmptyFrame(t) ==
  [sequence |-> t.sequence, acknowledge |-> t.acknowledge, data |-> NoData]

InFlight(t) == Minus(t.next, t.start)
\* Mutant: > for >= in the comparison of _tunnelSend.
RoomOffByOne(t) == IF InFlight(t) > WindowSize THEN 0 ELSE WindowSize + 1 - InFlight(t)

Room(t) == IF InFlight(t) >= WindowSize THEN 0 ELSE WindowSize - InFlight(t)

\* Position of slot i in a window that begins at sequence number n.
Offset(i, n) == (i - n) % WindowSize

-----------------------------------------------------------------------------
(* Sending.  The outcomes of a function that sends are a set of records    *)
(* [tunnel, frames]: the tunnel it leaves and the frames it emits.         *)

\* _tunnelSend called on up to n packets that fit: how many are put on the
\* window and how many leave the host.  A full device stops the loop before a
\* packet is placed, a failed netInterfaceSend after it is placed.
Attempts(n) ==
  {<<n, n>>}
    \cup (IF DeviceMayBlock THEN {<<k, k>> : k \in 0..n} ELSE {})
    \cup (IF SendMayFail THEN {<<k, k - 1>> : k \in 1..n} ELSE {})

\* Mutant: the packet stays on its list (no packetRemoveFromList).
PlaceKeepsListed(t, n) ==
  [t EXCEPT
    !.reliabilityWindow = [i \in Slots |-> IF Offset(i, t.next) < n
                                           THEN t.pendingOut[Offset(i, t.next) + 1]
                                           ELSE @[i]],
    !.next = Plus(@, n)]

\* The first n packets of pendingOut move to the window.
Place(t, n) ==
  [t EXCEPT
    !.reliabilityWindow = [i \in Slots |-> IF Offset(i, t.next) < n
                                           THEN t.pendingOut[Offset(i, t.next) + 1]
                                           ELSE @[i]],
    !.next = Plus(@, n),
    !.pendingOut = SubSeq(@, n + 1, Len(@)),
    !.unackedPacket = IF n > 0 THEN FALSE ELSE @]

\* Mutant: unackedPacket is cleared whether or not the packet was sent.
SendEmptyForgets(t) ==
  { [tunnel |-> [t EXCEPT !.unackedPacket = FALSE],
     frames |-> IF a[2] = 1 THEN <<EmptyFrame(t)>> ELSE <<>>]
      : a \in Attempts(Lesser(1, Room(t))) }

\* _tunnelSend of an empty packet: it needs room in the window like any other.
SendEmpty(t) ==
  { [tunnel |-> [t EXCEPT !.unackedPacket = IF a[1] = 1 THEN FALSE ELSE @],
     frames |-> IF a[2] = 1 THEN <<EmptyFrame(t)>> ELSE <<>>]
      : a \in Attempts(Lesser(1, Room(t))) }

\* tunnelSendBacklog: queued packets while they fit; an empty acknowledgement
\* only if there was nothing queued.
SendBacklog(t) ==
  IF t.pendingOut # <<>>
  THEN { [tunnel |-> Place(t, a[1]),
          frames |-> [i \in 1..a[2] |-> FrameOf(t, t.pendingOut[i])]]
           : a \in Attempts(Lesser(Len(t.pendingOut), Room(t))) }
  ELSE IF t.unackedPacket
  THEN SendEmpty(t)
  ELSE {[tunnel |-> t, frames |-> <<>>]}

\* The tail of tunnelOut on a packet when nothing is queued before it.
SendOrQueue(t, packet) ==
  LET queued == [t EXCEPT !.pendingOut = <<packet>>]
  IN { [tunnel |-> IF a[2] = 1
                   THEN Place(queued, 1)
                   ELSE [(IF a[1] = 1 THEN Place(queued, 1) ELSE t)
                           EXCEPT !.pendingOut = <<packet>>, !.hasPendingOut = TRUE],
        frames |-> IF a[2] = 1 THEN <<FrameOf(t, packet)>> ELSE <<>>]
         : a \in Attempts(Lesser(1, Room(t))) }

\* Mutant: the packet in hand does not wait for those queued before it.
SendOutOvertakes(t, packet) ==
  UNION { { [c EXCEPT !.frames = b.frames \o @,
                      !.tunnel.pendingOut = @ \o b.tunnel.pendingOut]
              : c \in SendOrQueue(b.tunnel, packet) } : b \in SendBacklog(t) }

\* tunnelOut after it has drained the interface.
SendOut(t, packet) ==
  UNION { IF b.tunnel.pendingOut # <<>>
          THEN {[b EXCEPT !.tunnel.pendingOut = Append(@, packet),
                          !.tunnel.hasPendingOut = TRUE]}
          ELSE { [c EXCEPT !.frames = b.frames \o @] : c \in SendOrQueue(b.tunnel, packet) }
            : b \in SendBacklog(t) }

\* tunnelResend: the packets of the expired slots, in the order of the list.
\* Every frame carries the latest acknowledgement.
Occupied(t) == {i \in Slots : t.reliabilityWindow[i] # NULL}

\* Mutant: the packet goes out as it was stamped, without tunnelSetAcknowledge.
ResendAsStamped(t, expired) ==
  [tunnel |-> t,
   frames |-> [k \in 1..Len(expired) |->
                [FrameOf(t, t.reliabilityWindow[expired[k]]) EXCEPT !.acknowledge = 0]]]

Resend(t, expired) ==
  [tunnel |-> [t EXCEPT !.unackedPacket = IF expired = <<>> THEN @ ELSE FALSE],
   frames |-> [k \in 1..Len(expired) |-> FrameOf(t, t.reliabilityWindow[expired[k]])]]

\* netInterfacePending after its drain loop: resend, then the tunnel's backlog if
\* the tunnel is on the interface's list, from which it is removed.
Flush(t, expired) ==
  LET r == Resend(t, expired)
  IN IF t.hasPendingOut
     THEN { [tunnel |-> [b.tunnel EXCEPT !.hasPendingOut = FALSE],
             frames |-> r.frames \o b.frames] : b \in SendBacklog(r.tunnel) }
     ELSE {r}

-----------------------------------------------------------------------------
(* Receiving.  Outcomes also say whether the packet was new, and which     *)
(* payloads it lets through to pendingIn.                                  *)

\* Mutant: a stale acknowledgement is not recognised.
WindowDiffUnchecked(diff) == diff

\* _tunnelReliabilityWindowDiff
WindowDiff(diff) == IF diff > WindowSize THEN 0 ELSE diff

\* Mutant: acknowledge taken for the "highest sequence number received".
AcknowledgedInclusive(t, acknowledge) ==
  LET acked == WindowDiff(Minus(acknowledge, t.start) + 1)
  IN [t EXCEPT
       !.start = Plus(@, acked),
       !.reliabilityWindow = [i \in Slots |-> IF Offset(i, t.start) < acked
                                              THEN NULL ELSE @[i]]]

\* tunnelIsNewPacket, first half: the acknowledgement in the frame frees the
\* packets at the start of the window.
Acknowledged(t, acknowledge) ==
  LET acked == WindowDiff(Minus(acknowledge, t.start))
  IN [t EXCEPT
       !.start = Plus(@, acked),
       !.reliabilityWindow = [i \in Slots |-> IF Offset(i, t.start) < acked
                                              THEN NULL ELSE @[i]]]

\* How many packets waiting in incoming follow without a gap (tunnelIsWaiting,
\* called until it returns NULL): a set with one element.
Waiting(t) ==
  {n \in 0..WindowSize :
    /\ \A j \in 0..(n - 1) : t.incoming[Slot(Plus(t.acknowledge, j))] # NULL
    /\ n < WindowSize => t.incoming[Slot(Plus(t.acknowledge, n))] = NULL}

\* Mutant: the slots are not set to NULL as their packets are taken.
TakeWaitingKeepsSlots(t, n) == [t EXCEPT !.acknowledge = Plus(@, n)]

TakeWaiting(t, n) ==
  [t EXCEPT
    !.acknowledge = Plus(@, n),
    !.incoming = [i \in Slots |-> IF Offset(i, t.acknowledge) < n THEN NULL ELSE @[i]]]

\* A packet in sequence: acknowledge it, append it and those it released to
\* pendingIn, and send the backlog if it released any (netInterfaceReceivePacket).
Accept(t, data) ==
  LET u == [t EXCEPT !.acknowledge = Plus(@, 1)]
      payloads(n) == <<data>> \o
        [k \in 1..n |-> u.incoming[Slot(Plus(u.acknowledge, k - 1))].data]
      sent(n) == IF n > 0 THEN SendBacklog(TakeWaiting(u, n))
                 ELSE {[tunnel |-> u, frames |-> <<>>]}
  IN UNION { { [tunnel |-> b.tunnel, frames |-> b.frames, new |-> TRUE,
                payloads |-> payloads(n)] : b \in sent(n) } : n \in Waiting(u) }

\* Mutant: <= for <, the window of early packets is one too wide.
DiscardTooWide(t, frame, wasUnacked) ==
  LET ahead == frame.sequence > t.acknowledge
      early == ahead /\ frame.sequence - t.acknowledge <= WindowSize
      kept  == [t EXCEPT !.incoming[Slot(frame.sequence)] =
                  [sequence |-> frame.sequence, data |-> frame.data]]
  IN {[tunnel |-> IF early THEN kept ELSE t, frames |-> <<>>,
       new |-> FALSE, payloads |-> <<>>]}

\* A packet out of sequence: kept if it is early and within the window; if it
\* is old while an acknowledgement is owed and nothing is in flight, an empty
\* acknowledgement goes out at once.
Discard(t, frame, wasUnacked) ==
  LET ahead == frame.sequence > t.acknowledge
      early == ahead /\ frame.sequence - t.acknowledge < WindowSize
      kept  == [t EXCEPT !.incoming[Slot(frame.sequence)] =
                  [sequence |-> frame.sequence, data |-> frame.data]]
  IN { [tunnel |-> b.tunnel, frames |-> b.frames, new |-> FALSE, payloads |-> <<>>]
         : b \in IF early THEN {[tunnel |-> kept, frames |-> <<>>]}
                 ELSE IF ~ahead /\ wasUnacked /\ t.start = t.next THEN SendEmpty(t)
                 ELSE {[tunnel |-> t, frames |-> <<>>]} }

\* Mutant: the tunnel is not put on the list tunnelHasPendingOut.
ReceiveUnlisted(t, frame) ==
  LET noted == [t EXCEPT !.unackedPacket = @ \/ frame.data # NoData]
      u == Acknowledged(noted, frame.acknowledge)
  IN IF frame.data = NoData
     THEN {[tunnel |-> u, frames |-> <<>>, new |-> FALSE, payloads |-> <<>>]}
     ELSE IF frame.sequence = u.acknowledge
     THEN Accept(u, frame.data)
     ELSE Discard(u, frame, t.unackedPacket)

\* Mutant: whatever is not old is taken as the next packet.
ReceiveSkipsGaps(t, frame) ==
  LET noted == [t EXCEPT !.unackedPacket = @ \/ frame.data # NoData,
                         !.hasPendingOut = TRUE]
      u == Acknowledged(noted, frame.acknowledge)
  IN IF frame.data = NoData
     THEN {[tunnel |-> u, frames |-> <<>>, new |-> FALSE, payloads |-> <<>>]}
     ELSE IF frame.sequence >= u.acknowledge
     THEN Accept(u, frame.data)
     ELSE Discard(u, frame, t.unackedPacket)

\* envelopeOpenStartingAtCrypto -> tunnelIsNewPacket -> netInterfaceReceivePacket
Receive(t, frame) ==
  LET noted == [t EXCEPT !.unackedPacket = @ \/ frame.data # NoData,
                         !.hasPendingOut = TRUE]
      u == Acknowledged(noted, frame.acknowledge)
  IN IF frame.data = NoData
     THEN {[tunnel |-> u, frames |-> <<>>, new |-> FALSE, payloads |-> <<>>]}
     ELSE IF frame.sequence = u.acknowledge
     THEN Accept(u, frame.data)
     ELSE Discard(u, frame, t.unackedPacket)

-----------------------------------------------------------------------------
(* The network.                                                            *)

EmptyNet == IF Ordered THEN <<>> ELSE {}
Frames(n) == IF Ordered THEN {n[i] : i \in 1..Len(n)} ELSE n

Carry(n, frames) ==
  IF Ordered
  THEN LET all == n \o frames IN
         SubSeq(all, IF Len(all) > Capacity THEN Len(all) - Capacity + 1 ELSE 1, Len(all))
  ELSE n \cup {frames[i] : i \in 1..Len(frames)}

\* A frame that may arrive and the network it leaves behind.  In an ordered
\* network the frames overtaken are gone: their nonce is now too old.
Arrivals(n) ==
  IF Ordered
  THEN {[frame |-> n[i], rest |-> SubSeq(n, i + 1, Len(n))] : i \in 1..Len(n)}
  ELSE {[frame |-> m, rest |-> n] : m \in n}

-----------------------------------------------------------------------------
(* The hosts.                                                              *)

\* _tunnelInitialize: memzero and empty lists
NewTunnel ==
  [start |-> 0, next |-> 0, sequence |-> 0, acknowledge |-> 0,
   unackedPacket |-> FALSE, hasPendingOut |-> FALSE,
   reliabilityWindow |-> [i \in Slots |-> NULL],
   incoming |-> [i \in Slots |-> NULL],
   pendingOut |-> <<>>]

Init ==
  /\ tunnel    = [s \in Side |-> NewTunnel]
  /\ pc        = [s \in Side |-> "idle"]
  /\ outPacket = [s \in Side |-> NULL]
  /\ pendingIn = [s \in Side |-> <<>>]
  /\ delivered = [s \in Side |-> <<>>]
  /\ submitted = [s \in Side |-> 0]
  /\ net       = [s \in Side |-> EmptyNet]

\* tunnelPacketCreate, then the beginning of tunnelOut.  The static count that
\* chooses the loop is shared by all tunnels of the host: either choice.
Send(s) ==
  /\ pc[s] = "idle"
  /\ submitted[s] < Limit[s]
  /\ outPacket' = [outPacket EXCEPT ![s] = [sequence |-> tunnel[s].sequence,
                                            data |-> submitted[s] + 1]]
  /\ tunnel' = [tunnel EXCEPT ![s].sequence = Plus(@, 1)]
  /\ submitted' = [submitted EXCEPT ![s] = @ + 1]
  /\ \E loop \in {"incoming", "pending"} : pc' = [pc EXCEPT ![s] = loop]
  /\ UNCHANGED <<pendingIn, delivered, net>>

\* netInterfaceDo calls netInterfacePending.
Pending(s) ==
  /\ pc[s] = "idle"
  /\ pc' = [pc EXCEPT ![s] = "pending"]
  /\ UNCHANGED <<tunnel, outPacket, pendingIn, delivered, submitted, net>>

\* One packet of netInterfaceProcess is given to tunnelProcessInPacket.
Process(s) ==
  /\ pc[s] = "idle"
  /\ pendingIn[s] # <<>>
  /\ delivered' = [delivered EXCEPT ![s] = Append(@, Head(pendingIn[s]))]
  /\ pendingIn' = [pendingIn EXCEPT ![s] = Tail(@)]
  /\ UNCHANGED <<tunnel, pc, outPacket, submitted, net>>

\* _netInterfaceIncomingOne finds a frame; the drain loop stops after a frame
\* that gave no new packet.
IncomingOne(s, a) ==
  /\ pc[s] \in {"incoming", "pending"}
  /\ \E r \in Receive(tunnel[s], a.frame) :
       /\ tunnel' = [tunnel EXCEPT ![s] = r.tunnel]
       /\ pendingIn' = [pendingIn EXCEPT ![s] = @ \o r.payloads]
       /\ net' = [net EXCEPT ![Peer(s)] = a.rest, ![s] = Carry(@, r.frames)]
       /\ pc' = [pc EXCEPT ![s] = IF r.new THEN @
                                  ELSE IF @ = "pending" THEN "flush" ELSE "out"]
  /\ UNCHANGED <<outPacket, delivered, submitted>>

Incoming(s) == \E a \in Arrivals(net[Peer(s)]) : IncomingOne(s, a)

\* The network loses a frame of an ordered stream.  It might do so at any time;
\* only by the time the receiver looks for the frame can anybody tell.  (Where
\* frames may be reordered and repeated, one that never arrives is lost.)
Lose(s) ==
  /\ Ordered
  /\ pc[s] \in {"incoming", "pending"}
  /\ net[Peer(s)] # <<>>
  /\ net' = [net EXCEPT ![Peer(s)] = Tail(@)]
  /\ UNCHANGED <<tunnel, pc, outPacket, pendingIn, delivered, submitted>>

\* The rest of netInterfacePending once the drain loop has ended (recvfrom found
\* nothing, or it stopped); back to tunnelOut if it was called from there.
FlushPending(s, expired) ==
  /\ pc[s] \in {"pending", "flush"}
  /\ \E b \in Flush(tunnel[s], expired) :
       /\ tunnel' = [tunnel EXCEPT ![s] = b.tunnel]
       /\ net' = [net EXCEPT ![s] = Carry(@, b.frames)]
  /\ pc' = [pc EXCEPT ![s] = IF outPacket[s] = NULL THEN "idle" ELSE "out"]
  /\ UNCHANGED <<outPacket, pendingIn, delivered, submitted>>

FinishPending(s) ==
  \E slots \in SUBSET Occupied(tunnel[s]) :
    \E expired \in SetToSeqs(slots) : FlushPending(s, expired)

\* The rest of tunnelOut once the drain loop has ended.
FinishOut(s) ==
  /\ pc[s] \in {"incoming", "out"}
  /\ \E b \in SendOut(tunnel[s], outPacket[s]) :
       /\ tunnel' = [tunnel EXCEPT ![s] = b.tunnel]
       /\ net' = [net EXCEPT ![s] = Carry(@, b.frames)]
  /\ outPacket' = [outPacket EXCEPT ![s] = NULL]
  /\ pc' = [pc EXCEPT ![s] = "idle"]
  /\ UNCHANGED <<pendingIn, delivered, submitted>>

Next ==
  \E s \in Side :
    \/ Send(s)
    \/ Pending(s)
    \/ Process(s)
    \/ Incoming(s)
    \/ Lose(s)
    \/ FinishPending(s)
    \/ FinishOut(s)

Spec == Init /\ [][Next]_vars

-----------------------------------------------------------------------------
(* Fairness.  Each host keeps running its interface loop; every timer goes *)
(* off in the end; and the network does not lose for ever every frame that *)
(* carries the next packet, nor every repeated packet, nor every           *)
(* acknowledgement of something new.                                       *)

NextArrives(s) ==
  \E a \in Arrivals(net[Peer(s)]) :
    /\ a.frame.data # NoData
    /\ a.frame.sequence = tunnel[s].acknowledge
    /\ IncomingOne(s, a)

RepeatArrives(s) ==
  \E a \in Arrivals(net[Peer(s)]) :
    /\ a.frame.data # NoData
    /\ a.frame.sequence # tunnel[s].acknowledge
    /\ IncomingOne(s, a)

AcknowledgementArrives(s) ==
  \E a \in Arrivals(net[Peer(s)]) :
    /\ WindowDiff(Minus(a.frame.acknowledge, tunnel[s].start)) > 0
    /\ IncomingOne(s, a)

AllExpired(s) ==
  \E expired \in SetToSeqs(Occupied(tunnel[s])) : FlushPending(s, expired)

Fairness ==
  \A s \in Side :
    /\ WF_vars(Pending(s))
    /\ SF_vars(Process(s))
    /\ WF_vars(FinishOut(s))
    /\ WF_vars(FinishPending(s))
    /\ SF_vars(AllExpired(s))
    /\ SF_vars(NextArrives(s))
    /\ SF_vars(RepeatArrives(s))
    /\ SF_vars(AcknowledgementArrives(s))

FairSpec == Spec /\ Fairness

-----------------------------------------------------------------------------
(* Properties.                                                             *)

TunnelRecord ==
  [start : Words, next : Words, sequence : Words, acknowledge : Words,
   unackedPacket : BOOLEAN, hasPendingOut : BOOLEAN,
   reliabilityWindow : [Slots -> Packet \cup {NULL}],
   incoming : [Slots -> Packet \cup {NULL}],
   pendingOut : Seq(Packet)]

\* Every variable has its type; a packet is in hand exactly while tunnelOut runs.
TypeOK ==
  /\ tunnel \in [Side -> TunnelRecord]
  /\ pc \in [Side -> {"idle", "incoming", "pending", "flush", "out"}]
  /\ outPacket \in [Side -> Packet \cup {NULL}]
  /\ \A s \in Side : /\ pc[s] = "idle" => outPacket[s] = NULL
                     /\ pc[s] \in {"incoming", "out"} => outPacket[s] # NULL
  /\ pendingIn \in [Side -> Seq(Nat)]
  /\ delivered \in [Side -> Seq(Nat)]
  /\ submitted \in [Side -> Nat]
  /\ net \in [Side -> IF Ordered THEN Seq(Frame) ELSE SUBSET Frame]

\* The stream positions reached: taken in, put on the window, and freed.
Received(s)    == delivered[s] \o pendingIn[s]
Transmitted(s) == submitted[s] - Len(tunnel[s].pendingOut)
                    - (IF outPacket[s] = NULL THEN 0 ELSE 1)
Released(s)    == Transmitted(s) - InFlight(tunnel[s])

\* Whatever the network loses, duplicates or reorders, what a side takes in is
\* the peer's stream from its beginning: no gap, no duplicate, no swap
\* (tunnelIsNewPacket, tunnelIsWaiting).
InOrderDelivery ==
  \A s \in Side :
    /\ Received(s) = [i \in 1..Len(Received(s)) |-> i]
    /\ Len(Received(s)) <= Transmitted(Peer(s))

\* A packet leaves the window, and its buffer is freed, only when the peer has
\* taken it in, and no acknowledgement frees what was never on the window (the
\* acknowledgement arithmetic of tunnelIsNewPacket).
NoPrematureRelease ==
  \A s \in Side : Released(s) \in 0..Len(Received(Peer(s)))

\* The slot of every outstanding sequence number holds the packet stamped with
\* that number, and no other slot holds a packet: _tunnelSend indexes by next,
\* tunnelIsNewPacket by start, and the packets were stamped from sequence.
WindowHoldsUnacknowledged ==
  \A s \in Side :
    LET t == tunnel[s] IN
      /\ InFlight(t) <= WindowSize
      /\ \A i \in Slots :
           t.reliabilityWindow[i] =
             IF Offset(i, t.start) < InFlight(t)
             THEN [sequence |-> Plus(t.start, Offset(i, t.start)),
                   data |-> Released(s) + Offset(i, t.start) + 1]
             ELSE NULL

\* Packets reach the window in the order they were stamped: the queue, then the
\* packet in hand, continue the numbering at next without a gap.
QueueContinuesWindow ==
  \A s \in Side :
    LET t == tunnel[s]
        queue == IF outPacket[s] = NULL THEN t.pendingOut
                 ELSE Append(t.pendingOut, outPacket[s])
    IN /\ \A k \in 1..Len(queue) :
            queue[k] = [sequence |-> Plus(t.next, k - 1), data |-> Transmitted(s) + k]
       /\ t.sequence = Plus(t.next, Len(queue))

\* A packet kept out of order is one the peer did send, sits in the slot where
\* tunnelIsWaiting will look for it, and is never the next one expected (which
\* would sit there for ever).
EarlyPacketsInPlace ==
  \A s \in Side : \A i \in Slots :
    LET t == tunnel[s]
        d == Offset(i, t.acknowledge)
    IN t.incoming[i] # NULL =>
         /\ d > 0
         /\ t.incoming[i] = [sequence |-> Plus(t.acknowledge, d),
                             data |-> Len(Received(s)) + d + 1]
         /\ t.incoming[i].data <= Transmitted(Peer(s))

\* "true if packet received but not acknowledge" (tunnel.h, unackedPacket): as
\* long as no frame has carried a side's latest acknowledgement, the side
\* remembers that it owes one.  For a network that forgets no frame.
AcknowledgementOwed ==
  \A s \in Side :
    (\A f \in Frames(net[s]) : f.acknowledge # tunnel[s].acknowledge)
      => tunnel[s].unackedPacket \/ tunnel[s].acknowledge = 0

\* "list of the tunnels that have packets ready to go out" (tunnel.h,
\* tunnelHasPendingOut): between operations, a tunnel whose queue could move is
\* on the list that netInterfacePending serves.
ReadyIsListed ==
  \A s \in Side :
    pc[s] = "idle" /\ tunnel[s].pendingOut # <<>> /\ Room(tunnel[s]) > 0
      => tunnel[s].hasPendingOut

\* A packet freed by an acknowledgement is on no list:
\* ASSERT(list_empty(&rw->packet->_packetList)), tunnel.c:602.
FreedPacketUnlisted ==
  [][\A s \in Side : \A i \in Slots :
       LET p == tunnel[s].reliabilityWindow[i] IN
         p # NULL /\ tunnel'[s].reliabilityWindow[i] = NULL
           => \A k \in 1..Len(tunnel[s].pendingOut) : tunnel[s].pendingOut[k] # p]_vars

\* The tunnel implements the reliable channel.
Channel ==
  INSTANCE ReliableChannel WITH
    Window      <- WindowSize,
    transmitted <- [s \in Side |-> Transmitted(s)],
    released    <- [s \in Side |-> Released(s)],
    handedUp    <- [s \in Side |-> Received(s)]

ImplementsChannel == Channel!Spec

\* Every packet handed to tunnelOut is given to the peer's connections some time
\* (only Limit[s] packets are handed over, so the peer catches up).
EventuallyDelivered ==
  \A s \in Side : []<>(Len(delivered[Peer(s)]) = submitted[s])

\* ... and its sender learns of it and frees it: no packet is retransmitted for
\* ever (tunnelIsNewPacket and the acknowledgements of _tunnelSend, tunnelResend).
EventuallyReleased ==
  \A s \in Side : []<>(Released(s) = submitted[s])
=============================================================================
