------------------------- MODULE TunnelConnections -------------------------
(***************************************************************************)
(* The connections multiplexed over a tunnel: the table of connection ids  *)
(* with its free list and its growth (rpc/libnetStack/lib/tunnel.c), the   *)
(* operations New, Accept, Reject and Close (connection.c), and messages,  *)
(* which packetEncoder.c cuts into packets and tunnelProcessInPacket puts  *)
(* together again.                                                         *)
(*                                                                         *)
(* Below is the reliable channel that module Tunnel implements: packets    *)
(* arrive once each and in order.  Above are the kernel and the daemons,   *)
(* which are not part of the repository: they open, use, close and refuse  *)
(* connections, but use neither a connection they have closed nor one they *)
(* were told is closed.                                                    *)
(***************************************************************************)
EXTENDS Integers, Sequences

CONSTANTS
  FirstAllocation,   \* ids of the first connectionArray (32)
  TableSizes,        \* bound: the sizes a table may grow to (32, 64, 128, ...)
  Payload,           \* data bytes that fit one packet (maximumPayloadSize - 16)
  Lengths,           \* bound: Lengths[n] is the length of the n-th message of a side
  MaxOpened,         \* bound: MaxOpened[s] connections are opened by side s
  MaxCalls,          \* bound: MaxCalls[s] messages are sent by side s
  MayReject          \* TRUE: connections may be refused (rejectConnection)

Side == {0, 1}             \* envelopeRemote.oddSide
Peer(s) == 1 - s

\* Even, so that the halves of the table have the parity of their side.  The sizes
\* are those that doubling reaches, up to a largest one or all of them.
ASSUME ConnectionsAssumption ==
  /\ FirstAllocation \in TableSizes /\ FirstAllocation >= 4
  /\ \A z \in TableSizes : z \in Nat /\ z >= FirstAllocation /\ z % 2 = 0
  /\ \A y, z \in TableSizes : y < z => 2 * y \in TableSizes /\ 2 * y <= z
  /\ Payload \in Nat \ {0}
  /\ Lengths \in Seq(Nat \ {0})
  /\ MaxOpened \in [Side -> Nat]
  /\ MaxCalls \in [Side -> 0..Len(Lengths)]
  /\ MayReject \in BOOLEAN

VARIABLES
  table,             \* table[s]: connectionArray, connectionAllocated,
                     \*   connectionFree and controlConnection of side s
  channel,           \* channel[s]: packets on their way from s to its peer
  opened,            \* opened[s]: connections s has opened
  calls,             \* calls[s]: history, the messages s has sent
  handled,           \* handled[s]: history, the messages s has processed
  closed             \* closed[s]: ids that s has closed or refused

vars == <<table, channel, opened, calls, handled, closed>>

\* The ids of a table of any size.
Ids == UNION {0..(z - 1) : z \in TableSizes}

mySideConnectionId(s, id) == id % 2 = s

-----------------------------------------------------------------------------
(* The table.  An entry is a connection, or the link of the free list, or  *)
(* null: all three live in the same pointer.                               *)

NoPacket == <<>>
Unused(link)       == [status |-> "unused", link |-> link, inPacket |-> NoPacket]
Connection(status) == [status |-> status, link |-> 0, inPacket |-> NoPacket]

Live(t, id) == t.array[id].status # "unused"

\* Mutant: the new ids take the place of the free list instead of preceding it.
IncreaseSpaceDropsList(s, t) ==
  LET elmts == IF t.allocated = 0 THEN FirstAllocation ELSE 2 * t.allocated
      last  == elmts - (IF s = 1 THEN 1 ELSE 2)
      mine  == {i \in (t.allocated + 1)..last : mySideConnectionId(s, i)}
  IN [t EXCEPT
       !.array = [i \in Ids |-> IF i \in mine
                                THEN Unused(IF i = last THEN 0 ELSE i + 2)
                                ELSE @[i]],
       !.free = t.allocated + (IF s = 1 THEN 1 ELSE 2),
       !.allocated = elmts]

\* _tunnelConnectionIncreaseSpace: the ids of this side above the old table are
\* pushed on the free list, the lowest last.
IncreaseSpace(s, t) ==
  LET elmts == IF t.allocated = 0 THEN FirstAllocation ELSE 2 * t.allocated
      last  == elmts - (IF s = 1 THEN 1 ELSE 2)
      mine  == {i \in (t.allocated + 1)..last : mySideConnectionId(s, i)}
  IN [t EXCEPT
       !.array = [i \in Ids |-> IF i \in mine
                                THEN Unused(IF i = last THEN t.free ELSE i + 2)
                                ELSE @[i]],
       !.free = t.allocated + (IF s = 1 THEN 1 ELSE 2),
       !.allocated = elmts]

\* tunnelConnectionAllocate: the id, and the table that has the connection.
Allocate(s, t) ==
  LET grown == IF t.free = 0 THEN IncreaseSpace(s, t) ELSE t
      id    == grown.free
  IN [id |-> id,
      table |-> [grown EXCEPT !.free = grown.array[id].link,
                              !.array[id] = Connection("initiated")]]

\* Mutant: the table grows only when there is none.
RoomForFirstOnly(s, t, id) == IF t.allocated = 0 THEN IncreaseSpace(s, t) ELSE t

\* The table grows once if the id of a request is not below its size.
RoomFor(s, t, id) == IF id >= t.allocated THEN IncreaseSpace(s, t) ELSE t

\* _tunnelConnectionAccept and acceptConnection.
Accept(s, t, id) ==
  [RoomFor(s, t, id) EXCEPT !.array[id] = Connection("established"),
                            !.control = IF id \in {1, 2} THEN id ELSE @]

\* Mutant: only this side's own ids are released.
ReleaseOwnOnly(s, t, id) ==
  IF mySideConnectionId(s, id)
  THEN [t EXCEPT !.array[id] = Unused(t.free), !.free = id]
  ELSE t

\* _tunnelConnectionRelease
Release(s, t, id) ==
  IF mySideConnectionId(s, id)
  THEN [t EXCEPT !.array[id] = Unused(t.free), !.free = id]
  ELSE [t EXCEPT !.array[id] = Unused(0)]

-----------------------------------------------------------------------------
(* Packets.  A fragment says where in its message its bytes are.           *)

Control(op, id) == [op |-> op, id |-> id]

\* Mutant: a message that fills its packet is followed by an empty fragment.
PartsOffByOne(length) == length \div Payload + 1

\* Packets a message needs: _packetEncoderWrite sends a packet only when more
\* data comes than it has room for.
Parts(length) == (length + Payload - 1) \div Payload

\* Mutant: every fragment is declared to be the first.
FragmentsAllFirst(id, message, length) ==
  [k \in 1..Parts(length) |->
    [op |-> "send", id |-> id, first |-> TRUE, last |-> k = Parts(length),
     total |-> length, message |-> message, from |-> (k - 1) * Payload + 1,
     bytes |-> IF k < Parts(length) THEN Payload ELSE length - (k - 1) * Payload]]

\* packetEncoderReset, _packetEncoderWrite and _packetEncoderFlush.
Fragments(id, message, length) ==
  [k \in 1..Parts(length) |->
    [op |-> "send", id |-> id, first |-> k = 1, last |-> k = Parts(length),
     total |-> length, message |-> message, from |-> (k - 1) * Payload + 1,
     bytes |-> IF k < Parts(length) THEN Payload ELSE length - (k - 1) * Payload]]

\* What tunnelProcessInPacket asserts, or dereferences, on a packet.
Acceptable(s, p) ==
  LET t == table[s] IN
    CASE p.op = "new" ->
           /\ ~mySideConnectionId(s, p.id)
           /\ p.id < RoomFor(s, t, p.id).allocated
           /\ ~Live(t, p.id)
           /\ IF p.id \in {1, 2} THEN t.control = 0 ELSE t.control # 0
      [] p.op = "accept" -> t.array[p.id].status = "initiated"
      [] p.op \in {"reject", "close"} -> Live(t, p.id)
      [] p.op = "send" ->
           /\ Live(t, p.id)
           /\ ~p.first => t.array[p.id].inPacket # NoPacket

-----------------------------------------------------------------------------
(* The hosts.                                                              *)

NewTable == [array |-> [i \in Ids |-> Unused(0)], allocated |-> 0, free |-> 0, control |-> 0]

Init ==
  /\ table   = [s \in Side |-> NewTable]
  /\ channel = [s \in Side |-> <<>>]
  /\ opened  = [s \in Side |-> 0]
  /\ calls   = [s \in Side |-> <<>>]
  /\ handled = [s \in Side |-> <<>>]
  /\ closed  = [s \in Side |-> {}]

tunnelOut(s, packets) == channel' = [channel EXCEPT ![s] = @ \o packets]

\* newConnection
NewConnection(s) ==
  /\ opened[s] < MaxOpened[s]
  /\ LET a == Allocate(s, table[s]) IN
       /\ a.table.allocated \in TableSizes     \* bound
       /\ table' = [table EXCEPT ![s] = a.table]
       /\ tunnelOut(s, <<Control("new", a.id)>>)
       /\ closed' = [closed EXCEPT ![s] = @ \ {a.id}]
  /\ opened' = [opened EXCEPT ![s] = @ + 1]
  /\ UNCHANGED <<calls, handled>>

\* rpcCall on a connection: the message goes out as one or more packets.
Call(s, id) ==
  /\ Len(calls[s]) < MaxCalls[s]
  /\ Live(table[s], id)
  /\ id \notin closed[s]
  /\ LET message == Len(calls[s]) + 1 IN
       /\ calls' = [calls EXCEPT ![s] = Append(@, [id |-> id, length |-> Lengths[message]])]
       /\ tunnelOut(s, Fragments(id, message, Lengths[message]))
  /\ UNCHANGED <<table, opened, handled, closed>>

\* closeConnection: only the other side learns of it.
Close(s, id) ==
  /\ mySideConnectionId(s, id)
  /\ Live(table[s], id)
  /\ id \notin closed[s]
  /\ closed' = [closed EXCEPT ![s] = @ \cup {id}]
  /\ tunnelOut(s, <<Control("close", id)>>)
  /\ UNCHANGED <<table, opened, calls, handled>>

\* rejectConnection
Reject(s, id) ==
  /\ MayReject
  /\ ~mySideConnectionId(s, id)
  /\ Live(table[s], id)
  /\ id \notin closed[s]
  /\ closed' = [closed EXCEPT ![s] = @ \cup {id}]
  /\ tunnelOut(s, <<Control("reject", id)>>)
  /\ UNCHANGED <<table, opened, calls, handled>>

\* The packet at the head of the channel reaches tunnelProcessInPacket.
Arrives(s, op) ==
  /\ channel[Peer(s)] # <<>>
  /\ Head(channel[Peer(s)]).op = op
  /\ Acceptable(s, Head(channel[Peer(s)]))

ProcessNew(s) ==
  /\ Arrives(s, "new")
  /\ LET id == Head(channel[Peer(s)]).id IN
       /\ table' = [table EXCEPT ![s] = Accept(s, @, id)]
       /\ channel' = [channel EXCEPT ![Peer(s)] = Tail(@),
                                     ![s] = Append(@, Control("accept", id))]
       /\ closed' = [closed EXCEPT ![s] = @ \ {id}]
  /\ UNCHANGED <<opened, calls, handled>>

ProcessAccept(s) ==
  /\ Arrives(s, "accept")
  /\ table' = [table EXCEPT ![s].array[Head(channel[Peer(s)]).id].status = "established"]
  /\ channel' = [channel EXCEPT ![Peer(s)] = Tail(@)]
  /\ UNCHANGED <<opened, calls, handled, closed>>

\* RejectConnection and CloseConnection
ProcessRelease(s) ==
  /\ Arrives(s, "reject") \/ Arrives(s, "close")
  /\ table' = [table EXCEPT ![s] = Release(s, @, Head(channel[Peer(s)]).id)]
  /\ channel' = [channel EXCEPT ![Peer(s)] = Tail(@)]
  /\ UNCHANGED <<opened, calls, handled, closed>>

\* The packet being assembled, with the bytes of fragment p.
Assembled(entry, p) ==
  Append(IF p.first THEN <<>> ELSE entry.inPacket,
         [message |-> p.message, from |-> p.from, bytes |-> p.bytes])

\* SendOnConnection, ...F, ...L and ...FL
ProcessSend(s) ==
  /\ Arrives(s, "send")
  /\ LET p == Head(channel[Peer(s)])
         inPacket == Assembled(table[s].array[p.id], p)
     IN /\ table' = [table EXCEPT ![s].array[p.id].inPacket =
                       IF p.last THEN NoPacket ELSE inPacket]
        /\ handled' = IF p.last
                      THEN [handled EXCEPT ![s] = Append(@, [id |-> p.id, pieces |-> inPacket])]
                      ELSE handled
  /\ channel' = [channel EXCEPT ![Peer(s)] = Tail(@)]
  /\ UNCHANGED <<opened, calls, closed>>

Next ==
  \E s \in Side :
    \/ NewConnection(s)
    \/ \E id \in Ids : Call(s, id)
    \/ \E id \in Ids : Close(s, id)
    \/ \E id \in Ids : Reject(s, id)
    \/ ProcessNew(s)
    \/ ProcessAccept(s)
    \/ ProcessRelease(s)
    \/ ProcessSend(s)

Spec == Init /\ [][Next]_vars

-----------------------------------------------------------------------------
(* Properties.                                                             *)

Entry ==
  [status : {"unused", "initiated", "established"}, link : Ids,
   inPacket : Seq([message : Nat \ {0}, from : Nat \ {0}, bytes : Nat \ {0}])]

Table == [array : [Ids -> Entry], allocated : Nat, free : Ids, control : {0, 1, 2}]

\* The tables have their types and a packet carries at least one byte.
TypeOK ==
  /\ table \in [Side -> Table]
  /\ \A s \in Side : opened[s] \in 0..MaxOpened[s]
  /\ closed \in [Side -> SUBSET Ids]
  /\ \A s \in Side : \A k \in 1..Len(channel[s]) :
       LET p == channel[s][k] IN
         /\ p.id \in Ids
         /\ p.op = "send" => p.bytes \in 1..Payload /\ p.from + p.bytes - 1 <= p.total

\* No packet that arrives fails an assertion or meets a null pointer in
\* tunnelProcessInPacket (the ASSERTs of _tunnelConnectionAccept,
\* acceptConnection, connectionFree and the AcceptConnection case).  Two kinds of
\* request are left out: one that reuses an id this side has refused (see
\* RequestFindsNoConnection), and one for an ordinary id before this side has
\* accepted a control connection, which happens when the other side's free list
\* starts above 2 because its table has grown.
HandlersAccept ==
  \A s \in Side :
    channel[Peer(s)] # <<>> =>
      LET p == Head(channel[Peer(s)]) IN
        \/ Acceptable(s, p)
        \/ p.op = "new" /\ p.id \in closed[s]
        \/ p.op = "new" /\ p.id > 2 /\ table[s].control = 0

\* A request for a connection finds its id free:
\* ASSERT(!tunnel->connectionArray[connectionId]), tunnel.c:392.
RequestFindsNoConnection ==
  \A s \in Side :
    channel[Peer(s)] # <<>> =>
      LET p == Head(channel[Peer(s)]) IN p.op = "new" => ~Live(table[s], p.id)

\* Ids a growing table never puts on the free list of the even side: the loop of
\* _tunnelConnectionIncreaseSpace stops above the old size.
Skipped(s) == IF s = 0 THEN {0} \cup TableSizes ELSE {}

\* The ids that side s may still allocate from table t.
FreeIds(s, t) ==
  {i \in Ids : i < t.allocated /\ mySideConnectionId(s, i) /\ i \notin Skipped(s) /\ ~Live(t, i)}

\* The pointers of the free list; the head of the list stands for the link of 0,
\* which is nobody's id.
Link(t, i) == IF i = 0 THEN t.free ELSE t.array[i].link

\* Exactly one pointer (the head of the free list or the link of a free id)
\* leads to each free id of this side, and none to a connection or to an id of
\* the other side: no id is handed out twice, and none drops off the list,
\* whatever the order of growth, allocation and release.
FreeListSound ==
  \A s \in Side :
    LET t == table[s]
        nodes == {0} \cup FreeIds(s, t)
    IN /\ \A i \in nodes : Link(t, i) \in nodes
       /\ \A i \in FreeIds(s, t) : \E j \in nodes :
            Link(t, j) = i /\ \A k \in nodes : Link(t, k) = i => k = j

\* The bytes of a message, in order and none missing.
Whole(pieces, message, length) ==
  /\ \A k \in 1..Len(pieces) : pieces[k].message = message
  /\ pieces[1].from = 1
  /\ \A k \in 2..Len(pieces) : pieces[k].from = pieces[k - 1].from + pieces[k - 1].bytes
  /\ pieces[Len(pieces)].from + pieces[Len(pieces)].bytes - 1 = length

\* What connectionProcessPacket is given are the messages the other side sent,
\* whole, in order and on their own connections, although fragments of several
\* connections share the tunnel and ids are reused.
WholeMessages ==
  \A s \in Side :
    /\ Len(handled[s]) <= Len(calls[Peer(s)])
    /\ \A n \in 1..Len(handled[s]) :
         /\ handled[s][n].id = calls[Peer(s)][n].id
         /\ Whole(handled[s][n].pieces, n, calls[Peer(s)][n].length)

\* With nothing in flight the two tables agree: a connection that one side has
\* and has not itself given up is established there, and the other side has it and
\* has not given it up, so no close or refusal leaves half a connection behind.
QuietAgreement ==
  (\A s \in Side : channel[s] = <<>>) =>
    \A s \in Side, id \in Ids :
      Live(table[s], id) /\ id \notin closed[s]
        => /\ table[s].array[id].status = "established"
           /\ Live(table[Peer(s)], id) /\ id \notin closed[Peer(s)]
=============================================================================
