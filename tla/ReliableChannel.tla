-------------------------- MODULE ReliableChannel --------------------------
(***************************************************************************)
(* What the reliability layer of a tunnel promises to the connection layer *)
(* above it, and to the owner of the packet buffers: in each direction the *)
(* packets handed to tunnelOut are handed up at the other side in order,   *)
(* once each, none invented; a packet is freed by its sender only after    *)
(* the other side has it; and at most Window packets are ever outstanding. *)
(*                                                                         *)
(* Nothing here knows of sequence numbers, acknowledgements, windows,      *)
(* timers or frames: packets are named by their position in the stream.    *)
(* Module Tunnel implements this specification.                            *)
(***************************************************************************)
EXTENDS Integers, Sequences

CONSTANT Window       \* packets one side may have outstanding

Side == {0, 1}        \* envelopeRemote.oddSide: the two ends of a tunnel
Peer(s) == 1 - s

VARIABLES
  submitted,          \* submitted[s]: packets s has handed to tunnelOut
  transmitted,        \* transmitted[s]: of these, how many ever left s's queue
  released,           \* released[s]: of these, how many s has freed
  handedUp            \* handedUp[s]: the peer's packets s has taken in, in order

channelVars == <<submitted, transmitted, released, handedUp>>

Init ==
  /\ submitted   = [s \in Side |-> 0]
  /\ transmitted = [s \in Side |-> 0]
  /\ released    = [s \in Side |-> 0]
  /\ handedUp    = [s \in Side |-> <<>>]

\* The layer above hands over one more packet.
Submit(s) ==
  /\ submitted' = [submitted EXCEPT ![s] = @ + 1]
  /\ UNCHANGED <<transmitted, released, handedUp>>

\* One step of the protocol at s: it may free packets the peer has taken in,
\* send more of its own, and take in more of the peer's, in stream order.
Progress(s) ==
  /\ \E r \in released[s]..Len(handedUp[Peer(s)]),
        t \in transmitted[s]..submitted[s],
        d \in Len(handedUp[s])..transmitted[Peer(s)] :
       /\ t - r <= Window
       /\ released'    = [released EXCEPT ![s] = r]
       /\ transmitted' = [transmitted EXCEPT ![s] = t]
       /\ handedUp'    = [handedUp EXCEPT ![s] = [i \in 1..d |-> i]]
  /\ UNCHANGED submitted

Next == \E s \in Side : Submit(s) \/ Progress(s)

Spec == Init /\ [][Next]_channelVars
=============================================================================
