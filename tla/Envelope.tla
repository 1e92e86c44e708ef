------------------------------ MODULE Envelope ------------------------------
(***************************************************************************)
(* The envelope of an Ethos frame (rpc/libnetStack/lib/envelope.c) and the *)
(* crypto layer inside it (netCrypto.c): how a tunnel gets its key, its id *)
(* and its side, how a frame is sealed under a nonce, and what the         *)
(* receiver does with a frame: find or create the tunnel, check the nonce, *)
(* decrypt with the tunnel's key, try again with the permanent key.        *)
(*                                                                         *)
(* Each host has one interface (netInterfaceBind: "Only one NetInterface   *)
(* for now"), hence one nonce counter and one slot for the public key of   *)
(* outgoing tunnels, which all its tunnels share.  The network loses,      *)
(* duplicates and reorders frames: net is the set of all frames sealed,    *)
(* and any of them may arrive at any time, any number of times.  It may    *)
(* also damage a frame, which then decrypts under no key.                  *)
(*                                                                         *)
(* Cryptography is symbolic.  A key pair is a number, compared as memcmp   *)
(* compares the public keys; the symmetric key that two key pairs agree on *)
(* is the set of the two; a frame decrypts under the key that sealed it    *)
(* and under no other.                                                     *)
(***************************************************************************)
EXTENDS Integers, Sequences, FiniteSets

CONSTANTS
  Hosts,
  IncomingKey,     \* IncomingKey[h]: ephemeral key pair for incoming tunnels
  PermanentKey,    \* PermanentKey[h]: permanent key pair
  OutgoingKeys,    \* key pairs that cryptoBoxKeyPair may draw
  MaxNonce,        \* bound: the nonces of an interface
  MaxDials,        \* bound: MaxDials[h] outgoing tunnels of host h
  MaxDamaged,      \* bound: frames damaged on the way
  MaxAuthenticators \* bound: authenticators a host generates

Keys == {IncomingKey[h] : h \in Hosts} \cup {PermanentKey[h] : h \in Hosts} \cup OutgoingKeys

ASSUME EnvelopeAssumption ==
  /\ IncomingKey \in [Hosts -> Nat] /\ PermanentKey \in [Hosts -> Nat]
  /\ OutgoingKeys \subseteq Nat
  /\ \A g, h \in Hosts :
       /\ IncomingKey[g] # PermanentKey[h]
       /\ g # h => IncomingKey[g] # IncomingKey[h] /\ PermanentKey[g] # PermanentKey[h]
       /\ {IncomingKey[g], PermanentKey[g]} \cap OutgoingKeys = {}
  /\ MaxNonce \in Nat /\ MaxDials \in [Hosts -> Nat]
  /\ MaxDamaged \in Nat /\ MaxAuthenticators \in Nat

VARIABLES
  nonce,           \* nonce[h]: el->nonce, the last nonce the interface used
  outgoing,        \* outgoing[h]: el->ephemeralPublicKeyForOutgoing
  drawn,           \* drawn[h]: history of the key pairs drawn for outgoing tunnels
  tunnels,         \* tunnels[h]: the tunnels of the interface, by cryptoTunnelId
  sides,           \* sides[h]: history of the sides nonces were generated for
  net,             \* all frames sealed so far
  opened,          \* opened[h]: history of the frames opened, in order
  damaged,         \* number of frames damaged on the way
  authenticators   \* authenticators[h]: generated by h; nextNonce is their number

vars == <<nonce, outgoing, drawn, tunnels, sides, net, opened, damaged, authenticators>>

-----------------------------------------------------------------------------
(* Nonces.                                                                 *)

\* Mutants: steps of one instead of two; no step when the parity bit alone
\* does not raise the counter.
NonceByOne(last, odd) ==
  LET n == IF odd THEN (last + 1) - (last % 2) ELSE last - (last % 2)
  IN  IF n <= last THEN last + 1 ELSE n
NonceBitOnly(last, odd) == IF odd THEN (last + 1) - (last % 2) ELSE last - (last % 2)

\* The parity bit is set or cleared for the side of the tunnel; two is added
\* when that does not raise the counter.
NonceGenerate(last, odd) ==
  LET n == IF odd THEN (last + 1) - (last % 2) ELSE last - (last % 2)
  IN  IF n <= last THEN last + 2 ELSE n

-----------------------------------------------------------------------------
(* Tunnels.  A tunnel is its EnvelopeRemote.                               *)

NoKey == -1
Tunnel(peer, key, out) ==
  [peer |-> peer,    \* the remote address
   key  |-> key,     \* ephemeralPublicKey of the remote
   sym  |-> {},      \* symmetricKey
   odd  |-> FALSE,   \* oddSide
   nonce |-> 0,      \* the last nonce received
   out  |-> out]     \* created by this side: it sends first packets

\* Mutant: the side is not recomputed with the key.
KeyOnly(er, local) == [er EXCEPT !.sym = {er.key, local}]

\* cryptoComputeSymmetricKey: key and side, from the remote's public key and
\* a local key pair that differs from it.
ComputeSymmetricKey(er, local) ==
  [er EXCEPT !.sym = {er.key, local}, !.odd = er.key > local]

\* A tunnel id is cipher text of the time of day, under the tunnel's key and
\* a fresh nonce: it stands for that pair.
TunnelId(er, n) == <<er.sym, n>>

With(f, x, v) == [y \in DOMAIN f \cup {x} |-> IF y = x THEN v ELSE f[y]]

-----------------------------------------------------------------------------
(* Sealing.                                                                *)

\* netInterfaceTunnel: an outgoing tunnel to a host whose ephemeral or
\* permanent public key is known.  The key pair drawn for it stays in the
\* interface's one slot until the next outgoing tunnel is created.
Dial(h, g) ==
  /\ g # h
  /\ Cardinality(drawn[h]) < MaxDials[h]
  /\ \E k \in OutgoingKeys \ UNION {drawn[i] : i \in Hosts},
        theirs \in {IncomingKey[g], PermanentKey[g]} :
       LET er == ComputeSymmetricKey(Tunnel(g, theirs, TRUE), k)
           n  == NonceGenerate(nonce[h], er.odd)
       IN  /\ n <= MaxNonce
           /\ outgoing' = [outgoing EXCEPT ![h] = k]
           /\ drawn' = [drawn EXCEPT ![h] = @ \cup {k}]
           /\ nonce' = [nonce EXCEPT ![h] = n]
           /\ sides' = [sides EXCEPT ![h] = @ \cup {er.odd}]
           /\ tunnels' = [tunnels EXCEPT ![h] = With(@, TunnelId(er, n), er)]
  /\ UNCHANGED <<net, opened, damaged, authenticators>>

\* cryptoCreateEncrypted: a first packet carries the public key the interface
\* has in its slot now.
Frame(h, id, first, n) ==
  LET er == tunnels[h][id]
  IN  [from |-> h, to |-> er.peer, id |-> id, first |-> first, nonce |-> n,
       key |-> IF first THEN outgoing[h] ELSE NoKey, sym |-> er.sym]

\* envelopeCreate, for a packet or a retransmission: every frame is sealed
\* anew.  A tunnel that was not dialled is known to the layers above only
\* once a frame was opened on it.
Seal(h, id, first) ==
  LET er == tunnels[h][id]
      n  == NonceGenerate(nonce[h], er.odd)
  IN  /\ IF er.out THEN TRUE ELSE ~first /\ er.nonce > 0
      /\ n <= MaxNonce
      /\ nonce' = [nonce EXCEPT ![h] = n]
      /\ sides' = [sides EXCEPT ![h] = @ \cup {er.odd}]
      /\ net' = net \cup {Frame(h, id, first, n)}
      /\ UNCHANGED <<outgoing, drawn, tunnels, opened, damaged, authenticators>>

-----------------------------------------------------------------------------
(* Opening (envelopeOpenStartingAtCrypto).                                 *)

Known(h, f) == f.id \in DOMAIN tunnels[h]

\* The tunnel a frame is for, none or one: a known one, unless the frame
\* carries another public key than the tunnel's; else a new one, made from
\* the public key that a first packet carries.
TunnelFor(h, f) ==
  IF Known(h, f)
    THEN {er \in {tunnels[h][f.id]} : f.first => f.key = er.key}
    ELSE {ComputeSymmetricKey(Tunnel(f.from, k, FALSE), IncomingKey[h]) :
            k \in {x \in {f.key} : f.first /\ x # IncomingKey[h]}}

\* Mutant: a repetition is accepted.
SameNonce(er, f) == f.nonce >= er.nonce

NewNonce(er, f) == f.nonce > er.nonce

\* cryptoDecrypt: with the key the tunnel has now.
Decrypts(er, f) == f.sym = er.sym

\* The second attempt replaces key and side of the tunnel, whether or not the
\* frame then decrypts.
SecondKey(h, er) ==
  IF er.key = PermanentKey[h] THEN er ELSE ComputeSymmetricKey(er, PermanentKey[h])

\* Mutant: no second attempt.
TriedFirstOnly(h, er, f) == er

\* The tunnel after the attempts to decrypt f.
Tried(h, er, f) == IF Decrypts(er, f) THEN er ELSE SecondKey(h, er)

\* The frame decrypts: its packet goes on to the reliability layer.
Open(h, f) ==
  \E er \in TunnelFor(h, f) :
    LET tried == Tried(h, er, f)
    IN  /\ NewNonce(er, f)
        /\ Decrypts(tried, f)
        /\ tunnels' = [tunnels EXCEPT ![h] =
                         With(@, f.id, [tried EXCEPT !.nonce = f.nonce])]
        /\ opened' = [opened EXCEPT ![h] = Append(@, f)]
        /\ UNCHANGED <<nonce, outgoing, drawn, sides, net, damaged, authenticators>>

\* The frame decrypts under neither key and is discarded.
FailToOpen(h, f) ==
  \E er \in TunnelFor(h, f) :
    LET tried == Tried(h, er, f)
    IN  /\ NewNonce(er, f)
        /\ ~Decrypts(tried, f)
        /\ tunnels' = [tunnels EXCEPT ![h] = With(@, f.id, tried)]
        /\ UNCHANGED <<nonce, outgoing, drawn, sides, net, opened, authenticators>>

\* Frames without a tunnel and frames with an old nonce change nothing.
Receive(f) ==
  \/ Open(f.to, f)
  \/ FailToOpen(f.to, f) /\ UNCHANGED damaged

ReceiveDamaged(f) ==
  /\ damaged < MaxDamaged
  /\ FailToOpen(f.to, [f EXCEPT !.sym = {}])
  /\ damaged' = damaged + 1

-----------------------------------------------------------------------------
(* Authenticators: the recipient's public key, sealed for the recipient.   *)

cryptoGenAuthenticator(h, g) ==
  /\ g # h
  /\ Cardinality(authenticators[h]) < MaxAuthenticators
  /\ authenticators' = [authenticators EXCEPT ![h] = @ \cup
       {[for |-> g, nonce |-> Cardinality(@), plain |-> PermanentKey[g],
         sym |-> {PermanentKey[g], PermanentKey[h]}]}]
  /\ UNCHANGED <<nonce, outgoing, drawn, tunnels, sides, net, opened, damaged>>

\* Mutant: the text is not compared.
AuthenticatorDecrypts(sender, recipient, a) == a.sym = {sender, recipient}

cryptoAuthenticatorIsValid(sender, recipient, a) ==
  /\ a.sym = {sender, recipient}
  /\ a.plain = recipient

-----------------------------------------------------------------------------
Init ==
  /\ nonce = [h \in Hosts |-> 0]
  /\ outgoing = [h \in Hosts |-> NoKey]
  /\ drawn = [h \in Hosts |-> {}]
  /\ tunnels = [h \in Hosts |-> << >>]
  /\ sides = [h \in Hosts |-> {}]
  /\ net = {}
  /\ opened = [h \in Hosts |-> << >>]
  /\ damaged = 0
  /\ authenticators = [h \in Hosts |-> {}]

Next ==
  \/ \E h, g \in Hosts : Dial(h, g)
  \/ \E h \in Hosts : \E id \in DOMAIN tunnels[h], first \in BOOLEAN : Seal(h, id, first)
  \/ \E f \in net : Receive(f)
  \/ \E f \in net : ReceiveDamaged(f)
  \/ \E h, g \in Hosts : cryptoGenAuthenticator(h, g)

Spec == Init /\ [][Next]_vars

-----------------------------------------------------------------------------
(* Properties.                                                             *)

Ids == {<<{a, b}, n>> : a, b \in Keys, n \in 1..MaxNonce}

TunnelType ==
  [peer : Hosts, key : Keys, sym : SUBSET Keys, odd : BOOLEAN,
   nonce : 0..MaxNonce, out : BOOLEAN]

FrameType ==
  [from : Hosts, to : Hosts, id : Ids, first : BOOLEAN, nonce : 1..MaxNonce,
   key : Keys \cup {NoKey}, sym : SUBSET Keys]

\* Every variable has its type; the tables hold tunnels under their ids.
TypeOK ==
  /\ nonce \in [Hosts -> 0..MaxNonce]
  /\ outgoing \in [Hosts -> OutgoingKeys \cup {NoKey}]
  /\ drawn \in [Hosts -> SUBSET OutgoingKeys]
  /\ \A h \in Hosts : DOMAIN tunnels[h] \subseteq Ids
       /\ \A id \in DOMAIN tunnels[h] : tunnels[h][id] \in TunnelType
  /\ DOMAIN tunnels = Hosts
  /\ sides \in [Hosts -> SUBSET BOOLEAN]
  /\ net \subseteq FrameType
  /\ opened \in [Hosts -> Seq(FrameType)]
  /\ damaged \in 0..MaxDamaged

\* No two frames of an interface bear the same nonce, whichever of its
\* tunnels they are for (the counter of _cryptoNonceGenerate only grows).
NoncesDistinct ==
  \A f, g \in net : f.from = g.from /\ f.nonce = g.nonce => f = g

\* As long as an interface has been on one side only, all its nonces have
\* the parity of that side, so the two directions of a tunnel between such
\* interfaces never use one nonce twice under their common key
\* (_cryptoNonceGenerate).  On an interface with tunnels on both sides the
\* parity of a nonce may be that of the tunnel used before.
ParityOfOneSide ==
  \A f \in net : \A odd \in BOOLEAN : sides[f.from] = {odd} => (f.nonce % 2 = 1) = odd

\* Two ends of a tunnel that hold the same key are on different sides: the
\* connections they open and the nonces they draw do not collide, even after
\* the receiver found that it was dialled by its permanent key.
SidesAgree ==
  \A h, g \in Hosts : \A i \in DOMAIN tunnels[h], j \in DOMAIN tunnels[g] :
    h # g /\ tunnels[h][i].sym = tunnels[g][j].sym => tunnels[h][i].odd # tunnels[g][j].odd

\* The frames opened on a tunnel are frames that were sealed for it, in the
\* order of sealing and each once, whatever the network repeats, reorders or
\* damages: this is why a tunnel with crypto headers sees losses only.
OpenedInOrder ==
  \A h \in Hosts : \A i \in DOMAIN opened[h] :
    /\ opened[h][i] \in net /\ opened[h][i].to = h
    /\ \A j \in 1..(i - 1) :
         opened[h][i].id = opened[h][j].id => opened[h][j].nonce < opened[h][i].nonce

\* The first packets of tunnel id were all sealed while the key in the
\* interface's slot was the one the tunnel was made with.
KeysCurrent(id) == \A f \in net : f.id = id /\ f.first => f.key \in f.sym

\* As long as nothing was damaged and no other tunnel was dialled before the
\* first packets of a tunnel, no frame of it is refused but for its nonce or
\* for coming before the first packet: whatever arrived before, also when the
\* tunnel was dialled by the permanent key, the receiver can decrypt it.
LegitimateOpens ==
  \A f \in net :
    damaged = 0 /\ KeysCurrent(f.id) /\ (f.first \/ Known(f.to, f)) =>
      \E er \in TunnelFor(f.to, f) : Decrypts(Tried(f.to, er, f), f)

\* An authenticator is valid for its sender and its recipient and for no
\* other pair, in particular not with the two exchanged
\* (cryptoAuthenticatorIsValid).
AuthenticatorsDirected ==
  \A h, s, r \in Hosts : \A a \in authenticators[h] :
    s # r => (cryptoAuthenticatorIsValid(PermanentKey[s], PermanentKey[r], a)
                <=> s = h /\ r = a.for)
=============================================================================
